------------------------- MODULE BinanceDepthProofs -------------------------
(***************************************************************************)
(* Proofs about BinanceDepth for every set of levels, every bound on       *)
(* quantities and update ids, every lag and depth of the REST snapshot and *)
(* every queue capacity.  IInv is inductive: one lemma per action (or per  *)
(* group of actions with the same effect), then the theorems.  The last    *)
(* section proves an action property, with the order of the stream's       *)
(* events.                                                                 *)
(***************************************************************************)
EXTENDS BinanceDepth, LocalBookProofs

SyncType == [ready : BOOLEAN, last : Seqs, snapshot : Snapshots,
             pending : Seq(Deltas)]

----------------------------------------------------------------------------
(* Sequences.                                                              *)

LEMMA SuffixFacts ==
    ASSUME NEW S, NEW s \in Seq(S), NEW k \in 1..(Len(s) + 1)
    PROVE  /\ Len(s) \in Nat
           /\ SubSeq(s, k, Len(s)) \in Seq(S)
           /\ Len(SubSeq(s, k, Len(s))) = Len(s) - k + 1
           /\ \A i \in 1..(Len(s) - k + 1) :
                 SubSeq(s, k, Len(s))[i] = s[k + i - 1]
<1>1. Len(s) \in Nat /\ k \in Int
    BY LenProperties
<1>2. \A i \in k..Len(s) : s[i] \in S
    BY <1>1, ElementOfSeq
<1>3. QED
    BY <1>1, <1>2, SubSeqProperties

LEMMA ShortSeqFacts ==
    ASSUME NEW S, NEW d \in S, NEW e \in S
    PROVE  /\ <<e>> \in Seq(S) /\ Len(<<e>>) = 1 /\ <<e>>[1] = e
           /\ <<d>> \o <<e>> = <<d, e>>
           /\ <<d, e>> \in Seq(S) /\ Len(<<d, e>>) = 2
           /\ <<d, e>>[1] = d /\ <<d, e>>[2] = e
<1>1. /\ <<d>> \in Seq(S) /\ Len(<<d>>) = 1 /\ <<d>>[1] = d
      /\ <<e>> \in Seq(S) /\ Len(<<e>>) = 1 /\ <<e>>[1] = e
    OBVIOUS
<1>2. <<d, e>> \in Seq(S) /\ Len(<<d, e>>) = 2
    OBVIOUS
<1>3. <<d, e>>[1] = d /\ <<d, e>>[2] = e
    OBVIOUS
<1>4. <<d>> \o <<e>> \in Seq(S) /\ Len(<<d>> \o <<e>>) = 2
    BY <1>1, ConcatProperties
<1>5. \A i \in 1..2 : (<<d>> \o <<e>>)[i] = <<d, e>>[i]
    BY <1>1, <1>3, ConcatProperties
<1>6. <<d>> \o <<e>> = <<d, e>>
    BY <1>2, <1>4, <1>5, SeqEqual
<1>7. QED
    BY <1>1, <1>2, <1>3, <1>6

----------------------------------------------------------------------------
(* Initial states.                                                         *)

LEMMA InitialTypes ==
    /\ EmptyLevels \in Levels
    /\ NoSnapshot \in Snapshots
    /\ NewSync \in SyncType
    /\ NewBook \in Books
<1>1. EmptyLevels \in Levels
    BY MaxQtyAssumption DEF EmptyLevels, Levels, Qty
<1>2. NoSnapshot \in Snapshots
    BY <1>1 DEF NoSnapshot, Snapshot, Snapshots, Seqs
<1>3. <<>> \in Seq(Deltas)
    BY EmptySeq
<1>4. QED
    BY <1>1, <1>2, <1>3
       DEF NewSync, SyncType, NewBook, Books, Seqs

(* What a snapshot shows of a book is a book.                              *)
LEMMA BestType ==
    ASSUME NEW levels \in Levels
    PROVE  Best(levels) \in Levels
BY MaxQtyAssumption DEF Best, Levels, Qty

LEMMA InitIInv == Init => IInv
<1> SUFFICES ASSUME Init PROVE IInv
    OBVIOUS
<1> USE DEF Init
<1>0. Len(<<>>) = 0
    OBVIOUS
<1>1. TypeOK
    BY <1>0, InitialTypes, BinanceAssumption, EmptySeq DEF TypeOK, SyncType
<1>2. AllFaithful
    BY <1>0 DEF AllFaithful, NewSync
<1>3. BookTracksExchange
    BY DEF BookTracksExchange, Tracks, NewBook
<1>4. QueueInSequence /\ OutboxInSequence
    BY <1>0 DEF QueueInSequence, OutboxInSequence
<1>5. SyncInStep
    BY <1>0 DEF SyncInStep, NewSync
<1>6. QED
    BY <1>1, <1>2, <1>3, <1>4, <1>5 DEF IInv

----------------------------------------------------------------------------
(* The exchange.                                                           *)

(* One more update: what is on the way stays faithful to the longer        *)
(* history, and the book still matches its prefix.                         *)
LEMMA ExchangeUpdateIInv == IInv /\ ExchangeUpdate => IInv'
<1> SUFFICES ASSUME IInv, ExchangeUpdate PROVE IInv'
    OBVIOUS
<1>1. /\ head \in Nat /\ head < MaxId /\ head' = head + 1
      /\ UNCHANGED <<streamed, wire, task, sync, outbox, queue, book>>
      /\ hist \in [0..head -> Levels]
    BY BinanceAssumption
       DEF IInv, TypeOK, ExchangeUpdate, taskVars
<1>2. PICK l \in Level, q \in Qty :
          hist' = [i \in 0..(head + 1) |->
                      IF i <= head THEN hist[i]
                      ELSE [hist[head] EXCEPT ![l] = q]]
    BY DEF ExchangeUpdate
<1>3. [hist[head] EXCEPT ![l] = q] \in Levels
    BY <1>1 DEF Levels
<1>4. /\ hist' \in [0..(head + 1) -> Levels]
      /\ \A i \in 0..head : hist'[i] = hist[i] /\ Shown'[i] = Shown[i]
  <2>1. /\ hist' \in [0..(head + 1) -> Levels]
        /\ \A i \in 0..head : hist'[i] = hist[i]
    BY <1>1, <1>2, <1>3
  <2>2. \A i \in 0..head : Shown'[i] = Shown[i]
    BY <1>1, <2>1 DEF Shown
  <2>3. QED
    BY <2>1, <2>2
<1>5. TypeOK'
    BY <1>1, <1>4, BinanceAssumption DEF IInv, TypeOK
<1>6. AllFaithful'
  <2>1. \A m \in Snapshots \cup Deltas :
           Faithful(m, Shown, hist, head)
              => Faithful(m, Shown', hist', head')
    BY <1>1, <1>4, FaithfulExtends
  <2>2. /\ \A i \in 1..Len(wire) : wire[i] \in Deltas
        /\ \A i \in 1..Len(sync.pending) : sync.pending[i] \in Deltas
        /\ sync.snapshot \in Snapshots
        /\ \A i \in 1..Len(outbox) : outbox[i] \in Snapshots \cup Deltas
        /\ \A i \in 1..Len(queue) : queue[i] \in Snapshots \cup Deltas
    BY ElementOfSeq DEF IInv, TypeOK
  <2>3. QED
    BY <1>1, <2>1, <2>2 DEF IInv, AllFaithful
<1>7. BookTracksExchange'
    BY <1>1, <1>4, TracksExtends DEF IInv, TypeOK, BookTracksExchange
<1>8. (QueueInSequence /\ OutboxInSequence /\ SyncInStep)'
    BY <1>1 DEF IInv, QueueInSequence, OutboxInSequence, SyncInStep,
                QueuedSeq, QueuedTrusted
<1>9. QED
    BY <1>5, <1>6, <1>7, <1>8 DEF IInv

(* The event an exchange emits is faithful.                                *)
LEMMA EventFaithful ==
    ASSUME TypeOK, NEW first \in (streamed + 1)..head, FirstChange(first)
    PROVE  /\ EventFrom(first) \in Deltas
           /\ Faithful(EventFrom(first), Shown, hist, head)
<1>1. /\ head \in Nat /\ streamed \in 0..head /\ first \in Nat
      /\ hist \in [0..head -> Levels]
    BY BinanceAssumption DEF TypeOK
<1> DEFINE D == {k \in Level :
                   \E i \in streamed..head : hist[i][k] # hist[head][k]}
           c == [l \in D |-> hist[head][l]]
<1>2. hist[head] \in [Level -> Qty]
    BY <1>1 DEF Levels
<1>3. c \in [D -> Qty] /\ D \in SUBSET Level
    BY <1>2
<1>4. c \in Changes
    BY <1>3 DEF Changes
<1>5. EventFrom(first) = [kind |-> "Delta", first |-> first,
                          previous |-> streamed, seq |-> head, changes |-> c]
    BY DEF EventFrom, Delta
<1> HIDE DEF c
<1>6. EventFrom(first) \in Deltas
    BY <1>1, <1>4, <1>5 DEF Deltas, Seqs
<1>7. Base(EventFrom(first)) = streamed
    BY <1>1, <1>5 DEF Base, NoSeq
<1>8. \A l \in Level :
         IF l \in DOMAIN c THEN c[l] = hist[head][l]
         ELSE \A i \in streamed..head : hist[i][l] = hist[head][l]
    BY <1>3 DEF c
<1>9. QED
    BY <1>1, <1>5, <1>6, <1>7, <1>8 DEF Faithful

LEMMA EmitEventIInv == IInv /\ EmitEvent => IInv'
<1> SUFFICES ASSUME IInv, EmitEvent PROVE IInv'
    OBVIOUS
<1>1. PICK first \in (streamed + 1)..head :
         /\ FirstChange(first)
         /\ wire' = Append(wire, EventFrom(first)) \/ wire' = wire
    BY DEF EmitEvent
<1>2. /\ UNCHANGED <<head, hist, task, sync, outbox, queue, book>>
      /\ streamed' = head /\ head \in Nat /\ wire \in Seq(Deltas)
      /\ Shown' = Shown
    BY BinanceAssumption DEF IInv, TypeOK, EmitEvent, taskVars, Shown
<1>3. /\ EventFrom(first) \in Deltas
      /\ Faithful(EventFrom(first), Shown, hist, head)
    BY <1>1, EventFaithful DEF IInv
<1>4. /\ wire' \in Seq(Deltas)
      /\ \A i \in 1..Len(wire') : Faithful(wire'[i], Shown, hist, head)
  <2>1. \A i \in 1..Len(wire) : Faithful(wire[i], Shown, hist, head)
    BY DEF IInv, AllFaithful
  <2>2. CASE wire' = Append(wire, EventFrom(first))
    <3>1. /\ Len(wire) \in Nat
          /\ wire' \in Seq(Deltas) /\ Len(wire') = Len(wire) + 1
          /\ \A i \in 1..Len(wire) : wire'[i] = wire[i]
          /\ wire'[Len(wire) + 1] = EventFrom(first)
      BY <1>2, <1>3, <2>2, AppendFacts
    <3>2. QED
      BY <1>3, <2>1, <3>1
  <2>3. CASE wire' = wire
    BY <1>2, <2>1, <2>3
  <2>4. QED
    BY <1>1, <2>2, <2>3
<1>5. TypeOK'
    BY <1>2, <1>4 DEF IInv, TypeOK
<1>6. AllFaithful'
    BY <1>2, <1>4 DEF IInv, AllFaithful
<1>7. (BookTracksExchange /\ QueueInSequence /\ OutboxInSequence
         /\ SyncInStep)'
    BY <1>2 DEF IInv, BookTracksExchange, QueueInSequence,
                OutboxInSequence, SyncInStep, QueuedSeq, QueuedTrusted
<1>8. QED
    BY <1>5, <1>6, <1>7 DEF IInv

----------------------------------------------------------------------------
(* The task starts or ends a connection: nothing of the synchronizer is    *)
(* left, the queue and the book are as they were.                          *)
LEMMA FreshTaskIInv ==
    ASSUME IInv, task' \in {"down", "reading"}, sync' = NewSync,
           outbox' = <<>>, wire' = <<>>,
           UNCHANGED <<exchangeVars, queue, book>>
    PROVE  IInv'
<1>0. Len(<<>>) = 0 /\ <<>> \in Seq(Deltas)
      /\ <<>> \in Seq(Snapshots \cup Deltas)
    BY EmptySeq
<1>1. UNCHANGED <<head, hist, streamed, queue, book>> /\ Shown' = Shown
    BY DEF exchangeVars, Shown
<1>2. TypeOK'
    BY <1>0, <1>1, InitialTypes DEF IInv, TypeOK, SyncType
<1>3. AllFaithful'
    BY <1>0, <1>1 DEF IInv, AllFaithful, NewSync
<1>4. (BookTracksExchange /\ QueueInSequence)'
    BY <1>1 DEF IInv, BookTracksExchange, QueueInSequence
<1>5. OutboxInSequence'
    BY <1>0 DEF OutboxInSequence
<1>6. SyncInStep'
    BY <1>0 DEF SyncInStep, NewSync
<1>7. QED
    BY <1>2, <1>3, <1>4, <1>5, <1>6 DEF IInv

LEMMA ConnectionIInv ==
    IInv /\ (Connect \/ ConnectionLost \/ FetchFails \/ SendFails) => IInv'
BY FreshTaskIInv DEF Connect, ConnectionLost, FetchFails, SendFails, Drop

----------------------------------------------------------------------------
(* initialize_symbol with a faithful snapshot, when only the last buffered *)
(* delta can be a bridge: either the symbol waits on, or the snapshot and  *)
(* that one delta are handed to the shard.                                 *)
LEMMA InitializeIInv ==
    ASSUME IInv, NEW s \in SyncType, Initialize(s), ~s.ready,
           s.snapshot.seq \in Nat,
           Faithful(s.snapshot, Shown, hist, head),
           \A i \in 1..Len(s.pending) :
              Faithful(s.pending[i], Shown, hist, head),
           \A i \in 1..(Len(s.pending) - 1) :
              ~BridgesFrom(s.snapshot.seq, s.pending[i]),
           wire' \in Seq(Deltas),
           \A i \in 1..Len(wire') : Faithful(wire'[i], Shown, hist, head),
           UNCHANGED <<exchangeVars, queue, book>>
    PROVE  IInv'
<1> DEFINE last == s.snapshot.seq
           n == Len(s.pending)
<1>1. UNCHANGED <<head, hist, streamed, queue, book>> /\ Shown' = Shown
    BY DEF exchangeVars, Shown
<1>2. /\ s.pending \in Seq(Deltas) /\ n \in Nat /\ s.snapshot \in Snapshots
      /\ s.snapshot # NoSnapshot /\ s.last \in Seqs
      /\ s = [ready |-> s.ready, last |-> s.last, snapshot |-> s.snapshot,
              pending |-> s.pending]
    BY LenProperties DEF SyncType, NoSnapshot, Snapshot, NoSeq
<1>3. PICK k \in 1..(n + 1) :
         LET kept == SubSeq(s.pending, k, n)
         IN  /\ \A i \in 1..n : s.pending[i].seq > last <=> i >= k
             /\ \/ /\ \A i \in 1..Len(kept) : ~BridgesFrom(last, kept[i])
                   /\ sync' = [s EXCEPT !.pending = kept]
                   /\ outbox' = <<>>
                   /\ task' = "reading"
                \/ \E b \in 1..Len(kept) :
                     /\ BridgesFrom(last, kept[b])
                     /\ \A i \in 1..(b - 1) : ~BridgesFrom(last, kept[i])
                     /\ sync' = [ready |-> TRUE, last |-> kept[Len(kept)].seq,
                                 snapshot |-> NoSnapshot, pending |-> <<>>]
                     /\ outbox' = <<s.snapshot>> \o SubSeq(kept, b, Len(kept))
                     /\ task' = "sending"
    BY DEF Initialize
<1> DEFINE kept == SubSeq(s.pending, k, n)
<1>4. /\ kept \in Seq(Deltas) /\ Len(kept) = n - k + 1
      /\ \A i \in 1..Len(kept) : kept[i] = s.pending[k + i - 1]
    BY <1>2, SuffixFacts
<1>5. \A i \in 1..Len(kept) : kept[i].seq > last
                               /\ Faithful(kept[i], Shown, hist, head)
  <2>1. \A i \in 1..Len(kept) : k + i - 1 \in 1..n /\ k + i - 1 >= k
    BY <1>2, <1>4
  <2>2. QED
    BY <1>3, <1>4, <2>1
<1>6. (BookTracksExchange /\ QueueInSequence)'
    BY <1>1 DEF IInv, BookTracksExchange, QueueInSequence
<1>7. CASE /\ \A i \in 1..Len(kept) : ~BridgesFrom(last, kept[i])
           /\ sync' = [s EXCEPT !.pending = kept]
           /\ outbox' = <<>>
           /\ task' = "reading"
  <2>0. Len(<<>>) = 0 /\ <<>> \in Seq(Snapshots \cup Deltas)
    BY EmptySeq
  <2>1. /\ sync' = [ready |-> FALSE, last |-> s.last,
                    snapshot |-> s.snapshot, pending |-> kept]
        /\ sync' \in SyncType
    BY <1>2, <1>4, <1>7 DEF SyncType
  <2>2. TypeOK'
    BY <1>1, <1>7, <2>0, <2>1 DEF IInv, TypeOK, SyncType
  <2>3. AllFaithful'
    BY <1>1, <1>5, <1>7, <2>0, <2>1 DEF IInv, AllFaithful
  <2>4. OutboxInSequence'
    BY <1>7, <2>0 DEF OutboxInSequence
  <2>5. SyncInStep'
    BY <1>2, <1>5, <1>7, <2>1 DEF SyncInStep
  <2>6. QED
    BY <1>6, <2>2, <2>3, <2>4, <2>5 DEF IInv
<1>8. CASE \E b \in 1..Len(kept) :
             /\ BridgesFrom(last, kept[b])
             /\ \A i \in 1..(b - 1) : ~BridgesFrom(last, kept[i])
             /\ sync' = [ready |-> TRUE, last |-> kept[Len(kept)].seq,
                         snapshot |-> NoSnapshot, pending |-> <<>>]
             /\ outbox' = <<s.snapshot>> \o SubSeq(kept, b, Len(kept))
             /\ task' = "sending"
  <2>1. PICK b \in 1..Len(kept) :
             /\ BridgesFrom(last, kept[b])
             /\ sync' = [ready |-> TRUE, last |-> kept[Len(kept)].seq,
                         snapshot |-> NoSnapshot, pending |-> <<>>]
             /\ outbox' = <<s.snapshot>> \o SubSeq(kept, b, Len(kept))
             /\ task' = "sending"
    BY <1>8
  <2>2. Len(kept) \in Nat /\ k + b - 1 \in 1..n
    BY <1>2, <1>4
  <2>3. k + b - 1 = n /\ b = Len(kept)
    BY <1>2, <1>4, <2>1, <2>2, SMTT(30)
  <2> DEFINE d == kept[b]
  <2>4. d \in Deltas /\ d.kind = "Delta" /\ d.seq > last /\ d.seq \in Nat
        /\ Faithful(d, Shown, hist, head) /\ Follows(last, d)
    <3>0. d.seq > last /\ Faithful(d, Shown, hist, head)
      BY <1>5, <2>1, Zenon
    <3>1. d \in Deltas /\ d.seq > last /\ Faithful(d, Shown, hist, head)
      BY <1>4, <2>1, <3>0, ElementOfSeq, Zenon
    <3>2. Follows(last, d)
      BY <2>1, <3>1 DEF Follows, BridgesFrom
    <3> HIDE DEF d
    <3>3. d.kind = "Delta" /\ d.seq \in Nat
      BY <3>1 DEF Deltas, Faithful
    <3>4. QED
      BY <3>1, <3>2, <3>3
  <2> HIDE DEF d
  <2>5. SubSeq(kept, b, Len(kept)) = <<d>>
    <3>1. /\ SubSeq(kept, b, Len(kept)) \in Seq(Deltas)
          /\ Len(SubSeq(kept, b, Len(kept))) = 1
          /\ SubSeq(kept, b, Len(kept))[1] = d
      BY <1>4, <2>2, <2>3, SuffixFacts DEF d
    <3>2. <<d>> \in Seq(Deltas) /\ Len(<<d>>) = 1 /\ <<d>>[1] = d
      BY <2>4, ShortSeqFacts
    <3>3. \A i \in 1..1 : SubSeq(kept, b, Len(kept))[i] = <<d>>[i]
      BY <3>1, <3>2
    <3>4. QED
      BY <3>1, <3>2, <3>3, SeqEqual
  <2>6. /\ outbox' = <<s.snapshot, d>>
        /\ outbox' \in Seq(Snapshots \cup Deltas)
        /\ Len(outbox') = 2
        /\ outbox'[1] = s.snapshot /\ outbox'[2] = d
    <3>1. s.snapshot \in Messages /\ d \in Messages
      BY <1>2, <2>4 DEF Messages
    <3>2. outbox' = <<s.snapshot>> \o <<d>>
      BY <2>1, <2>5
    <3>3. /\ <<s.snapshot>> \o <<d>> = <<s.snapshot, d>>
          /\ <<s.snapshot, d>> \in Seq(Messages)
          /\ Len(<<s.snapshot, d>>) = 2
          /\ <<s.snapshot, d>>[1] = s.snapshot /\ <<s.snapshot, d>>[2] = d
      BY <3>1, ShortSeqFacts
    <3>4. QED
      BY <3>2, <3>3 DEF Messages
  <2>7. /\ sync'.ready /\ sync'.last = d.seq /\ sync'.snapshot = NoSnapshot
        /\ sync'.pending = <<>> /\ Len(sync'.pending) = 0
        /\ sync' \in SyncType
    BY <2>1, <2>3, <2>4, InitialTypes DEF SyncType, Seqs, d, NewSync
  <2>8. TypeOK'
    BY <1>1, <2>1, <2>6, <2>7 DEF IInv, TypeOK, SyncType
  <2>9. AllFaithful'
    BY <1>1, <2>4, <2>6, <2>7 DEF IInv, AllFaithful
  <2>10. OutboxInSequence'
    <3>1. outbox'[1].kind # "Delta" /\ Follows(outbox'[1].seq, outbox'[2])
      BY <1>2, <2>4, <2>6 DEF Snapshots
    <3>2. outbox' # <<>>
      BY <2>6
    <3>3. \A i \in 1..Len(outbox') :
             i = 1 \/ (i = 2 /\ i - 1 = 1)
      BY <2>6
    <3>4. QED
      BY <2>1, <3>1, <3>2, <3>3 DEF OutboxInSequence
  <2>11. SyncInStep'
    BY <2>1, <2>6, <2>7 DEF SyncInStep
  <2>12. QED
    BY <1>6, <2>8, <2>9, <2>10, <2>11 DEF IInv
<1>9. QED
    BY <1>3, <1>7, <1>8

----------------------------------------------------------------------------
(* The task receives an event.                                             *)

(* What is left of the wire, and the synchronizer with the event buffered. *)
LEMMA ReceiveFacts ==
    ASSUME IInv, Receive
    PROVE  /\ wire' \in Seq(Deltas)
           /\ \A i \in 1..Len(wire') : Faithful(wire'[i], Shown, hist, head)
           /\ Head(wire) \in Deltas /\ Faithful(Head(wire), Shown, hist, head)
           /\ Buffered \in SyncType
           /\ Buffered = [ready |-> sync.ready, last |-> sync.last,
                          snapshot |-> sync.snapshot,
                          pending |-> Append(sync.pending, Head(wire))]
           /\ Len(sync.pending) \in Nat
           /\ Len(Buffered.pending) = Len(sync.pending) + 1
           /\ \A i \in 1..Len(sync.pending) :
                 Buffered.pending[i] = sync.pending[i]
           /\ Buffered.pending[Len(sync.pending) + 1] = Head(wire)
           /\ \A i \in 1..Len(Buffered.pending) :
                 Faithful(Buffered.pending[i], Shown, hist, head)
<1>1. /\ wire \in Seq(Deltas) /\ wire # <<>> /\ wire' = Tail(wire)
      /\ sync \in SyncType /\ sync.pending \in Seq(Deltas)
      /\ \A i \in 1..Len(wire) : Faithful(wire[i], Shown, hist, head)
      /\ \A i \in 1..Len(sync.pending) :
            Faithful(sync.pending[i], Shown, hist, head)
    BY DEF Receive, IInv, TypeOK, SyncType, AllFaithful
<1>2. /\ Head(wire) = wire[1] /\ wire[1] \in Deltas /\ 1 \in 1..Len(wire)
      /\ wire' \in Seq(Deltas) /\ Len(wire') = Len(wire) - 1
      /\ Len(wire) \in Nat
      /\ \A i \in 1..Len(wire') : wire'[i] = wire[i + 1]
    BY <1>1, HeadTailFacts
<1>3. Buffered = [ready |-> sync.ready, last |-> sync.last,
                  snapshot |-> sync.snapshot,
                  pending |-> Append(sync.pending, Head(wire))]
  <2>1. \A e : [sync EXCEPT !.pending = e] =
              [ready |-> sync.ready, last |-> sync.last,
               snapshot |-> sync.snapshot, pending |-> e]
    BY <1>1, SMTT(40) DEF SyncType
  <2>2. QED
    BY <2>1 DEF Buffered
<1>4. /\ Len(sync.pending) \in Nat
      /\ Append(sync.pending, Head(wire)) \in Seq(Deltas)
      /\ Len(Buffered.pending) = Len(sync.pending) + 1
      /\ \A i \in 1..Len(sync.pending) :
            Buffered.pending[i] = sync.pending[i]
      /\ Buffered.pending[Len(sync.pending) + 1] = Head(wire)
    BY <1>1, <1>2, <1>3, AppendFacts
<1>5. Buffered \in SyncType
    BY <1>1, <1>3, <1>4 DEF SyncType
<1>6. \A i \in 1..Len(wire') : Faithful(wire'[i], Shown, hist, head)
    BY <1>1, <1>2
<1>7. \A i \in 1..Len(Buffered.pending) :
         Faithful(Buffered.pending[i], Shown, hist, head)
  <2>1. \A i \in 1..Len(Buffered.pending) :
           i \in 1..Len(sync.pending) \/ i = Len(sync.pending) + 1
    BY <1>4
  <2>2. Faithful(Head(wire), Shown, hist, head)
    BY <1>1, <1>2
  <2>3. QED
    BY <1>1, <1>4, <2>1, <2>2
<1>8. QED
    BY <1>1, <1>2, <1>3, <1>4, <1>5, <1>6, <1>7

(* The task goes to fetch a snapshot with at most one delta buffered.      *)
LEMMA FetchingIInv ==
    ASSUME IInv, Receive, task' = "fetching", outbox' = <<>>,
           sync' \in SyncType, ~sync'.ready, Len(sync'.pending) <= 1,
           sync'.snapshot = NoSnapshot,
           \A i \in 1..Len(sync'.pending) :
              Faithful(sync'.pending[i], Shown, hist, head),
           UNCHANGED <<exchangeVars, queue, book>>
    PROVE  IInv'
<1>0. Len(<<>>) = 0 /\ <<>> \in Seq(Snapshots \cup Deltas)
    BY EmptySeq
<1>1. /\ UNCHANGED <<head, hist, streamed, queue, book>>
      /\ Shown' = Shown
      /\ wire' \in Seq(Deltas)
      /\ \A i \in 1..Len(wire') : Faithful(wire'[i], Shown, hist, head)
    BY ReceiveFacts DEF exchangeVars, Shown
<1>2. TypeOK'
    BY <1>0, <1>1 DEF IInv, TypeOK, SyncType
<1>3. AllFaithful'
    BY <1>0, <1>1 DEF IInv, AllFaithful
<1>4. (BookTracksExchange /\ QueueInSequence)'
    BY <1>1 DEF IInv, BookTracksExchange, QueueInSequence
<1>5. OutboxInSequence'
    BY <1>0 DEF OutboxInSequence
<1>6. SyncInStep'
    BY DEF SyncInStep
<1>7. QED
    BY <1>2, <1>3, <1>4, <1>5, <1>6 DEF IInv

LEMMA ReceiveWaitingIInv == IInv /\ ReceiveWaiting => IInv'
<1> SUFFICES ASSUME IInv, ReceiveWaiting PROVE IInv'
    OBVIOUS
<1>1. /\ Receive /\ ~sync.ready /\ task = "reading"
      /\ UNCHANGED <<exchangeVars, queue, book>>
    BY DEF ReceiveWaiting, Receive
<1>2. CASE sync.snapshot = NoSnapshot
  <2>1. task' = "fetching" /\ outbox' = <<>> /\ sync' = Buffered
    BY <1>2 DEF ReceiveWaiting
  <2>2. sync.pending = <<>> /\ Len(sync.pending) = 0
    BY <1>1, <1>2 DEF IInv, SyncInStep
  <2>3. /\ sync' \in SyncType /\ ~sync'.ready /\ Len(sync'.pending) <= 1
        /\ sync'.snapshot = NoSnapshot
        /\ \A i \in 1..Len(sync'.pending) :
              Faithful(sync'.pending[i], Shown, hist, head)
    BY <1>1, <1>2, <2>1, <2>2, ReceiveFacts
  <2>4. QED
    BY <1>1, <2>1, <2>3, FetchingIInv
<1>3. CASE sync.snapshot # NoSnapshot
  <2>1. Initialize(Buffered)
    BY <1>3 DEF ReceiveWaiting
  <2>2. /\ Faithful(sync.snapshot, Shown, hist, head)
        /\ \A i \in 1..Len(sync.pending) :
              ~BridgesFrom(sync.snapshot.seq, sync.pending[i])
    BY <1>1, <1>3 DEF IInv, AllFaithful, SyncInStep
  <2>3. sync.snapshot.seq \in Nat
    BY <2>2 DEF Faithful
  <2>4. /\ Buffered \in SyncType /\ ~Buffered.ready
        /\ Buffered.snapshot = sync.snapshot
        /\ Len(Buffered.pending) - 1 = Len(sync.pending)
        /\ \A i \in 1..Len(sync.pending) :
              Buffered.pending[i] = sync.pending[i]
        /\ \A i \in 1..Len(Buffered.pending) :
              Faithful(Buffered.pending[i], Shown, hist, head)
        /\ wire' \in Seq(Deltas)
        /\ \A i \in 1..Len(wire') : Faithful(wire'[i], Shown, hist, head)
    BY <1>1, ReceiveFacts
  <2>5. \A i \in 1..(Len(Buffered.pending) - 1) :
           ~BridgesFrom(Buffered.snapshot.seq, Buffered.pending[i])
    BY <2>2, <2>4
  <2>6. QED
    BY <1>1, <2>1, <2>2, <2>3, <2>4, <2>5, InitializeIInv
<1>4. QED
    BY <1>2, <1>3

LEMMA ReceiveGapIInv == IInv /\ ReceiveGap => IInv'
<1> SUFFICES ASSUME IInv, ReceiveGap PROVE IInv'
    OBVIOUS
<1>1. /\ Receive /\ task' = "fetching" /\ outbox' = <<>> /\ sync' = NewSync
      /\ UNCHANGED <<exchangeVars, queue, book>>
    BY DEF ReceiveGap
<1>2. /\ sync' \in SyncType /\ ~sync'.ready /\ Len(sync'.pending) = 0
      /\ sync'.snapshot = NoSnapshot
    BY <1>1, InitialTypes, EmptySeq DEF NewSync
<1>3. QED
    BY <1>1, <1>2, FetchingIInv

(* In sequence: the one buffered delta follows what the shard was sent.    *)
LEMMA ReceiveReadyIInv == IInv /\ ReceiveReady => IInv'
<1> SUFFICES ASSUME IInv, ReceiveReady PROVE IInv'
    OBVIOUS
<1> DEFINE d == Head(wire)
<1>1. /\ Receive /\ task = "reading" /\ sync.ready
      /\ task' = "sending" /\ outbox' = Buffered.pending
      /\ sync' = [sync EXCEPT !.last = d.seq, !.pending = <<>>]
      /\ ~HasSequenceGap(Buffered)
      /\ UNCHANGED <<head, hist, streamed, queue, book>>
      /\ Shown' = Shown
    BY DEF ReceiveReady, Receive, exchangeVars, Shown
<1>2. /\ sync.pending = <<>> /\ Len(sync.pending) = 0
      /\ QueuedTrusted /\ sync.last = QueuedSeq /\ sync.last # NoSeq
    BY <1>1 DEF IInv, SyncInStep
<1>3. /\ d \in Deltas /\ Faithful(d, Shown, hist, head)
      /\ Buffered.last = sync.last /\ Buffered.pending \in Seq(Deltas)
      /\ Len(Buffered.pending) = 1 /\ Buffered.pending[1] = d
      /\ wire' \in Seq(Deltas)
      /\ \A i \in 1..Len(wire') : Faithful(wire'[i], Shown, hist, head)
    BY <1>1, <1>2, ReceiveFacts DEF SyncType
<1> HIDE DEF d
<1>4. d.previous = sync.last
    BY <1>1, <1>2, <1>3 DEF HasSequenceGap
<1>5. d.kind = "Delta" /\ d.seq \in Nat
    BY <1>3 DEF Deltas, Faithful
<1>6. sync \in SyncType /\ sync.last \in Nat
    BY <1>2 DEF IInv, TypeOK, SyncType, Seqs, NoSeq
<1>7. Follows(QueuedSeq, d)
  <2>1. Base(d) = d.previous /\ Base(d) < d.first /\ d.first <= d.seq
        /\ d.first \in Nat
    BY <1>2, <1>3, <1>4, <1>5 DEF Faithful, Base
  <2>2. QED
    BY <1>2, <1>4, <1>5, <1>6, <2>1 DEF Follows
<1>8. /\ sync'.ready /\ sync'.last = d.seq /\ sync'.pending = <<>>
      /\ Len(sync'.pending) = 0 /\ sync'.snapshot = sync.snapshot
      /\ sync' \in SyncType
    BY <1>1, <1>5, <1>6, EmptySeq DEF SyncType, Seqs
<1>9. /\ outbox' \in Seq(Snapshots \cup Deltas)
      /\ Len(outbox') = 1 /\ outbox'[1] = d /\ outbox' # <<>>
    BY <1>1, <1>3, SeqMonotonic, EmptySeq
<1>10. TypeOK'
    BY <1>1, <1>3, <1>8, <1>9 DEF IInv, TypeOK, SyncType
<1>11. AllFaithful'
    BY <1>1, <1>3, <1>8, <1>9 DEF IInv, AllFaithful
<1>12. (BookTracksExchange /\ QueueInSequence)'
    BY <1>1 DEF IInv, BookTracksExchange, QueueInSequence
<1>13. QueuedSeq' = QueuedSeq /\ QueuedTrusted' = QueuedTrusted
    BY <1>1 DEF QueuedSeq, QueuedTrusted
<1>14. OutboxInSequence'
    BY <1>1, <1>2, <1>7, <1>9, <1>13 DEF OutboxInSequence
<1>15. SyncInStep'
    BY <1>1, <1>8, <1>9 DEF SyncInStep
<1>16. QED
    BY <1>10, <1>11, <1>12, <1>14, <1>15 DEF IInv

----------------------------------------------------------------------------
(* The snapshot arrives.                                                   *)
LEMMA FetchSnapshotIInv == IInv /\ FetchSnapshot => IInv'
<1> SUFFICES ASSUME IInv, FetchSnapshot PROVE IInv'
    OBVIOUS
<1>1. /\ task = "fetching" /\ UNCHANGED <<exchangeVars, queue, book>>
      /\ wire' = wire
    BY DEF FetchSnapshot
<1>2. PICK id \in 0..head :
         Initialize([sync EXCEPT !.snapshot = Snapshot(id, Best(hist[id]))])
    BY DEF FetchSnapshot
<1> DEFINE s == [sync EXCEPT !.snapshot = Snapshot(id, Best(hist[id]))]
<1>3. /\ sync \in SyncType /\ head \in Nat /\ Best(hist[id]) \in Levels
      /\ wire \in Seq(Deltas)
    BY BinanceAssumption, BestType DEF IInv, TypeOK, SyncType
<1>4. /\ Snapshot(id, Best(hist[id])) \in Snapshots
      /\ Faithful(Snapshot(id, Best(hist[id])), Shown, hist, head)
      /\ Snapshot(id, Best(hist[id])).seq = id
    BY <1>3 DEF Snapshot, Snapshots, Seqs, Faithful, Shown
<1>5. /\ s \in SyncType /\ s.ready = sync.ready /\ s.pending = sync.pending
      /\ s.snapshot = Snapshot(id, Best(hist[id]))
    BY <1>3, <1>4 DEF SyncType
<1>6. /\ ~sync.ready /\ Len(sync.pending) <= 1
      /\ \A i \in 1..Len(sync.pending) :
            Faithful(sync.pending[i], Shown, hist, head)
      /\ \A i \in 1..Len(wire) : Faithful(wire[i], Shown, hist, head)
    BY <1>1 DEF IInv, SyncInStep, AllFaithful
<1>7. Len(sync.pending) \in Nat
    BY <1>3, LenProperties DEF SyncType
<1>8. id \in Nat
    BY <1>3
<1> HIDE DEF s
<1>9. \A i \in 1..(Len(s.pending) - 1) :
         ~BridgesFrom(s.snapshot.seq, s.pending[i])
    BY <1>5, <1>6, <1>7
<1>10. Initialize(s)
    BY <1>2 DEF s
<1>11. QED
    BY <1>1, <1>3, <1>4, <1>5, <1>6, <1>8, <1>9, <1>10, InitializeIInv

----------------------------------------------------------------------------
(* One message goes to the shard's queue.                                  *)
LEMMA SendDepthIInv == IInv /\ SendDepth => IInv'
<1> SUFFICES ASSUME IInv, SendDepth PROVE IInv'
    OBVIOUS
<1> DEFINE m == outbox[1]
<1>1. /\ task = "sending" /\ outbox # <<>> /\ Len(queue) < QueueBound
      /\ queue' = Append(queue, Head(outbox)) /\ outbox' = Tail(outbox)
      /\ task' = IF Tail(outbox) = <<>> THEN "reading" ELSE "sending"
      /\ UNCHANGED <<head, hist, streamed, wire, sync, book>>
      /\ Shown' = Shown
    BY DEF SendDepth, exchangeVars, IInv, OutboxInSequence, Shown
<1>2. outbox \in Seq(Messages) /\ queue \in Seq(Messages)
    BY DEF IInv, TypeOK, Messages
<1>3. /\ Len(outbox) \in Nat /\ Len(outbox) >= 1
      /\ Head(outbox) = m /\ m \in Messages
      /\ outbox' \in Seq(Messages) /\ Len(outbox') = Len(outbox) - 1
      /\ \A i \in 1..Len(outbox') : outbox'[i] = outbox[i + 1]
    BY <1>1, <1>2, HeadTailFacts
<1>4. /\ Len(queue) \in Nat
      /\ queue' \in Seq(Messages) /\ Len(queue') = Len(queue) + 1
      /\ queue' # <<>>
      /\ \A i \in 1..Len(queue) : queue'[i] = queue[i]
      /\ queue'[Len(queue) + 1] = m
    BY <1>1, <1>2, <1>3, AppendFacts
<1>5. outbox' = <<>> <=> Len(outbox) = 1
    BY <1>3, EmptySeq
<1>6. /\ sync.ready /\ sync.pending = <<>>
      /\ sync.last = outbox[Len(outbox)].seq
    BY <1>1 DEF IInv, SyncInStep
<1>7. /\ m.kind = "Delta" => QueuedTrusted /\ Follows(QueuedSeq, m)
      /\ \A i \in 2..Len(outbox) :
            outbox[i].kind = "Delta" => Follows(outbox[i - 1].seq, outbox[i])
    BY <1>3 DEF IInv, OutboxInSequence
<1>8. \A i \in 1..Len(outbox) : Faithful(outbox[i], Shown, hist, head)
    BY DEF IInv, AllFaithful
<1>9. m.seq \in Nat
    BY <1>3, <1>8 DEF Faithful
<1>10. QueuedSeq' = m.seq /\ QueuedTrusted'
    BY <1>4 DEF QueuedSeq, QueuedTrusted
<1>11. TypeOK'
    BY <1>1, <1>3, <1>4, BinanceAssumption DEF IInv, TypeOK, Messages
<1>12. AllFaithful'
  <2>1. \A i \in 1..Len(queue) : Faithful(queue[i], Shown, hist, head)
    BY DEF IInv, AllFaithful
  <2>2. \A i \in 1..Len(queue') : Faithful(queue'[i], Shown, hist, head)
    BY <1>3, <1>4, <1>8, <2>1
  <2>3. \A i \in 1..Len(outbox') : Faithful(outbox'[i], Shown, hist, head)
    BY <1>3, <1>8
  <2>4. QED
    BY <1>1, <2>2, <2>3 DEF IInv, AllFaithful
<1>13. BookTracksExchange'
    BY <1>1 DEF IInv, BookTracksExchange
<1>14. QueueInSequence'
  <2> SUFFICES ASSUME NEW i \in 1..Len(queue'), queue'[i].kind = "Delta"
               PROVE  IF i = 1
                      THEN book.hasSnapshot /\ Follows(book.last, queue'[1])
                      ELSE Follows(queue'[i - 1].seq, queue'[i])
    BY <1>1 DEF QueueInSequence
  <2>1. CASE i <= Len(queue)
    <3>1. QueueInSequence
      BY DEF IInv
    <3>2. i \in 1..Len(queue) /\ queue'[i] = queue[i]
      BY <1>4, <2>1
    <3>3. i # 1 => i - 1 \in 1..Len(queue) /\ queue'[i - 1] = queue[i - 1]
      BY <1>4, <3>2
    <3>4. IF i = 1 THEN book.hasSnapshot /\ Follows(book.last, queue[1])
          ELSE Follows(queue[i - 1].seq, queue[i])
      BY <3>1, <3>2 DEF QueueInSequence
    <3>5. QED
      BY <3>2, <3>3, <3>4
  <2>2. CASE i = Len(queue) + 1 /\ queue = <<>>
    BY <1>4, <1>7, <2>2 DEF QueuedSeq, QueuedTrusted
  <2>3. CASE i = Len(queue) + 1 /\ queue # <<>>
    <3>1. Len(queue) >= 1
      BY <1>2, <2>3, EmptySeq
    <3>2. QED
      BY <1>4, <1>7, <2>3, <3>1 DEF QueuedSeq
  <2>4. QED
    BY <1>4, <2>1, <2>2, <2>3
<1>15. OutboxInSequence'
  <2>1. task' = "sending" <=> outbox' # <<>>
    BY <1>1
  <2>2. ASSUME NEW i \in 1..Len(outbox'), outbox'[i].kind = "Delta"
        PROVE  IF i = 1
               THEN QueuedTrusted' /\ Follows(QueuedSeq', outbox'[1])
               ELSE Follows(outbox'[i - 1].seq, outbox'[i])
    <3>1. outbox'[i] = outbox[i + 1] /\ i + 1 \in 2..Len(outbox)
      BY <1>3
    <3>2. Follows(outbox[i].seq, outbox[i + 1])
      BY <1>7, <2>2, <3>1
    <3>3. i # 1 => outbox'[i - 1] = outbox[i]
      BY <1>3, <3>1
    <3>4. QED
      BY <1>10, <3>1, <3>2, <3>3
  <2>3. QED
    BY <2>1, <2>2 DEF OutboxInSequence
<1>16. SyncInStep'
  <2>1. CASE outbox' = <<>>
    BY <1>1, <1>5, <1>6, <1>9, <1>10, <2>1 DEF SyncInStep, NoSeq
  <2>2. CASE outbox' # <<>>
    <3>1. outbox'[Len(outbox')] = outbox[Len(outbox)]
      BY <1>3, <1>5, <2>2
    <3>2. QED
      BY <1>1, <1>6, <2>2, <3>1 DEF SyncInStep
  <2>3. QED
    BY <2>1, <2>2
<1>17. QED
    BY <1>11, <1>12, <1>13, <1>14, <1>15, <1>16 DEF IInv

----------------------------------------------------------------------------
(* The worker takes one message: it applies, and the book stands at it.    *)
LEMMA HeadApplies ==
    ASSUME IInv, queue # <<>>
    PROVE  /\ queue[1] = Head(queue)
           /\ ApplyResult(book, queue[1]) = "Applied"
           /\ Apply(book, queue[1]).hasSnapshot
           /\ Apply(book, queue[1]).last = queue[1].seq
           /\ Apply(book, queue[1]) \in Books
           /\ Tracks(Apply(book, queue[1]), Shown, hist, head)
<1> DEFINE m == queue[1]
<1>1. /\ queue \in Seq(Snapshots \cup Deltas) /\ book \in Books
      /\ head \in Nat /\ hist \in [0..head -> Levels]
      /\ Tracks(book, Shown, hist, head)
    BY BinanceAssumption DEF IInv, TypeOK, BookTracksExchange
<1>2. /\ m = Head(queue) /\ m \in Snapshots \cup Deltas
      /\ Len(queue) \in Nat /\ Len(queue) >= 1
    BY <1>1, HeadTailFacts
<1>3. Faithful(m, Shown, hist, head)
    BY <1>2 DEF IInv, AllFaithful
<1>4. m.kind = "Delta" => book.hasSnapshot /\ Follows(book.last, m)
    BY <1>2 DEF IInv, QueueInSequence
<1> HIDE DEF m
<1>5. Apply(book, m) \in Books
      /\ Tracks(Apply(book, m), Shown, hist, head)
    BY <1>1, <1>2, <1>3, ApplyType, ApplyTracks
<1>6. CASE m \in Snapshots
  <2>1. m \notin Deltas
    BY <1>6 DEF Snapshots, Deltas
  <2>2. /\ ApplyResult(book, m) = "Applied"
        /\ Apply(book, m) = [hasSnapshot |-> TRUE, last |-> m.seq,
                             levels |-> m.levels]
    BY <1>1, <1>2, <2>1, ApplyCases
  <2>3. QED
    BY <1>2, <1>5, <2>2 DEF m
<1>7. CASE m \in Deltas
  <2>1. book.hasSnapshot /\ Follows(book.last, m) /\ book.last \in Nat
    BY <1>4, <1>7 DEF Deltas, Follows
  <2>2. /\ ApplyResult(book, m) = "Applied"
        /\ Apply(book, m).hasSnapshot
        /\ Apply(book, m).last = m.seq
    BY <1>1, <1>3, <1>7, <2>1, FollowingDeltaApplies
  <2>3. QED
    BY <1>2, <1>5, <2>2 DEF m
<1>8. QED
    BY <1>2, <1>6, <1>7

LEMMA HandleEventIInv == IInv /\ HandleEvent => IInv'
<1> SUFFICES ASSUME IInv, HandleEvent PROVE IInv'
    OBVIOUS
<1>1. /\ queue # <<>> /\ queue' = Tail(queue)
      /\ book' = Apply(book, queue[1])
      /\ UNCHANGED <<head, hist, streamed, wire, task, sync, outbox>>
      /\ Shown' = Shown
    BY HeadApplies DEF HandleEvent, exchangeVars, taskVars, Shown
<1>2. /\ book'.hasSnapshot /\ book'.last = queue[1].seq /\ book' \in Books
      /\ Tracks(book', Shown, hist, head)
    BY <1>1, HeadApplies
<1>3. queue \in Seq(Messages)
    BY DEF IInv, TypeOK, Messages
<1>4. /\ Len(queue) \in Nat /\ Len(queue) >= 1
      /\ queue' \in Seq(Messages) /\ Len(queue') = Len(queue) - 1
      /\ \A i \in 1..Len(queue') : queue'[i] = queue[i + 1]
    BY <1>1, <1>3, HeadTailFacts
<1>5. TypeOK'
    BY <1>1, <1>2, <1>4, BinanceAssumption DEF IInv, TypeOK, Messages
<1>6. AllFaithful'
  <2>1. \A i \in 1..Len(queue') : Faithful(queue'[i], Shown, hist, head)
    BY <1>4 DEF IInv, AllFaithful
  <2>2. QED
    BY <1>1, <2>1 DEF IInv, AllFaithful
<1>7. BookTracksExchange'
    BY <1>1, <1>2 DEF BookTracksExchange
<1>8. QueueInSequence'
  <2> SUFFICES ASSUME NEW i \in 1..Len(queue'), queue'[i].kind = "Delta"
               PROVE  IF i = 1
                      THEN book'.hasSnapshot
                           /\ Follows(book'.last, queue'[1])
                      ELSE Follows(queue'[i - 1].seq, queue'[i])
    BY DEF QueueInSequence
  <2>1. queue'[i] = queue[i + 1] /\ i + 1 \in 2..Len(queue)
    BY <1>4
  <2>2. Follows(queue[i].seq, queue[i + 1])
    BY <2>1 DEF IInv, QueueInSequence
  <2>3. i # 1 => queue'[i - 1] = queue[i]
    BY <1>4, <2>1
  <2>4. QED
    BY <1>2, <2>1, <2>2, <2>3
<1>9. QueuedSeq' = QueuedSeq /\ QueuedTrusted'
  <2>1. CASE queue' = <<>>
    <3>1. Len(queue) = 1
      BY <1>4, <2>1
    <3>2. QED
      BY <1>1, <1>2, <2>1, <3>1 DEF QueuedSeq, QueuedTrusted
  <2>2. CASE queue' # <<>>
    <3>1. Len(queue') \in Nat /\ Len(queue') >= 1
      BY <1>4, <2>2, EmptySeq
    <3>2. queue'[Len(queue')] = queue[Len(queue)]
      BY <1>4, <3>1
    <3>3. QED
      BY <1>1, <2>2, <3>2 DEF QueuedSeq, QueuedTrusted
  <2>3. QED
    BY <2>1, <2>2
<1>10. (OutboxInSequence /\ SyncInStep)'
    BY <1>1, <1>9 DEF IInv, OutboxInSequence, SyncInStep
<1>11. QED
    BY <1>5, <1>6, <1>7, <1>8, <1>10 DEF IInv

----------------------------------------------------------------------------
(* Theorems.                                                               *)

LEMMA NextIInv == IInv /\ [Next]_vars => IInv'
<1> SUFFICES ASSUME IInv, [Next]_vars PROVE IInv'
    OBVIOUS
<1>1. CASE UNCHANGED vars
    BY <1>1 DEF vars, exchangeVars, taskVars, IInv, TypeOK, AllFaithful,
                BookTracksExchange, QueueInSequence, OutboxInSequence,
                SyncInStep, QueuedSeq, QueuedTrusted, Shown
<1>2. QED
    BY <1>1, ExchangeUpdateIInv, EmitEventIInv, ConnectionIInv,
       ReceiveWaitingIInv, ReceiveGapIInv, ReceiveReadyIInv,
       FetchSnapshotIInv, SendDepthIInv, HandleEventIInv DEF Next

(* The inductive invariant of the Binance pipeline.                        *)
THEOREM Invariance == Spec => []IInv
BY InitIInv, NextIInv, PTL DEF Spec

(* Every variable of the pipeline stays in its type, the shard's queue     *)
(* within its capacity.                                                    *)
THEOREM TypeCorrectness == Spec => []TypeOK
<1>1. IInv => TypeOK
    BY DEF IInv
<1>2. QED
    BY <1>1, Invariance, PTL

(* A book the shard trusts is the exchange's book as of its last sequence, *)
(* but for levels that a snapshot left out and that have not changed since,*)
(* under any loss of events, reconnects, snapshot lag and full queues, and *)
(* for every DEPTH_LIMIT.                                                  *)
THEOREM BookFaithfulness == Spec => []BookTracksExchange
<1>1. IInv => BookTracksExchange
    BY DEF IInv
<1>2. QED
    BY <1>1, Invariance, PTL

(* The worker's gap, stale and waiting branches are dead for Binance: what *)
(* binance_sync.rs forwards always applies.                                *)
THEOREM ForwardedApplies == Spec => []ForwardedAlwaysApplies
<1>1. IInv => ForwardedAlwaysApplies
    BY HeadApplies DEF ForwardedAlwaysApplies
<1>2. QED
    BY <1>1, Invariance, PTL

(* A snapshot resynchronises the replica with what it shows; a delta       *)
(* advances it, and what the delta does not mention has not changed.       *)
LEMMA HandleEventMovesReplica ==
    IInv /\ HandleEvent => Replica!Resync \/ Replica!Advance
<1> SUFFICES ASSUME IInv, HandleEvent
             PROVE  Replica!Resync \/ Replica!Advance
    OBVIOUS
<1> DEFINE m == queue[1]
<1>1. /\ queue # <<>> /\ book' = Apply(book, m) /\ UNCHANGED <<head, hist>>
    BY HeadApplies DEF HandleEvent, exchangeVars
<1>2. /\ queue \in Seq(Snapshots \cup Deltas) /\ book \in Books
      /\ head \in Nat /\ hist \in [0..head -> Levels]
      /\ Tracks(book, Shown, hist, head)
    BY BinanceAssumption DEF IInv, TypeOK, BookTracksExchange
<1>3. /\ m \in Snapshots \cup Deltas /\ Faithful(m, Shown, hist, head)
      /\ m.kind = "Delta" => book.hasSnapshot /\ Follows(book.last, m)
    BY <1>1, <1>2, HeadTailFacts DEF IInv, AllFaithful, QueueInSequence
<1> HIDE DEF m
<1>4. CASE m \in Snapshots
  <2>1. m.kind = "Snapshot" /\ m \notin Deltas
    BY <1>4 DEF Snapshots, Deltas
  <2>2. book' = [hasSnapshot |-> TRUE, last |-> m.seq, levels |-> m.levels]
    BY <1>1, <1>2, <1>3, <2>1, ApplyCases
  <2>3. m.seq \in 0..head /\ m.levels = Best(hist[m.seq])
    BY <1>3, <2>1 DEF Faithful, Shown
  <2>4. Replica!Resync
    BY <1>1, <2>2, <2>3 DEF Replica!Resync
  <2>5. QED
    BY <2>4
<1>5. CASE m \in Deltas
  <2> DEFINE taken == DOMAIN m.changes
  <2>1. m.kind = "Delta" /\ taken \in SUBSET Level
    BY <1>5 DEF Deltas, Changes
  <2>2. /\ book.hasSnapshot /\ Follows(book.last, m)
        /\ book.last \in 0..head /\ book.last \in Nat /\ m.seq > book.last
    BY <1>2, <1>3, <2>1 DEF Tracks, Follows
  <2>3. /\ book'.last = m.seq
        /\ book'.levels = ApplyLevels(book.levels, m.changes)
        /\ ~GapBefore(book.last, m)
    BY <1>1, <1>2, <1>3, <1>5, <2>2, FollowingDeltaApplies
  <2>4. ~StaleDelta(book.last, m)
    BY <1>3, <2>2 DEF StaleDelta, Faithful
  <2>5. /\ m.seq \in 0..head /\ Base(m) \in 0..head
        /\ Base(m) <= book.last
    BY <1>2, <1>3, <1>5, <2>2, <2>3, <2>4, AppliedDeltaSpans
  <2>6. /\ m.seq \in (book.last + 1)..head
        /\ \A i \in book.last..m.seq : i \in Base(m)..m.seq
    BY <2>2, <2>5
  <2>7. \A l \in Level \ taken :
           \A i \in book.last..m.seq : hist[i][l] = hist[m.seq][l]
    BY <1>3, <2>1, <2>6 DEF Faithful
  <2>8. \A l \in taken : m.changes[l] = hist[m.seq][l]
    BY <1>3, <2>1 DEF Faithful
  <2>9. book'.levels = [l \in Level |-> IF l \in taken THEN hist[m.seq][l]
                                       ELSE book.levels[l]]
    BY <2>3, <2>8 DEF ApplyLevels
  <2>10. Replica!Advance
    <3>1. book.last # -1
      BY <2>2
    <3> HIDE DEF taken
    <3>2. QED
      BY <1>1, <2>1, <2>3, <2>6, <2>7, <2>9, <3>1 DEF Replica!Advance
  <2>11. QED
    BY <2>10
<1>6. QED
    BY <1>3, <1>4, <1>5

(* Synchronizer, queue and worker together implement the replica: each     *)
(* applied message moves the book to another update of the exchange's      *)
(* history, a snapshot with the best levels there, a delta with all that   *)
(* changed since; and nothing else touches the book.                       *)
THEOREM ReplicaImplemented == Spec => ImplementsReplica
<1>1. Init => Replica!Init
    BY DEF Init, Replica!Init, NewBook, NoSeq
<1>2. ASSUME IInv, [Next]_vars
      PROVE  [Replica!Next]_(Replica!vars)
  <2>1. CASE ExchangeUpdate
    <3>1. Replica!Publish
        BY <2>1 DEF ExchangeUpdate, Replica!Publish
    <3>2. QED
        BY <3>1 DEF Replica!Next
  <2>2. CASE HandleEvent
    BY <1>2, <2>2, HandleEventMovesReplica DEF Replica!Next
  <2>3. CASE ~ExchangeUpdate /\ ~HandleEvent
    <3>1. UNCHANGED <<head, hist, book>>
        BY <1>2, <2>3 DEF Next, vars, exchangeVars, taskVars,
           EmitEvent, Connect, ConnectionLost, ReceiveWaiting, ReceiveGap,
           ReceiveReady, FetchSnapshot, FetchFails, SendDepth, SendFails,
           Drop
    <3>2. QED
        BY <3>1 DEF Replica!vars
  <2>4. QED
      BY <2>1, <2>2, <2>3
<1>3. QED
    BY <1>1, <1>2, Invariance, PTL
       DEF Spec, ImplementsReplica, Replica!Spec

----------------------------------------------------------------------------
(* A stranded symbol.                                                      *)

(* Ids ascend along `pending` and then `events`, none above `limit`: each  *)
(* event starts after all that is before it ends.                          *)
Ascends(pending, events, limit) ==
    /\ \A i \in 1..Len(pending) :
          /\ pending[i].seq <= limit
          /\ \A j \in 1..(i - 1) : pending[j].seq < pending[i].first
    /\ \A i \in 1..Len(events) :
          /\ events[i].seq <= limit
          /\ \A j \in 1..(i - 1) : events[j].seq < events[i].first
          /\ \A j \in 1..Len(pending) : pending[j].seq < events[i].first

(* What is buffered and on the wire ascends, whatever was lost between, and*)
(* a task that is down or fetches has no snapshot.                         *)
StreamAscends ==
    /\ Ascends(sync.pending, wire, streamed)
    /\ task \in {"down", "fetching"} => sync.snapshot = NoSnapshot

LEMMA AscendsSuffix ==
    ASSUME NEW pending \in Seq(Deltas), NEW events, NEW limit \in Nat,
           Ascends(pending, events, limit),
           NEW k \in 1..(Len(pending) + 1)
    PROVE  Ascends(SubSeq(pending, k, Len(pending)), events, limit)
<1> DEFINE kept == SubSeq(pending, k, Len(pending))
<1>1. /\ Len(pending) \in Nat
      /\ Len(kept) = Len(pending) - k + 1
      /\ \A i \in 1..Len(kept) : kept[i] = pending[k + i - 1]
    BY SuffixFacts
<1> HIDE DEF kept
<1>2. \A i \in 1..Len(kept) : k + i - 1 \in 1..Len(pending)
    BY <1>1
<1>3. ASSUME NEW i \in 1..Len(kept)
      PROVE  /\ kept[i].seq <= limit
             /\ \A j \in 1..(i - 1) : kept[j].seq < kept[i].first
  <2>1. kept[i].seq <= limit
    BY <1>1, <1>2 DEF Ascends
  <2>2. ASSUME NEW j \in 1..(i - 1)
        PROVE  kept[j].seq < kept[i].first
    <3>1. /\ k + j - 1 \in 1..((k + i - 1) - 1)
          /\ j \in 1..Len(kept) /\ k + i - 1 \in 1..Len(pending)
      BY <1>1
    <3>2. \A a \in 1..Len(pending) : \A b \in 1..(a - 1) :
             pending[b].seq < pending[a].first
      BY DEF Ascends
    <3>3. pending[k + j - 1].seq < pending[k + i - 1].first
      BY <3>1, <3>2
    <3>4. QED
      BY <1>1, <3>1, <3>3
  <2>3. QED
    BY <2>1, <2>2
<1>4. ASSUME NEW i \in 1..Len(events)
      PROVE  /\ events[i].seq <= limit
             /\ \A j \in 1..(i - 1) : events[j].seq < events[i].first
             /\ \A j \in 1..Len(kept) : kept[j].seq < events[i].first
    BY <1>1, <1>2 DEF Ascends
<1>5. Ascends(kept, events, limit)
    BY <1>3, <1>4 DEF Ascends
<1>6. QED
    BY <1>5 DEF kept

LEMMA AscendsReset ==
    ASSUME NEW pending, NEW events, NEW limit, Ascends(pending, events, limit)
    PROVE  Ascends(<<>>, events, limit) /\ Ascends(<<>>, <<>>, limit)
<1>1. Len(<<>>) = 0
    OBVIOUS
<1>2. QED
    BY <1>1 DEF Ascends

(* Receiving an event moves it from one end to the other.                  *)
LEMMA ReceiveAscends ==
    ASSUME IInv, Receive, Ascends(sync.pending, wire, streamed)
    PROVE  Ascends(Buffered.pending, wire', streamed)
<1> DEFINE n == Len(sync.pending)
           d == Head(wire)
<1>1. /\ n \in Nat /\ Len(Buffered.pending) = n + 1
      /\ \A i \in 1..n : Buffered.pending[i] = sync.pending[i]
      /\ Buffered.pending[n + 1] = d
    BY ReceiveFacts
<1>2. wire \in Seq(Deltas) /\ wire # <<>> /\ wire' = Tail(wire)
    BY DEF IInv, TypeOK, Receive
<1>3. /\ d = wire[1] /\ Len(wire) \in Nat /\ Len(wire) >= 1
      /\ Len(wire') = Len(wire) - 1
      /\ \A i \in 1..Len(wire') : wire'[i] = wire[i + 1]
    BY <1>2, HeadTailFacts
<1> HIDE DEF n, d
<1>4. /\ d.seq <= streamed
      /\ \A j \in 1..n : sync.pending[j].seq < d.first
    BY <1>3 DEF Ascends, n
<1>5. ASSUME NEW i \in 1..(n + 1)
      PROVE  /\ Buffered.pending[i].seq <= streamed
             /\ \A j \in 1..(i - 1) :
                   Buffered.pending[j].seq < Buffered.pending[i].first
  <2>1. CASE i \in 1..n
    <3>1. \A j \in 1..(i - 1) : j \in 1..n
      BY <1>1, <2>1
    <3>2. QED
      BY <1>1, <2>1, <3>1 DEF Ascends, n
  <2>2. CASE i = n + 1
    BY <1>1, <1>4, <2>2
  <2>3. QED
    BY <1>1, <2>1, <2>2
<1>6. ASSUME NEW i \in 1..Len(wire')
      PROVE  /\ wire'[i].seq <= streamed
             /\ \A j \in 1..(i - 1) : wire'[j].seq < wire'[i].first
             /\ \A j \in 1..(n + 1) : Buffered.pending[j].seq < wire'[i].first
  <2>1. wire'[i] = wire[i + 1] /\ i + 1 \in 1..Len(wire)
    BY <1>3
  <2>2. /\ wire[i + 1].seq <= streamed
        /\ \A j \in 1..i : wire[j].seq < wire[i + 1].first
        /\ \A j \in 1..n : sync.pending[j].seq < wire[i + 1].first
    BY <2>1 DEF Ascends, n
  <2>3. \A j \in 1..(i - 1) : wire'[j] = wire[j + 1] /\ j + 1 \in 1..i
    BY <1>3
  <2>4. d.seq < wire[i + 1].first
    BY <1>3, <2>2
  <2>5. \A j \in 1..(i - 1) : wire'[j].seq < wire'[i].first
    BY <2>1, <2>2, <2>3
  <2>6. \A j \in 1..(n + 1) : j \in 1..n \/ j = n + 1
    BY <1>1
  <2>7. \A j \in 1..(n + 1) : Buffered.pending[j].seq < wire'[i].first
    BY <1>1, <2>1, <2>2, <2>4, <2>6
  <2>8. QED
    BY <2>1, <2>2, <2>5, <2>7
<1>7. QED
    BY <1>1, <1>5, <1>6 DEF Ascends

LEMMA EmitAscends ==
    ASSUME IInv, EmitEvent, Ascends(sync.pending, wire, streamed)
    PROVE  Ascends(sync.pending, wire', streamed')
<1>1. PICK first \in (streamed + 1)..head :
         /\ FirstChange(first)
         /\ wire' = Append(wire, EventFrom(first)) \/ wire' = wire
    BY DEF EmitEvent
<1> DEFINE e == EventFrom(first)
<1>2. /\ streamed' = head /\ head \in Nat /\ streamed \in 0..head
      /\ wire \in Seq(Deltas) /\ sync.pending \in Seq(Deltas)
    BY BinanceAssumption DEF IInv, TypeOK, EmitEvent
<1>3. e \in Deltas /\ e.seq = head /\ e.first = first /\ streamed < first
    BY <1>1, <1>2, EventFaithful DEF IInv, EventFrom, Delta
<1>4. /\ Len(wire) \in Nat /\ Len(sync.pending) \in Nat
      /\ \A i \in 1..Len(wire) : wire[i].seq \in Nat
      /\ \A i \in 1..Len(sync.pending) : sync.pending[i].seq \in Nat
  <2>1. Len(wire) \in Nat /\ Len(sync.pending) \in Nat
    BY <1>2, LenProperties
  <2>2. \A i \in 1..Len(wire) : wire[i].seq \in Nat
    BY <2>1 DEF IInv, AllFaithful, Faithful
  <2>3. \A i \in 1..Len(sync.pending) : sync.pending[i].seq \in Nat
    BY <2>1 DEF IInv, AllFaithful, Faithful
  <2>4. QED
    BY <2>1, <2>2, <2>3
<1> HIDE DEF e
<1>5. \A i \in 1..Len(sync.pending) : sync.pending[i].seq <= head
    BY <1>2, <1>4 DEF Ascends
<1>6. \A i \in 1..Len(wire) : wire[i].seq <= head
    BY <1>2, <1>4 DEF Ascends
<1>7. /\ \A i \in 1..Len(sync.pending) : sync.pending[i].seq < first
      /\ \A i \in 1..Len(wire) : wire[i].seq < first
    BY <1>1, <1>2, <1>3, <1>4 DEF Ascends
<1>8. CASE wire' = wire
    BY <1>2, <1>5, <1>6, <1>8 DEF Ascends
<1>9. CASE wire' = Append(wire, e)
  <2>1. /\ Len(wire') = Len(wire) + 1
        /\ \A i \in 1..Len(wire) : wire'[i] = wire[i]
        /\ wire'[Len(wire) + 1] = e
    BY <1>2, <1>3, <1>9, AppendFacts
  <2>2. ASSUME NEW i \in 1..Len(wire')
        PROVE  /\ wire'[i].seq <= head
               /\ \A j \in 1..(i - 1) : wire'[j].seq < wire'[i].first
               /\ \A j \in 1..Len(sync.pending) :
                     sync.pending[j].seq < wire'[i].first
    <3>1. \A j \in 1..(i - 1) : j \in 1..Len(wire) /\ wire'[j] = wire[j]
      BY <1>4, <2>1
    <3>2. CASE i \in 1..Len(wire)
      BY <1>6, <2>1, <3>1, <3>2 DEF Ascends
    <3>3. CASE i = Len(wire) + 1
      <4>1. wire'[i] = e /\ i - 1 = Len(wire)
        BY <1>4, <2>1, <3>3
      <4>2. QED
        BY <1>2, <1>3, <1>7, <3>1, <4>1
    <3>4. QED
      BY <1>4, <2>1, <3>2, <3>3
  <2>3. QED
    BY <1>2, <1>5, <2>2 DEF Ascends
<1>10. QED
    BY <1>1, <1>8, <1>9 DEF e

(* initialize_symbol keeps a suffix of what is buffered, or nothing.       *)
LEMMA InitializeAscends ==
    ASSUME NEW s \in SyncType, Initialize(s), streamed \in Nat,
           Ascends(s.pending, wire', streamed)
    PROVE  /\ Ascends(sync'.pending, wire', streamed)
           /\ task' \in {"reading", "sending"}
<1>1. PICK k \in 1..(Len(s.pending) + 1) :
         \/ /\ sync' = [s EXCEPT !.pending =
                           SubSeq(s.pending, k, Len(s.pending))]
            /\ task' = "reading"
         \/ sync'.pending = <<>> /\ task' = "sending"
    BY DEF Initialize
<1>2. s.pending \in Seq(Deltas)
    BY DEF SyncType
<1>3. \A kept : [s EXCEPT !.pending = kept].pending = kept
    BY DEF SyncType
<1>4. CASE sync' = [s EXCEPT !.pending = SubSeq(s.pending, k, Len(s.pending))]
           /\ task' = "reading"
  <2>1. sync'.pending = SubSeq(s.pending, k, Len(s.pending))
    BY <1>3, <1>4, Zenon
  <2>2. Ascends(SubSeq(s.pending, k, Len(s.pending)), wire', streamed)
    BY <1>2, AscendsSuffix
  <2>3. QED
    BY <1>4, <2>1, <2>2
<1>5. CASE sync'.pending = <<>> /\ task' = "sending"
    BY <1>5, AscendsReset
<1>6. QED
    BY <1>1, <1>4, <1>5

LEMMA StreamAscendsInductive ==
    /\ Init => StreamAscends
    /\ IInv /\ StreamAscends /\ [Next]_vars => StreamAscends'
<1>0. Len(<<>>) = 0
    OBVIOUS
<1>1. ASSUME Init PROVE StreamAscends
    BY <1>0, <1>1 DEF Init, NewSync, StreamAscends, Ascends
<1>2. ASSUME IInv, StreamAscends, [Next]_vars PROVE StreamAscends'
  <2>0. /\ Ascends(sync.pending, wire, streamed)
        /\ streamed \in Nat /\ sync \in SyncType
    BY <1>2, BinanceAssumption DEF StreamAscends, IInv, TypeOK, SyncType
  <2>1. CASE UNCHANGED <<streamed, wire, task, sync>>
    BY <1>2, <2>1 DEF StreamAscends
  <2>2. CASE SendDepth
    BY <1>2, <2>2 DEF SendDepth, exchangeVars, StreamAscends
  <2>3. CASE EmitEvent
    BY <1>2, <2>0, <2>3, EmitAscends
       DEF EmitEvent, taskVars, StreamAscends
  <2>4. CASE Connect \/ ConnectionLost \/ FetchFails \/ SendFails
    <3>1. /\ wire' = <<>> /\ sync' = NewSync
          /\ streamed' = streamed
      BY <2>4 DEF Connect, ConnectionLost, FetchFails, SendFails, Drop,
                  exchangeVars
    <3>2. QED
      BY <2>0, <3>1, AscendsReset DEF StreamAscends, NewSync
  <2>5. CASE ReceiveWaiting \/ ReceiveGap \/ ReceiveReady
    <3>1. /\ Receive /\ streamed' = streamed
          /\ Ascends(Buffered.pending, wire', streamed)
      BY <1>2, <2>0, <2>5, ReceiveAscends
         DEF ReceiveWaiting, ReceiveGap, ReceiveReady, exchangeVars
    <3>2. Ascends(<<>>, wire', streamed)
      BY <3>1, AscendsReset
    <3>3. Buffered \in SyncType /\ Buffered.snapshot = sync.snapshot
      BY <1>2, <3>1, ReceiveFacts
    <3>4. CASE ReceiveGap
      BY <3>1, <3>2, <3>4 DEF ReceiveGap, NewSync, StreamAscends
    <3>5. CASE ReceiveReady
      <4>1. sync'.pending = <<>> /\ task' = "sending"
        BY <2>0, <3>5 DEF ReceiveReady, SyncType
      <4>2. QED
        BY <3>1, <3>2, <4>1 DEF StreamAscends
    <3>6. CASE ReceiveWaiting
      <4>1. CASE sync.snapshot = NoSnapshot
        BY <3>1, <3>3, <3>6, <4>1 DEF ReceiveWaiting, StreamAscends
      <4>2. CASE sync.snapshot # NoSnapshot
        <5>1. Initialize(Buffered)
          BY <3>6, <4>2 DEF ReceiveWaiting
        <5>2. QED
          BY <2>0, <3>1, <3>3, <5>1, InitializeAscends DEF StreamAscends
      <4>3. QED
        BY <4>1, <4>2
    <3>7. QED
      BY <2>5, <3>4, <3>5, <3>6
  <2>6. CASE FetchSnapshot
    <3>1. PICK id \in 0..head :
             Initialize([sync EXCEPT !.snapshot = Snapshot(id, Best(hist[id]))])
      BY <2>6 DEF FetchSnapshot
    <3> DEFINE s == [sync EXCEPT !.snapshot = Snapshot(id, Best(hist[id]))]
    <3>2. s \in SyncType /\ s.pending = sync.pending
      <4>1. Snapshot(id, Best(hist[id])) \in Snapshots
        BY <1>2, BinanceAssumption, BestType
           DEF IInv, TypeOK, Snapshot, Snapshots, Seqs
      <4>2. QED
        BY <2>0, <4>1 DEF SyncType
    <3>3. wire' = wire /\ streamed' = streamed
      BY <2>6 DEF FetchSnapshot, exchangeVars
    <3>4. Initialize(s)
      BY <3>1
    <3> HIDE DEF s
    <3>5. QED
      BY <2>0, <3>2, <3>3, <3>4, InitializeAscends DEF StreamAscends
  <2>7. QED
    BY <1>2, <2>1, <2>2, <2>3, <2>4, <2>5, <2>6
       DEF Next, vars, exchangeVars, taskVars, ExchangeUpdate, HandleEvent
<1>3. QED
    BY <1>1, <1>2

(* While an event is buffered that lies beyond the snapshot, no later one  *)
(* bridges from it, and the event stays.                                   *)
LEMMA StrandedStays ==
    IInv /\ StreamAscends /\ Stranded /\ [Next]_vars
        => Stranded' \/ task' = "down"
<1> SUFFICES ASSUME IInv, StreamAscends, Stranded, [Next]_vars
             PROVE  Stranded' \/ task' = "down"
    OBVIOUS
<1>1. PICK i \in 1..Len(sync.pending) :
         sync.pending[i].first > sync.snapshot.seq + 1
    BY DEF Stranded
<1>2. /\ sync.snapshot # NoSnapshot /\ sync \in SyncType
      /\ sync.pending \in Seq(Deltas) /\ Len(sync.pending) \in Nat
      /\ \A j \in 1..Len(sync.pending) :
            Faithful(sync.pending[j], Shown, hist, head)
    BY LenProperties
       DEF Stranded, IInv, TypeOK, SyncType, AllFaithful
<1>3. ~sync.ready
  <2>1. sync.pending # <<>>
    BY <1>1, <1>2, EmptySeq
  <2>2. QED
    BY <2>1 DEF IInv, SyncInStep
<1>4. task # "fetching" /\ task # "sending"
    BY <1>2, <1>3 DEF StreamAscends, IInv, SyncInStep
<1>5. CASE sync' = sync
    BY <1>5 DEF Stranded
<1>6. CASE Connect \/ ConnectionLost \/ FetchFails \/ SendFails
  <2>1. task # "down"
    BY <1>2 DEF StreamAscends
  <2>2. QED
    BY <1>6, <2>1 DEF Connect, ConnectionLost, FetchFails, SendFails, Drop
<1>7. CASE ReceiveWaiting
  <2>1. Receive /\ Initialize(Buffered)
    BY <1>2, <1>7 DEF ReceiveWaiting
  <2> DEFINE s == Buffered
             n == Len(sync.pending)
             last == sync.snapshot.seq
  <2>2. /\ s \in SyncType /\ s.snapshot = sync.snapshot
        /\ n \in Nat /\ Len(s.pending) = n + 1
        /\ s.pending \in Seq(Deltas)
        /\ \A j \in 1..n : s.pending[j] = sync.pending[j]
    BY <2>1, ReceiveFacts DEF SyncType
  <2>3. Ascends(s.pending, wire', streamed)
    BY <2>1, ReceiveAscends DEF StreamAscends
  <2>4. /\ last \in Nat
        /\ \A j \in 1..n : ~BridgesFrom(last, sync.pending[j])
    <3>1. task = "reading"
      BY <2>1 DEF Receive
    <3>2. QED
      BY <1>2, <1>3, <3>1
         DEF IInv, SyncInStep, AllFaithful, Faithful
  <2> HIDE DEF s, n, last
  <2>5. /\ s.pending[i].first > last + 1 /\ s.pending[i].first \in Nat
        /\ s.pending[i].seq \in Nat
        /\ s.pending[i].first <= s.pending[i].seq
    <3>0. sync.pending[i] \in Deltas
      BY <1>1, <1>2, ElementOfSeq
    <3>1. sync.pending[i].kind = "Delta"
      BY <3>0 DEF Deltas
    <3>2. /\ sync.pending[i].seq \in Nat /\ sync.pending[i].first \in Nat
          /\ sync.pending[i].first <= sync.pending[i].seq
      BY <1>1, <1>2, <3>1 DEF Faithful
    <3>3. QED
      BY <1>1, <2>2, <3>2 DEF n, last
  <2>6. \A b \in 1..(n + 1) : ~BridgesFrom(last, s.pending[b])
    <3>0. i \in 1..n /\ n + 1 \in 1..Len(s.pending)
      BY <1>1, <2>2 DEF n
    <3>1. s.pending[i].seq < s.pending[n + 1].first
      <4>1. \A a \in 1..Len(s.pending) : \A b \in 1..(a - 1) :
               s.pending[b].seq < s.pending[a].first
        BY <2>3 DEF Ascends
      <4>2. i \in 1..((n + 1) - 1)
        BY <2>2, <3>0
      <4>3. QED
        BY <3>0, <4>1, <4>2
    <3>2. s.pending[n + 1].first \in Seqs
      <4>1. s.pending[n + 1] \in Deltas
        BY <2>2, <3>0, ElementOfSeq
      <4>2. QED
        BY <4>1 DEF Deltas
    <3>3. ~BridgesFrom(last, s.pending[n + 1])
      BY <2>4, <2>5, <3>1, <3>2 DEF BridgesFrom, Seqs, NoSeq
    <3>4. QED
      BY <2>2, <2>4, <3>3
  <2>7. PICK k \in 1..(Len(s.pending) + 1) :
           LET kept == SubSeq(s.pending, k, Len(s.pending))
           IN  /\ \A j \in 1..Len(s.pending) :
                     s.pending[j].seq > s.snapshot.seq <=> j >= k
               /\ \/ sync' = [s EXCEPT !.pending = kept]
                  \/ \E b \in 1..Len(kept) :
                        BridgesFrom(s.snapshot.seq, kept[b])
    BY <2>1 DEF Initialize, s
  <2> DEFINE kept == SubSeq(s.pending, k, Len(s.pending))
  <2>8. /\ Len(kept) = n + 1 - k + 1
        /\ \A j \in 1..Len(kept) : kept[j] = s.pending[k + j - 1]
    BY <2>2, SuffixFacts
  <2>9. ~\E b \in 1..Len(kept) : BridgesFrom(s.snapshot.seq, kept[b])
    <3>1. \A b \in 1..Len(kept) : k + b - 1 \in 1..(n + 1)
      BY <2>2, <2>8
    <3>2. last = s.snapshot.seq
      BY <2>2 DEF last
    <3>3. QED
      BY <2>6, <2>8, <3>1, <3>2
  <2>10. sync' = [s EXCEPT !.pending = kept]
    BY <2>7, <2>9
  <2>11. sync'.pending = kept /\ sync'.snapshot = sync.snapshot
    BY <2>2, <2>10, SMTT(40) DEF SyncType
  <2>12. i >= k
    <3>1. i \in 1..Len(s.pending)
      BY <2>2 DEF n
    <3>2. s.snapshot.seq = last
      BY <2>2 DEF last
    <3>3. s.pending[i].seq > last
      BY <2>4, <2>5
    <3>4. QED
      BY <2>7, <3>1, <3>2, <3>3
  <2>13. i - k + 1 \in 1..Len(kept) /\ kept[i - k + 1] = s.pending[i]
    BY <2>2, <2>8, <2>12 DEF n
  <2>14. QED
    BY <1>2, <2>5, <2>11, <2>13 DEF Stranded, last
<1>8. CASE ReceiveGap \/ ReceiveReady
    BY <1>3, <1>8 DEF ReceiveGap, ReceiveReady
<1>9. CASE FetchSnapshot
    BY <1>4, <1>9 DEF FetchSnapshot
<1>10. QED
    BY <1>5, <1>6, <1>7, <1>8, <1>9
       DEF Next, vars, exchangeVars, taskVars, ExchangeUpdate, EmitEvent,
           SendDepth, HandleEvent

(* A symbol whose stream has moved past the snapshot it holds stays so     *)
(* until its connection ends: no event that may still come lets            *)
(* initialize_symbol find a bridge, and nothing fetches a new snapshot.    *)
THEOREM StrandedUntilReconnect == Spec => StrandedUntilDropped
<1>1. Init => StreamAscends
    BY StreamAscendsInductive
<1>2. IInv /\ StreamAscends /\ [Next]_vars => StreamAscends'
    BY StreamAscendsInductive
<1>3. Spec => []StreamAscends
    BY <1>1, <1>2, Invariance, PTL DEF Spec
<1>4. IInv /\ StreamAscends /\ [Next]_vars
          => [Stranded => Stranded' \/ task' = "down"]_vars
    BY StrandedStays
<1>5. QED
    BY <1>3, <1>4, Invariance, PTL DEF Spec, StrandedUntilDropped
============================================================================
