-------------------------- MODULE LocalBookProofs ---------------------------
(***************************************************************************)
(* Lemmas about LocalBook's operators: what one apply does to a book that  *)
(* matches or tracks the exchange's history when the message is faithful.  *)
(* Both depth pipelines rest on them, and on two facts about sequences.    *)
(***************************************************************************)
EXTENDS LocalBook, SequenceTheorems, TLAPS

(* Sequences, seen from both ends.                                         *)
LEMMA HeadTailFacts ==
    ASSUME NEW S, NEW s \in Seq(S), s # <<>>
    PROVE  /\ Len(s) \in Nat /\ Len(s) >= 1
           /\ Head(s) = s[1] /\ s[1] \in S
           /\ Tail(s) \in Seq(S) /\ Len(Tail(s)) = Len(s) - 1
           /\ \A i \in 1..Len(Tail(s)) : Tail(s)[i] = s[i + 1]
<1>1. Len(s) \in Nat \ {0}
    BY EmptySeq
<1>2. QED
    BY <1>1, HeadTailProperties, ElementOfSeq

LEMMA AppendFacts ==
    ASSUME NEW S, NEW s \in Seq(S), NEW e \in S
    PROVE  /\ Len(s) \in Nat
           /\ Append(s, e) \in Seq(S) /\ Len(Append(s, e)) = Len(s) + 1
           /\ Append(s, e) # <<>>
           /\ \A i \in 1..Len(s) : Append(s, e)[i] = s[i]
           /\ Append(s, e)[Len(s) + 1] = e
BY AppendProperties, LenProperties

----------------------------------------------------------------------------
(* The operators.                                                          *)

(* apply_levels keeps a map of all levels to quantities.                   *)
LEMMA ApplyLevelsType ==
    ASSUME NEW levels \in Levels, NEW changes \in Changes
    PROVE  ApplyLevels(levels, changes) \in Levels
<1>1. PICK D \in SUBSET Level : changes \in [D -> Qty]
    BY DEF Changes
<1>2. QED
    BY <1>1 DEF ApplyLevels, Levels

(* apply returns one of the two results that change or keep a trusted book,*)
(* or one of the two that refuse the delta, and what it leaves behind.     *)
LEMMA ApplyCases ==
    ASSUME NEW book \in Books, NEW m \in Snapshots \cup Deltas
    PROVE  \/ /\ m \in Snapshots
              /\ ApplyResult(book, m) = "Applied"
              /\ Apply(book, m) = [hasSnapshot |-> TRUE, last |-> m.seq,
                                   levels |-> m.levels]
           \/ /\ m \in Deltas
              /\ ApplyResult(book, m) = "Applied"
              /\ book.hasSnapshot
              /\ ~StaleDelta(book.last, m) /\ ~GapBefore(book.last, m)
              /\ Apply(book, m) =
                    [hasSnapshot |-> TRUE,
                     last |-> IF m.seq # NoSeq THEN m.seq ELSE book.last,
                     levels |-> ApplyLevels(book.levels, m.changes)]
           \/ /\ m \in Deltas
              /\ ~book.hasSnapshot
                 \/ StaleDelta(book.last, m) \/ GapBefore(book.last, m)
              /\ Apply(book, m) \in {book, NewBook}
<1>1. CASE m \in Snapshots
    BY <1>1 DEF Snapshots, ApplyResult, Apply
<1>2. CASE m \in Deltas
  <2>1. m.kind = "Delta" /\ m.kind # "Snapshot"
    BY <1>2 DEF Deltas
  <2>2. CASE ~book.hasSnapshot
    <3>1. ApplyResult(book, m) = "WaitingForSnapshot"
      BY <2>1, <2>2 DEF ApplyResult, Mode
    <3>2. QED
      BY <1>2, <2>1, <2>2, <3>1 DEF Apply
  <2>3. CASE book.hasSnapshot
    <3>1. ApplyResult(book, m) =
             IF StaleDelta(book.last, m) THEN "IgnoredStale"
             ELSE IF GapBefore(book.last, m) THEN "GapDetected"
             ELSE "Applied"
      BY <2>1, <2>3 DEF ApplyResult, Mode
    <3>2. QED
      BY <1>2, <2>1, <2>3, <3>1 DEF Apply
  <2>4. QED
    BY <2>2, <2>3
<1>3. QED
    BY <1>1, <1>2

(* apply keeps the book well-typed.                                        *)
LEMMA ApplyType ==
    ASSUME NEW book \in Books, NEW m \in Snapshots \cup Deltas
    PROVE  Apply(book, m) \in Books
<1>1. NewBook \in Books
    BY MaxQtyAssumption
       DEF NewBook, Books, EmptyLevels, Levels, Qty, Seqs
<1>2. CASE m \in Snapshots
  <2>1. m \notin Deltas /\ m.seq \in Seqs /\ m.levels \in Levels
    BY <1>2 DEF Snapshots, Deltas
  <2>2. Apply(book, m) = [hasSnapshot |-> TRUE, last |-> m.seq,
                          levels |-> m.levels]
    BY <2>1, ApplyCases
  <2>3. QED
    BY <2>1, <2>2 DEF Books
<1>3. CASE m \in Deltas
  <2>1. m.changes \in Changes /\ m.seq \in Seqs /\ m \notin Snapshots
    BY <1>3 DEF Deltas, Snapshots
  <2>2. ApplyLevels(book.levels, m.changes) \in Levels
    BY <2>1, ApplyLevelsType DEF Books
  <2>3. \/ Apply(book, m) \in {book, NewBook}
        \/ Apply(book, m) =
               [hasSnapshot |-> TRUE,
                last |-> IF m.seq # NoSeq THEN m.seq ELSE book.last,
                levels |-> ApplyLevels(book.levels, m.changes)]
    BY <2>1, ApplyCases
  <2>4. (IF m.seq # NoSeq THEN m.seq ELSE book.last) \in Seqs
    BY <2>1 DEF Books
  <2>5. CASE Apply(book, m) \in {book, NewBook}
    BY <1>1, <2>5
  <2>6. CASE Apply(book, m) \notin {book, NewBook}
    <3>1. \A s \in Seqs, v \in Levels :
             [hasSnapshot |-> TRUE, last |-> s, levels |-> v] \in Books
      BY DEF Books
    <3>2. QED
      BY <2>2, <2>3, <2>4, <2>6, <3>1
  <2>7. QED
    BY <2>5, <2>6
<1>4. QED
    BY <1>2, <1>3

(* A delta whose base is at or before the book, and whose id is after it,  *)
(* takes the book to the exchange's book as of the delta's id: the levels  *)
(* it mentions get their quantity, the others have not changed since.      *)
LEMMA FaithfulDeltaApplies ==
    ASSUME NEW head \in Nat, NEW hist \in [0..head -> Levels],
           NEW shown, NEW m \in Deltas, Faithful(m, shown, hist, head),
           NEW at \in 0..head, Base(m) <= at, at <= m.seq
    PROVE  ApplyLevels(hist[at], m.changes) = hist[m.seq]
<1>1. m.kind = "Delta"
    BY DEF Deltas
<1>2. m.seq \in 0..head /\ Base(m) \in 0..head /\ at \in Base(m)..m.seq
    BY <1>1 DEF Faithful
<1>3. \A l \in Level :
          IF l \in DOMAIN m.changes THEN m.changes[l] = hist[m.seq][l]
          ELSE hist[at][l] = hist[m.seq][l]
    BY <1>1, <1>2 DEF Faithful
<1>4. hist[m.seq] \in Levels
    BY <1>2
<1>5. hist[m.seq] = [l \in Level |-> hist[m.seq][l]]
    BY <1>4 DEF Levels
<1>6. QED
    BY <1>3, <1>5 DEF ApplyLevels

(* A delta that apply takes spans from the book to its id.                 *)
LEMMA AppliedDeltaSpans ==
    ASSUME NEW head \in Nat, NEW hist, NEW shown,
           NEW book \in Books, book.last \in 0..head,
           NEW m \in Deltas, Faithful(m, shown, hist, head),
           ~StaleDelta(book.last, m), ~GapBefore(book.last, m)
    PROVE  /\ m.seq \in 0..head /\ m.seq # NoSeq
           /\ Base(m) \in 0..head
           /\ Base(m) <= book.last /\ book.last <= m.seq
<1>1. m.kind = "Delta"
    BY DEF Deltas
<1>2. m.seq \in 0..head /\ m.seq # NoSeq /\ Base(m) \in 0..head
    BY <1>1 DEF Faithful, NoSeq
<1>3. book.last <= m.seq
    BY <1>2 DEF StaleDelta, NoSeq
<1>4. Base(m) <= book.last
    BY <1>1, <1>2 DEF GapBefore, BridgesSnapshot, Faithful, Base, Deltas,
                      Seqs, NoSeq
<1>5. QED
    BY <1>2, <1>3, <1>4

(* One apply of a faithful message keeps a matching book matching,         *)
(* whatever the book has seen or missed before.                            *)
LEMMA ApplyMatches ==
    ASSUME NEW head \in Nat, NEW hist \in [0..head -> Levels],
           NEW book \in Books, Matches(book, hist, head),
           NEW m \in Snapshots \cup Deltas, Faithful(m, hist, hist, head)
    PROVE  Matches(Apply(book, m), hist, head)
<1>1. CASE m \in Snapshots
  <2>1. m.kind = "Snapshot" /\ m \notin Deltas
    BY <1>1 DEF Snapshots, Deltas
  <2>2. QED
    BY <1>1, <2>1, ApplyCases DEF Faithful, Matches
<1>2. CASE m \in Deltas
  <2>1. m.kind = "Delta" /\ m \notin Snapshots
    BY <1>2 DEF Snapshots, Deltas
  <2>2. CASE Apply(book, m) \in {book, NewBook}
    BY <2>2 DEF Matches, NewBook
  <2>3. CASE Apply(book, m) \notin {book, NewBook}
    <3>1. /\ book.hasSnapshot
          /\ ~StaleDelta(book.last, m) /\ ~GapBefore(book.last, m)
          /\ Apply(book, m) =
                [hasSnapshot |-> TRUE,
                 last |-> IF m.seq # NoSeq THEN m.seq ELSE book.last,
                 levels |-> ApplyLevels(book.levels, m.changes)]
      BY <2>1, <2>3, ApplyCases
    <3>2. book.last \in 0..head /\ book.levels = hist[book.last]
      BY <3>1 DEF Matches
    <3>3. /\ m.seq \in 0..head /\ m.seq # NoSeq
          /\ Base(m) <= book.last /\ book.last <= m.seq
      BY <1>2, <3>1, <3>2, AppliedDeltaSpans, Zenon
    <3>4. ApplyLevels(book.levels, m.changes) = hist[m.seq]
      BY <1>2, <3>2, <3>3, FaithfulDeltaApplies
    <3>5. QED
      BY <3>1, <3>3, <3>4 DEF Matches
  <2>4. QED
    BY <2>2, <2>3
<1>3. QED
    BY <1>1, <1>2

(* One apply of a faithful message keeps a tracking book tracking: what a  *)
(* delta does not mention has not changed since the book's sequence, and   *)
(* if it had not changed since the snapshot either, it still has not.      *)
LEMMA ApplyTracks ==
    ASSUME NEW head \in Nat, NEW hist \in [0..head -> Levels], NEW shown,
           NEW book \in Books, Tracks(book, shown, hist, head),
           NEW m \in Snapshots \cup Deltas, Faithful(m, shown, hist, head)
    PROVE  Tracks(Apply(book, m), shown, hist, head)
<1>1. CASE m \in Snapshots
  <2>1. m.kind = "Snapshot" /\ m \notin Deltas
    BY <1>1 DEF Snapshots, Deltas
  <2>2. m.seq \in 0..head /\ m.levels = shown[m.seq]
    BY <2>1 DEF Faithful
  <2>3. Apply(book, m) = [hasSnapshot |-> TRUE, last |-> m.seq,
                          levels |-> m.levels]
    BY <2>1, ApplyCases
  <2>4. m.seq \in 0..m.seq /\ \A i \in m.seq..m.seq : i = m.seq
    BY <2>2
  <2>5. QED
    BY <2>2, <2>3, <2>4 DEF Tracks
<1>2. CASE m \in Deltas
  <2>1. m \notin Snapshots /\ m.kind = "Delta"
    BY <1>2 DEF Snapshots, Deltas
  <2>2. CASE Apply(book, m) \in {book, NewBook}
    BY <2>2 DEF Tracks, NewBook
  <2>3. CASE Apply(book, m) \notin {book, NewBook}
    <3>1. /\ book.hasSnapshot
          /\ ~StaleDelta(book.last, m) /\ ~GapBefore(book.last, m)
          /\ Apply(book, m) =
                [hasSnapshot |-> TRUE,
                 last |-> IF m.seq # NoSeq THEN m.seq ELSE book.last,
                 levels |-> ApplyLevels(book.levels, m.changes)]
      BY <2>1, <2>3, ApplyCases
    <3>2. book.last \in 0..head
      BY <3>1 DEF Tracks
    <3>3. PICK at \in 0..book.last : \A l \in Level :
             \/ book.levels[l] = hist[book.last][l]
             \/ /\ book.levels[l] = shown[at][l]
                /\ \A i \in at..book.last : hist[i][l] = hist[at][l]
      BY <3>1 DEF Tracks
    <3>4. /\ m.seq \in 0..head /\ m.seq # NoSeq /\ Base(m) \in 0..head
          /\ Base(m) <= book.last /\ book.last <= m.seq
      BY <1>2, <3>1, <3>2, AppliedDeltaSpans
    <3>5. at \in 0..m.seq
      BY <3>2, <3>4
    <3>6. ASSUME NEW l \in Level
          PROVE  \/ ApplyLevels(book.levels, m.changes)[l] = hist[m.seq][l]
                 \/ /\ ApplyLevels(book.levels, m.changes)[l] = shown[at][l]
                    /\ \A i \in at..m.seq : hist[i][l] = hist[at][l]
      <4>1. CASE l \in DOMAIN m.changes
        BY <2>1, <4>1 DEF ApplyLevels, Faithful
      <4>2. CASE l \notin DOMAIN m.changes
        <5>1. ApplyLevels(book.levels, m.changes)[l] = book.levels[l]
          BY <4>2 DEF ApplyLevels
        <5>2. \A i \in book.last..m.seq : hist[i][l] = hist[m.seq][l]
          <6>1. \A i \in Base(m)..m.seq : hist[i][l] = hist[m.seq][l]
            BY <2>1, <4>2 DEF Faithful
          <6>2. \A i \in book.last..m.seq : i \in Base(m)..m.seq
            BY <3>2, <3>4
          <6>3. QED
            BY <6>1, <6>2
        <5>3. hist[book.last][l] = hist[m.seq][l]
          BY <3>2, <3>4, <5>2
        <5>4. CASE book.levels[l] = hist[book.last][l]
          BY <5>1, <5>3, <5>4
        <5>5. CASE /\ book.levels[l] = shown[at][l]
                   /\ \A i \in at..book.last : hist[i][l] = hist[at][l]
          <6>1. hist[book.last][l] = hist[at][l]
            BY <3>2, <5>5
          <6>2. \A i \in at..m.seq :
                   i \in at..book.last \/ i \in book.last..m.seq
            BY <3>2, <3>4
          <6>3. \A i \in at..m.seq : hist[i][l] = hist[at][l]
            BY <5>2, <5>3, <5>5, <6>1, <6>2
          <6>4. QED
            BY <5>1, <5>5, <6>3
        <5>6. QED
          BY <3>3, <5>4, <5>5
      <4>3. QED
        BY <4>1, <4>2
    <3>7. QED
      BY <3>1, <3>4, <3>5, <3>6 DEF Tracks
  <2>4. QED
    BY <2>2, <2>3
<1>3. QED
    BY <1>1, <1>2

(* A trusted book takes every faithful delta that follows it.              *)
LEMMA FollowingDeltaApplies ==
    ASSUME NEW head \in Nat, NEW hist \in [0..head -> Levels],
           NEW book \in Books, book.hasSnapshot, book.last \in Nat,
           NEW shown, NEW m \in Deltas, Faithful(m, shown, hist, head),
           Follows(book.last, m)
    PROVE  /\ ApplyResult(book, m) = "Applied"
           /\ Apply(book, m).hasSnapshot
           /\ Apply(book, m).last = m.seq
           /\ Apply(book, m).levels = ApplyLevels(book.levels, m.changes)
           /\ ~GapBefore(book.last, m)
<1>1. m.kind = "Delta" /\ m \notin Snapshots /\ m.seq \in Nat /\ m.first \in Nat
    BY DEF Deltas, Snapshots, Faithful
<1>2. ~StaleDelta(book.last, m)
    BY <1>1 DEF StaleDelta, Follows
<1>3. ~GapBefore(book.last, m)
    BY <1>1 DEF GapBefore, BridgesSnapshot, Follows, NoSeq
<1>4. QED
    BY <1>1, <1>2, <1>3, ApplyCases DEF NoSeq

(* What was faithful stays faithful when the history is extended.          *)
LEMMA FaithfulExtends ==
    ASSUME NEW head \in Nat, NEW hist, NEW hist2, NEW shown, NEW shown2,
           \A i \in 0..head : hist2[i] = hist[i],
           \A i \in 0..head : shown2[i] = shown[i],
           NEW m \in Snapshots \cup Deltas, Faithful(m, shown, hist, head)
    PROVE  Faithful(m, shown2, hist2, head + 1)
<1>1. m.seq \in 0..head /\ m.seq \in 0..(head + 1)
    BY DEF Faithful
<1>2. m.kind = "Snapshot" => m.levels = shown2[m.seq]
    BY <1>1 DEF Faithful
<1>3. ASSUME m.kind = "Delta"
      PROVE  /\ Base(m) \in 0..(head + 1) /\ m.first \in Nat
             /\ Base(m) < m.first /\ m.first <= m.seq
             /\ \A l \in Level :
                   IF l \in DOMAIN m.changes
                   THEN m.changes[l] = hist2[m.seq][l]
                   ELSE \A i \in Base(m)..m.seq :
                           hist2[i][l] = hist2[m.seq][l]
  <2>1. /\ Base(m) \in 0..head /\ m.first \in Nat
        /\ Base(m) < m.first /\ m.first <= m.seq
        /\ \A l \in Level :
              IF l \in DOMAIN m.changes THEN m.changes[l] = hist[m.seq][l]
              ELSE \A i \in Base(m)..m.seq : hist[i][l] = hist[m.seq][l]
    BY <1>3 DEF Faithful
  <2>2. \A i \in Base(m)..m.seq : i \in 0..head
    BY <1>1, <2>1
  <2>3. QED
    BY <1>1, <2>1, <2>2
<1>4. QED
    BY <1>1, <1>2, <1>3 DEF Faithful

(* So does a book that tracked it.                                         *)
LEMMA TracksExtends ==
    ASSUME NEW head \in Nat, NEW hist, NEW hist2, NEW shown, NEW shown2,
           \A i \in 0..head : hist2[i] = hist[i] /\ shown2[i] = shown[i],
           NEW book, Tracks(book, shown, hist, head)
    PROVE  Tracks(book, shown2, hist2, head + 1)
<1> SUFFICES ASSUME book.hasSnapshot
             PROVE  /\ book.last \in 0..(head + 1)
                    /\ \E at \in 0..book.last : \A l \in Level :
                          \/ book.levels[l] = hist2[book.last][l]
                          \/ /\ book.levels[l] = shown2[at][l]
                             /\ \A i \in at..book.last :
                                   hist2[i][l] = hist2[at][l]
    BY DEF Tracks
<1>1. book.last \in 0..head
    BY DEF Tracks
<1>2. PICK at \in 0..book.last : \A l \in Level :
         \/ book.levels[l] = hist[book.last][l]
         \/ /\ book.levels[l] = shown[at][l]
            /\ \A i \in at..book.last : hist[i][l] = hist[at][l]
    BY DEF Tracks
<1>3. at \in 0..head /\ \A i \in at..book.last : i \in 0..head
    BY <1>1, <1>2
<1>4. QED
    BY <1>1, <1>2, <1>3
============================================================================
