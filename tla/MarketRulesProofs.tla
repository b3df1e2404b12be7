------------------------- MODULE MarketRulesProofs --------------------------
(***************************************************************************)
(* Proofs about the plans of the runtime and about the cached rules, for   *)
(* all strategies, markets, exchanges and limits and any number of         *)
(* refreshes.                                                              *)
(*                                                                         *)
(* Plans.  Components part the enabled strategies and their markets, since *)
(* the complement of a closed set is closed.  The packing loop is followed *)
(* strategy by strategy: PackedWell says what the shards are once the      *)
(* components led so far are packed, and a component that is met shares no *)
(* market with them.  Markets are cut into connections by their rank, and  *)
(* ranks number the markets without a gap, so that a chunk is neither      *)
(* empty nor too large.                                                    *)
(*                                                                         *)
(* Rules.  What a refresh stores it copied from the cache while the rule   *)
(* was there.                                                              *)
(***************************************************************************)
EXTENDS MarketRules, FiniteSetTheorems, SequenceTheorems,
        WellFoundedInduction, TLAPS

----------------------------------------------------------------------------
(* Induction over sets of naturals.                                        *)

(* A set of naturals has a least member.                                   *)
LEMMA LeastNatural ==
    ASSUME NEW T \in SUBSET Nat, T # {}
    PROVE  \E n \in T : \A m \in T : n <= m
<1> DEFINE R == {ss \in Nat \X Nat : ss[1] < ss[2]}
<1>1. IsWellFoundedOn(R, Nat)
    BY NatLessThanWellFounded DEF OpToRel
<1> HIDE DEF R
<1>2. PICK n \in T : \A m \in T : <<m, n>> \notin R
    BY <1>1, WFMin
<1>3. \A m \in T : ~(m < n)
    BY <1>2 DEF R
<1>4. QED
    BY <1>2, <1>3

(* A set that holds zero and every successor holds all naturals.           *)
LEMMA NaturalsAll ==
    ASSUME NEW T, 0 \in T, \A n \in Nat : n \in T => n + 1 \in T
    PROVE  Nat \subseteq T
<1> DEFINE U == Nat \ T
<1> SUFFICES ASSUME U # {} PROVE FALSE
    OBVIOUS
<1>1. PICK n \in U : \A m \in U : n <= m
    BY LeastNatural
<1>2. n # 0 /\ n - 1 \in Nat /\ n - 1 \notin U
    BY <1>1
<1>3. QED
    BY <1>2

(* The same up to a bound.                                                 *)
LEMMA FirstNaturalsAll ==
    ASSUME NEW T, NEW k \in Nat, 0 \in T,
           \A n \in 0..(k - 1) : n \in T => n + 1 \in T
    PROVE  0..k \subseteq T
<1> DEFINE U == {n \in Nat : n <= k => n \in T}
<1>1. 0 \in U /\ \A n \in Nat : n \in U => n + 1 \in U
    OBVIOUS
<1> HIDE DEF U
<1>2. Nat \subseteq U
    BY <1>1, NaturalsAll
<1>3. QED
    BY <1>2 DEF U

----------------------------------------------------------------------------
(* The components of build_components.                                     *)

(* Strategies share a market with each other.                              *)
LEMMA AdjacentSymmetric == \A s, t : Adjacent(s, t) <=> Adjacent(t, s)
BY DEF Adjacent

(* A component is closed and holds the strategy it was searched from.      *)
LEMMA ComponentClosed ==
    ASSUME NEW E, NEW s \in E
    PROVE  /\ s \in Component(E, s)
           /\ Component(E, s) \subseteq E
           /\ Closed(E, Component(E, s))
<1>1. s \in Component(E, s) /\ Component(E, s) \subseteq E
    BY DEF Component
<1>2. ASSUME NEW u \in Component(E, s), NEW t \in E, Adjacent(u, t)
      PROVE  t \in Component(E, s)
  <2>1. ASSUME NEW C \in SUBSET E, s \in C, Closed(E, C) PROVE t \in C
    <3>1. u \in C
      BY <1>2, <2>1 DEF Component
    <3>2. QED
      BY <1>2, <2>1, <3>1 DEF Closed
  <2>2. QED
    BY <2>1 DEF Component
<1>3. QED
    BY <1>1, <1>2 DEF Closed

(* What is outside a closed set is closed too: adjacency has no direction. *)
LEMMA ComplementClosed ==
    ASSUME NEW E, NEW C \in SUBSET E, Closed(E, C)
    PROVE  Closed(E, E \ C)
<1> SUFFICES ASSUME NEW s \in E \ C, NEW t \in E, Adjacent(s, t)
             PROVE  t \in E \ C
    BY DEF Closed
<1>1. Adjacent(t, s)
    BY AdjacentSymmetric
<1>2. t \notin C
    BY <1>1 DEF Closed
<1>3. QED
    BY <1>2

(* Two searches that meet visit the same strategies.                       *)
LEMMA ComponentsMeet ==
    ASSUME NEW E, NEW s \in E, NEW t \in E, NEW u \in Component(E, s),
           u \in Component(E, t)
    PROVE  Component(E, s) \subseteq Component(E, t)
<1> DEFINE C == Component(E, s)
           D == Component(E, t)
<1>1. C \in SUBSET E /\ D \in SUBSET E /\ Closed(E, D)
    BY ComponentClosed
<1>2. Closed(E, E \ D)
    BY <1>1, ComplementClosed
<1>3. s \in D
  <2>1. SUFFICES ASSUME s \notin D PROVE FALSE
    OBVIOUS
  <2>2. s \in E \ D /\ E \ D \in SUBSET E
    BY <2>1
  <2>3. u \in E \ D
    BY <1>2, <2>2 DEF Component
  <2>4. QED
    BY <2>3
<1>4. QED
    BY <1>1, <1>3 DEF Component

Components(E) == {Component(E, s) : s \in E}

(* The components of the enabled strategies part them and their markets:   *)
(* each enabled strategy is in one, and strategies of different components *)
(* have no market in common.  This is why "each strategy thread            *)
(* exclusively owns its markets" however components are packed into shards.*)
THEOREM ComponentsPart ==
    ASSUME NEW E \in SUBSET Strategy
    PROVE  /\ UNION Components(E) = E
           /\ \A C, D \in Components(E) :
                 C # D => C \cap D = {} /\ MarketsOf(C) \cap MarketsOf(D) = {}
<1>1. UNION Components(E) = E
    BY ComponentClosed DEF Components
<1>2. ASSUME NEW s \in E, NEW t \in E, NEW u \in Component(E, s),
             u \in Component(E, t)
      PROVE  Component(E, s) = Component(E, t)
    BY <1>2, ComponentsMeet
<1>3. ASSUME NEW s \in E, NEW t \in E,
             NEW u \in Component(E, s), NEW v \in Component(E, t),
             Adjacent(u, v)
      PROVE  Component(E, s) = Component(E, t)
  <2>1. v \in E /\ Closed(E, Component(E, s))
    BY ComponentClosed
  <2>2. v \in Component(E, s)
    BY <1>3, <2>1 DEF Closed
  <2>3. QED
    BY <1>2, <2>2
<1>4. ASSUME NEW C \in Components(E), NEW D \in Components(E), C # D
      PROVE  C \cap D = {} /\ MarketsOf(C) \cap MarketsOf(D) = {}
  <2>1. PICK s \in E, t \in E : C = Component(E, s) /\ D = Component(E, t)
    BY DEF Components
  <2>2. C \cap D = {}
    BY <1>2, <1>4, <2>1
  <2>3. ASSUME NEW m \in MarketsOf(C), m \in MarketsOf(D) PROVE FALSE
    <3>1. PICK u \in C, v \in D : m \in MarketKeys(u) /\ m \in MarketKeys(v)
      BY <2>3 DEF MarketsOf
    <3>2. Adjacent(u, v)
      BY <3>1 DEF Adjacent
    <3>3. QED
      BY <1>3, <1>4, <2>1, <3>2
  <2>4. QED
    BY <2>2, <2>3
<1>5. QED
    BY <1>1, <1>4

----------------------------------------------------------------------------
(* Packing: what the loop has made of the components it met.               *)

(* The loop, up to strategy k.                                             *)
Walks(E, g, k) ==
    g = [s \in 0..k |->
            IF s = 0 THEN <<>>
            ELSE IF Leads(E, s) THEN PackInto(g[s - 1], Component(E, s))
            ELSE g[s - 1]]

LEMMA WalkExists ==
    ASSUME NEW E, NEW n \in Nat
    PROVE  \E g : Walks(E, g, n)
<1> DEFINE T == {k \in Nat : \E g : Walks(E, g, k)}
<1>1. 0 \in T
  <2> DEFINE g == [s \in 0..0 |-> <<>>]
  <2>1. Walks(E, g, 0)
    BY DEF Walks
  <2>2. QED
    BY <2>1
<1>2. ASSUME NEW k \in Nat, k \in T PROVE k + 1 \in T
  <2>1. PICK g : Walks(E, g, k)
    BY <1>2
  <2> DEFINE next == IF Leads(E, k + 1)
                     THEN PackInto(g[k], Component(E, k + 1)) ELSE g[k]
             h == [s \in 0..(k + 1) |-> IF s <= k THEN g[s] ELSE next]
             f == [s \in 0..(k + 1) |->
                      IF s = 0 THEN <<>>
                      ELSE IF Leads(E, s)
                      THEN PackInto(h[s - 1], Component(E, s))
                      ELSE h[s - 1]]
  <2>2. ASSUME NEW s \in 0..(k + 1) PROVE h[s] = f[s]
    <3>1. CASE s = 0
      BY <2>1, <3>1 DEF Walks
    <3>2. CASE s \in 1..k
      <4>1. g[s] = IF Leads(E, s) THEN PackInto(g[s - 1], Component(E, s))
                   ELSE g[s - 1]
        BY <2>1, <3>2 DEF Walks
      <4>2. h[s - 1] = g[s - 1] /\ h[s] = g[s] /\ s # 0
        BY <3>2
      <4>3. QED
        BY <4>1, <4>2
    <3>3. CASE s = k + 1
      <4>1. h[s - 1] = g[k] /\ h[s] = next /\ s # 0
        BY <3>3
      <4>2. QED
        BY <3>3, <4>1
    <3>4. QED
      BY <3>1, <3>2, <3>3
  <2>3. h = f
    BY <2>2
  <2> HIDE DEF h
  <2>4. Walks(E, h, k + 1)
    BY <2>3 DEF Walks
  <2>5. QED
    BY <2>4
<1> HIDE DEF T
<1>3. Nat \subseteq T
    BY <1>1, <1>2, NaturalsAll
<1>4. QED
    BY <1>3 DEF T

(* Packed takes one strategy after the other.                              *)
LEMMA PackedUnfolds ==
    ASSUME NEW E
    PROVE  /\ Packed(E)[0] = <<>>
           /\ \A s \in 1..NumStrategies :
                 Packed(E)[s] =
                    IF Leads(E, s)
                    THEN PackInto(Packed(E)[s - 1], Component(E, s))
                    ELSE Packed(E)[s - 1]
<1> DEFINE P == Packed(E)
<1>1. P = CHOOSE g : Walks(E, g, NumStrategies)
    BY DEF Packed, Walks
<1>2. NumStrategies \in Nat
    BY PlannerAssumption
<1>3. Walks(E, P, NumStrategies)
    BY <1>1, <1>2, WalkExists
<1> HIDE DEF P
<1>4. /\ P[0] = <<>>
      /\ \A s \in 1..NumStrategies :
            P[s] = IF Leads(E, s) THEN PackInto(P[s - 1], Component(E, s))
                   ELSE P[s - 1]
    BY <1>2, <1>3 DEF Walks
<1>5. QED
    BY <1>4 DEF P

(* Markets of strategies.                                                  *)
LEMMA MarketsFacts ==
    ASSUME NEW A \in SUBSET Strategy, NEW B \in SUBSET Strategy
    PROVE  /\ MarketsOf(A) \subseteq Market
           /\ IsFiniteSet(A) /\ IsFiniteSet(MarketsOf(A))
           /\ Cardinality(MarketsOf(A)) \in Nat
           /\ MarketsOf(A \cup B) = MarketsOf(A) \cup MarketsOf(B)
           /\ A \subseteq B => Cardinality(MarketsOf(A)) <=
                                  Cardinality(MarketsOf(B))
<1>1. ASSUME NEW S \in SUBSET Strategy
      PROVE  /\ MarketsOf(S) \subseteq Market
             /\ IsFiniteSet(S) /\ IsFiniteSet(MarketsOf(S))
             /\ Cardinality(MarketsOf(S)) \in Nat
  <2>1. IsFiniteSet(Strategy)
    BY PlannerAssumption, FS_Interval DEF Strategy
  <2>2. IsFiniteSet(S)
    BY <2>1, FS_Subset
  <2> DEFINE keys == [s \in S |-> MarketKeys(s)]
             Keys == {MarketKeys(s) : s \in S}
  <2>3. IsFiniteSet(Keys)
    <3>1. keys \in Surjection(S, Keys)
      BY DEF Surjection
    <3>2. QED
      BY <2>2, <3>1, FS_Surjection
  <2>4. \A K \in Keys : IsFiniteSet(K)
    <3> SUFFICES ASSUME NEW s \in S PROVE IsFiniteSet(MarketKeys(s))
      OBVIOUS
    <3>1. IsFiniteSet({LongMarket[s]}) /\ IsFiniteSet({ShortMarket[s]})
      BY FS_Singleton
    <3>2. IsFiniteSet({LongMarket[s]} \cup {ShortMarket[s]})
      BY <3>1, FS_Union
    <3>3. MarketKeys(s) = {LongMarket[s]} \cup {ShortMarket[s]}
      BY DEF MarketKeys
    <3>4. QED
      BY <3>2, <3>3
  <2>5. IsFiniteSet(MarketsOf(S))
    BY <2>3, <2>4, FS_UNION DEF MarketsOf
  <2>6. MarketsOf(S) \subseteq Market
    BY PlannerAssumption DEF MarketsOf, MarketKeys
  <2>7. QED
    BY <2>2, <2>5, <2>6, FS_CardinalityType
<1>2. MarketsOf(A \cup B) = MarketsOf(A) \cup MarketsOf(B)
    BY DEF MarketsOf
<1>3. ASSUME A \subseteq B
      PROVE  Cardinality(MarketsOf(A)) <= Cardinality(MarketsOf(B))
  <2>1. MarketsOf(A) \subseteq MarketsOf(B)
    BY <1>3 DEF MarketsOf
  <2>2. QED
    BY <1>1, <2>1, FS_Subset
<1>4. QED
    BY <1>1, <1>2, <1>3

Meets(A, B) == MarketsOf(A) \cap MarketsOf(B) # {}

LEMMA MeetsEither ==
    ASSUME NEW A, NEW B, NEW D, ~Meets(A, B), ~Meets(A, D)
    PROVE  ~Meets(A, B \cup D) /\ ~Meets(B \cup D, A)
<1>1. MarketsOf(B \cup D) = MarketsOf(B) \cup MarketsOf(D)
    BY DEF MarketsOf
<1>2. QED
    BY <1>1 DEF Meets

(* What is packed once the components led by strategies up to k are.       *)
Led(E, k) == {t \in E : \E u \in 1..k : Leads(E, u) /\ t \in Component(E, u)}

(* The shards hold what is led so far, share no market, keep their limit   *)
(* unless they are one component, and no two neighbours could be one.      *)
PackedWell(E, k, shards) ==
    /\ shards \in Seq(SUBSET E)
    /\ \A t : t \in Led(E, k) <=> \E i \in DOMAIN shards : t \in shards[i]
    /\ \A i, j \in DOMAIN shards : i # j => ~Meets(shards[i], shards[j])
    /\ \A i \in DOMAIN shards :
          \/ shards[i] \in Components(E)
          \/ Cardinality(MarketsOf(shards[i])) <= MaxMarketsPerShard
    /\ \A i \in 2..Len(shards) :
          Cardinality(MarketsOf(shards[i - 1] \cup shards[i]))
              > MaxMarketsPerShard

(* A component that is met shares no market with the shards so far.        *)
LEMMA NextComponent ==
    ASSUME NEW E \in SUBSET Strategy, NEW s \in 1..NumStrategies, Leads(E, s),
           NEW A, A \subseteq Led(E, s - 1)
    PROVE  ~Meets(A, Component(E, s))
<1> SUFFICES ASSUME NEW m, m \in MarketsOf(A), m \in MarketsOf(Component(E, s))
             PROVE  FALSE
    BY DEF Meets
<1>1. PICK t \in A : m \in MarketKeys(t)
    BY DEF MarketsOf
<1>2. PICK u \in 1..(s - 1) : Leads(E, u) /\ t \in Component(E, u)
    BY <1>1 DEF Led
<1>3. m \in MarketsOf(Component(E, u))
    BY <1>1, <1>2 DEF MarketsOf
<1>4. Component(E, u) = Component(E, s)
  <2>1. Component(E, u) \in Components(E) /\ Component(E, s) \in Components(E)
    BY <1>2 DEF Components, Leads
  <2>2. QED
    BY <1>3, <2>1, ComponentsPart
<1>5. u \in Component(E, u) /\ s \in Component(E, s)
    BY <1>2, ComponentClosed DEF Leads
<1>6. s <= u /\ u \in Int /\ s \in Int /\ u <= s - 1
    BY <1>2, <1>4, <1>5, PlannerAssumption DEF Leads
<1>7. QED
    BY <1>6

LEMMA LedNext ==
    ASSUME NEW E \in SUBSET Strategy, NEW s \in 1..NumStrategies
    PROVE  Led(E, s) = IF Leads(E, s) THEN Led(E, s - 1) \cup Component(E, s)
                       ELSE Led(E, s - 1)
<1>1. 1..s = 1..(s - 1) \cup {s}
    BY PlannerAssumption
<1>2. Leads(E, s) => Component(E, s) \subseteq E
    BY ComponentClosed DEF Leads
<1>3. QED
    BY <1>1, <1>2 DEF Led

(* A component either joins the last shard or is the next one.             *)
Joins(E, shards, C, packed) ==
    /\ shards # <<>> /\ Fits(shards[Len(shards)], C)
    /\ packed \in Seq(SUBSET E) /\ Len(packed) = Len(shards)
    /\ \A i \in 1..(Len(shards) - 1) : packed[i] = shards[i]
    /\ packed[Len(shards)] = shards[Len(shards)] \cup C

Opens(E, shards, C, packed) ==
    /\ shards # <<>> => ~Fits(shards[Len(shards)], C)
    /\ packed \in Seq(SUBSET E) /\ Len(packed) = Len(shards) + 1
    /\ \A i \in 1..Len(shards) : packed[i] = shards[i]
    /\ packed[Len(shards) + 1] = C

LEMMA PackIntoFacts ==
    ASSUME NEW E, NEW shards \in Seq(SUBSET E), NEW C \in SUBSET E
    PROVE  \/ Joins(E, shards, C, PackInto(shards, C))
           \/ Opens(E, shards, C, PackInto(shards, C))
<1> DEFINE n == Len(shards)
           packed == PackInto(shards, C)
<1>1. n = Len(shards) /\ n \in Nat /\ DOMAIN shards = 1..n
    BY LenProperties
<1> HIDE DEF n
<1>2. CASE shards # <<>> /\ Fits(shards[n], C)
  <2>1. n \in 1..n
    BY <1>1, <1>2, EmptySeq
  <2>2. packed = [shards EXCEPT ![n] = shards[n] \cup C]
    BY <1>1, <1>2 DEF PackInto
  <2>3. shards[n] \cup C \in SUBSET E
    BY <1>1, <2>1, ElementOfSeq
  <2> HIDE DEF packed
  <2>4. /\ packed \in Seq(SUBSET E) /\ Len(packed) = n
    BY <1>1, <2>1, <2>2, <2>3, ExceptSeq
  <2>5. /\ packed[n] = shards[n] \cup C
        /\ \A i \in 1..(n - 1) : packed[i] = shards[i]
    <3>1. \A i \in 1..(n - 1) : i \in 1..n /\ i # n
      BY <1>1
    <3>2. QED
      BY <1>1, <2>1, <2>2, <3>1
  <2>6. QED
    BY <1>1, <1>2, <2>4, <2>5 DEF packed, Joins
<1>3. CASE ~(shards # <<>> /\ Fits(shards[n], C))
  <2>1. packed = Append(shards, C)
    BY <1>1, <1>3 DEF PackInto
  <2> HIDE DEF packed
  <2>2. /\ packed \in Seq(SUBSET E) /\ Len(packed) = n + 1
        /\ packed[n + 1] = C
        /\ \A i \in 1..n : packed[i] = shards[i]
    BY <1>1, <2>1, AppendProperties
  <2>3. QED
    BY <1>1, <1>3, <2>2 DEF packed, Opens
<1>4. QED
    BY <1>2, <1>3

(* Packing the component that s leads keeps what the shards are.           *)
LEMMA PackKeeps ==
    ASSUME NEW E \in SUBSET Strategy, NEW s \in 1..NumStrategies, Leads(E, s),
           NEW shards, PackedWell(E, s - 1, shards)
    PROVE  PackedWell(E, s, PackInto(shards, Component(E, s)))
<1> DEFINE C == Component(E, s)
           n == Len(shards)
           packed == PackInto(shards, C)
<1>1. /\ shards \in Seq(SUBSET E) /\ n \in Nat /\ DOMAIN shards = 1..n
      /\ n = Len(shards)
      /\ \A i \in 1..n : shards[i] \in SUBSET E
    BY LenProperties, ElementOfSeq DEF PackedWell
<1>2. /\ C \in SUBSET E /\ C \in Components(E)
    BY ComponentClosed DEF Leads, Components
<1>3. \A i \in 1..n : shards[i] \subseteq Led(E, s - 1)
    BY <1>1 DEF PackedWell
<1> HIDE DEF n
<1>4. \A i \in 1..n : ~Meets(shards[i], C) /\ ~Meets(C, shards[i])
  <2> SUFFICES ASSUME NEW i \in 1..n PROVE ~Meets(shards[i], C)
    BY DEF Meets
  <2>1. QED
    BY <1>3, NextComponent
<1>5. \A t : t \in Led(E, s) <=> (\E i \in 1..n : t \in shards[i]) \/ t \in C
    BY <1>1, LedNext DEF PackedWell
<1>6. \A i, j \in 1..n : i # j => ~Meets(shards[i], shards[j])
    BY <1>1 DEF PackedWell
<1>7. \A i \in 1..n : \/ shards[i] \in Components(E)
                      \/ Cardinality(MarketsOf(shards[i])) <= MaxMarketsPerShard
    BY <1>1 DEF PackedWell
<1>8. \A i \in 2..n : Cardinality(MarketsOf(shards[i - 1] \cup shards[i]))
                         > MaxMarketsPerShard
    BY <1>1 DEF PackedWell
<1> HIDE DEF C
<1>9. CASE Joins(E, shards, C, packed)
  <2> HIDE DEF packed
  <2>0. /\ shards # <<>> /\ Fits(shards[n], C)
        /\ packed \in Seq(SUBSET E) /\ Len(packed) = n
        /\ \A i \in 1..(n - 1) : packed[i] = shards[i]
        /\ packed[n] = shards[n] \cup C
    BY <1>1, <1>9 DEF Joins
  <2>1. DOMAIN packed = 1..n /\ n \in 1..n /\ 1..n = 1..(n - 1) \cup {n}
    BY <1>1, <2>0, LenProperties, EmptySeq
  <2>2. \A t : (\E i \in 1..n : t \in packed[i])
                 <=> (\E i \in 1..n : t \in shards[i]) \/ t \in C
    <3>1. \A i \in 1..n : packed[i] = IF i = n THEN shards[i] \cup C
                                      ELSE shards[i]
      BY <2>0, <2>1
    <3>2. QED
      BY <2>1, <3>1
  <2>3. ASSUME NEW i \in 1..n, NEW j \in 1..n, i # j
        PROVE  ~Meets(packed[i], packed[j])
    <3>1. \A A, B, D : ~Meets(A, B) /\ ~Meets(A, D) => /\ ~Meets(A, B \cup D)
                                                      /\ ~Meets(B \cup D, A)
      <4> TAKE A, B, D
      <4> HAVE ~Meets(A, B) /\ ~Meets(A, D)
      <4> QED
        BY MeetsEither, Zenon
    <3>2. ASSUME NEW k \in 1..(n - 1)
          PROVE  ~Meets(packed[k], packed[n]) /\ ~Meets(packed[n], packed[k])
      <4>1. ~Meets(shards[k], shards[n]) /\ ~Meets(shards[k], C) /\ k # n
        BY <1>4, <1>6, <2>1
      <4>2. packed[k] = shards[k] /\ packed[n] = shards[n] \cup C
        BY <2>0
      <4>3. QED
        BY <3>1, <4>1, <4>2
    <3>3. CASE i = n \/ j = n
      BY <2>1, <2>3, <3>2, <3>3
    <3>4. CASE i \in 1..(n - 1) /\ j \in 1..(n - 1)
      BY <1>6, <2>0, <2>3, <3>4
    <3>5. QED
      BY <2>1, <3>3, <3>4
  <2>4. ASSUME NEW i \in 1..n
        PROVE  \/ packed[i] \in Components(E)
               \/ Cardinality(MarketsOf(packed[i])) <= MaxMarketsPerShard
    BY <1>7, <2>0, <2>1 DEF Fits
  <2>5. ASSUME NEW i \in 2..n
        PROVE  Cardinality(MarketsOf(packed[i - 1] \cup packed[i]))
                  > MaxMarketsPerShard
    <3> DEFINE A == shards[i - 1] \cup shards[i]
               B == packed[i - 1] \cup packed[i]
    <3>1. i - 1 \in 1..(n - 1) /\ i \in 1..n /\ i - 1 \in 1..n
      BY <1>1
    <3>2. packed[i - 1] = shards[i - 1] /\ shards[i] \subseteq packed[i]
      BY <2>0, <2>1, <3>1
    <3>3. /\ A \subseteq B /\ A \in SUBSET Strategy /\ B \in SUBSET Strategy
      BY <1>1, <1>2, <2>0, <2>1, <3>1, <3>2
    <3>4. /\ Cardinality(MarketsOf(A)) <= Cardinality(MarketsOf(B))
          /\ Cardinality(MarketsOf(A)) \in Nat /\ Cardinality(MarketsOf(B)) \in Nat
      BY <3>3, MarketsFacts
    <3>5. Cardinality(MarketsOf(A)) > MaxMarketsPerShard
      BY <1>8
    <3>6. QED
      BY <3>4, <3>5, PlannerAssumption
  <2>6. PackedWell(E, s, packed)
    <3>1. \A t : t \in Led(E, s) <=> \E i \in DOMAIN packed : t \in packed[i]
      BY <1>5, <2>1, <2>2
    <3>2. \A i, j \in DOMAIN packed : i # j => ~Meets(packed[i], packed[j])
      BY <2>1, <2>3
    <3>3. \A i \in DOMAIN packed :
             \/ packed[i] \in Components(E)
             \/ Cardinality(MarketsOf(packed[i])) <= MaxMarketsPerShard
      BY <2>1, <2>4
    <3>4. \A i \in 2..Len(packed) :
             Cardinality(MarketsOf(packed[i - 1] \cup packed[i]))
                > MaxMarketsPerShard
      BY <2>0, <2>5
    <3>5. packed \in Seq(SUBSET E)
      BY <2>0
    <3>6. QED
      BY <3>1, <3>2, <3>3, <3>4, <3>5 DEF PackedWell
  <2>7. QED
    BY <2>6 DEF packed, C
<1>10. CASE Opens(E, shards, C, packed)
  <2> HIDE DEF packed
  <2>0. /\ shards # <<>> => ~Fits(shards[n], C)
        /\ packed \in Seq(SUBSET E) /\ Len(packed) = n + 1
        /\ \A i \in 1..n : packed[i] = shards[i]
        /\ packed[n + 1] = C
    BY <1>1, <1>10 DEF Opens
  <2>1. DOMAIN packed = 1..(n + 1) /\ 1..(n + 1) = 1..n \cup {n + 1}
    BY <1>1, <2>0, LenProperties
  <2>2. \A t : (\E i \in 1..(n + 1) : t \in packed[i])
                 <=> (\E i \in 1..n : t \in shards[i]) \/ t \in C
    BY <2>0, <2>1
  <2>3. ASSUME NEW i \in 1..(n + 1), NEW j \in 1..(n + 1), i # j
        PROVE  ~Meets(packed[i], packed[j])
    BY <1>4, <1>6, <2>0, <2>1, <2>3
  <2>4. ASSUME NEW i \in 1..(n + 1)
        PROVE  \/ packed[i] \in Components(E)
               \/ Cardinality(MarketsOf(packed[i])) <= MaxMarketsPerShard
    BY <1>2, <1>7, <2>0, <2>1
  <2>5. ASSUME NEW i \in 2..(n + 1)
        PROVE  Cardinality(MarketsOf(packed[i - 1] \cup packed[i]))
                  > MaxMarketsPerShard
    <3>1. CASE i \in 2..n
      <4>1. packed[i - 1] = shards[i - 1] /\ packed[i] = shards[i]
        BY <1>1, <2>0, <3>1
      <4>2. QED
        BY <1>8, <3>1, <4>1
    <3>2. CASE i = n + 1
      <4>1. n # 0 /\ i - 1 = n /\ n \in 1..n
        BY <1>1, <2>5, <3>2
      <4>2. shards # <<>>
        BY <1>1, <4>1, EmptySeq
      <4>3. packed[i - 1] = shards[n] /\ packed[i] = C
        BY <2>0, <3>2, <4>1
      <4>4. shards[n] \cup C \in SUBSET Strategy
        BY <1>1, <1>2, <4>1
      <4>5. Cardinality(MarketsOf(shards[n] \cup C)) \in Nat
        BY <4>4, MarketsFacts
      <4>6. QED
        BY <2>0, <4>2, <4>3, <4>5, PlannerAssumption DEF Fits
    <3>3. QED
      BY <1>1, <3>1, <3>2
  <2>6. PackedWell(E, s, packed)
    <3>1. \A t : t \in Led(E, s) <=> \E i \in DOMAIN packed : t \in packed[i]
      BY <1>5, <2>1, <2>2
    <3>2. \A i, j \in DOMAIN packed : i # j => ~Meets(packed[i], packed[j])
      BY <2>1, <2>3
    <3>3. \A i \in DOMAIN packed :
             \/ packed[i] \in Components(E)
             \/ Cardinality(MarketsOf(packed[i])) <= MaxMarketsPerShard
      BY <2>1, <2>4
    <3>4. \A i \in 2..Len(packed) :
             Cardinality(MarketsOf(packed[i - 1] \cup packed[i]))
                > MaxMarketsPerShard
      BY <2>0, <2>5
    <3>5. packed \in Seq(SUBSET E)
      BY <2>0
    <3>6. QED
      BY <3>1, <3>2, <3>3, <3>4, <3>5 DEF PackedWell
  <2>7. QED
    BY <2>6 DEF packed, C
<1>11. QED
    BY <1>1, <1>2, <1>9, <1>10, PackIntoFacts DEF C

LEMMA PackedAllWell ==
    ASSUME NEW E \in SUBSET Strategy
    PROVE  PackedWell(E, NumStrategies, Shards(E))
<1> DEFINE T == {k \in Nat : PackedWell(E, k, Packed(E)[k])}
<1>1. NumStrategies \in Nat
    BY PlannerAssumption
<1>2. 0 \in T
  <2>1. Led(E, 0) = {}
    BY DEF Led
  <2>2. PackedWell(E, 0, <<>>)
    BY <2>1, EmptySeq DEF PackedWell
  <2>3. QED
    BY <2>2, PackedUnfolds
<1>3. ASSUME NEW k \in 0..(NumStrategies - 1), k \in T PROVE k + 1 \in T
  <2> DEFINE s == k + 1
  <2>1. s \in 1..NumStrategies /\ s - 1 = k /\ k \in Nat
    BY <1>1
  <2> HIDE DEF s
  <2>2. PackedWell(E, s - 1, Packed(E)[s - 1])
    BY <1>3, <2>1
  <2>3. ASSUME Leads(E, s) PROVE PackedWell(E, s, Packed(E)[s])
    <3>1. Packed(E)[s] = PackInto(Packed(E)[s - 1], Component(E, s))
      BY <2>1, <2>3, PackedUnfolds
    <3>2. QED
      BY <2>1, <2>2, <2>3, <3>1, PackKeeps
  <2>4. ASSUME ~Leads(E, s) PROVE PackedWell(E, s, Packed(E)[s])
    <3>1. Led(E, s) = Led(E, s - 1) /\ Packed(E)[s] = Packed(E)[s - 1]
      BY <2>1, <2>4, LedNext, PackedUnfolds
    <3>2. PackedWell(E, s - 1, Packed(E)[s])
      BY <2>2, <3>1
    <3>3. QED
      BY <3>1, <3>2, Zenon DEF PackedWell
  <2>5. s \in Nat /\ PackedWell(E, s, Packed(E)[s])
    BY <2>1, <2>3, <2>4
  <2>6. s \in T
    BY <2>5
  <2>7. QED
    BY <2>6 DEF s
<1> HIDE DEF T
<1>4. 0..NumStrategies \subseteq T
    BY <1>1, <1>2, <1>3, FirstNaturalsAll
<1>5. NumStrategies \in T
    BY <1>1, <1>4
<1>6. QED
    BY <1>5 DEF T, Shards

(* Every component has a first strategy, so that nothing is left out.      *)
LEMMA AllLed == ASSUME NEW E \in SUBSET Strategy PROVE Led(E, NumStrategies) = E
<1> SUFFICES ASSUME NEW t \in E
             PROVE  \E u \in 1..NumStrategies :
                       Leads(E, u) /\ t \in Component(E, u)
  <2>1. Led(E, NumStrategies) \subseteq E
    BY DEF Led
  <2>2. QED
    BY <2>1 DEF Led
<1> DEFINE C == Component(E, t)
<1>1. C \in SUBSET Nat /\ C # {} /\ C \subseteq E
  <2>1. Strategy \subseteq Nat
    BY PlannerAssumption DEF Strategy
  <2>2. t \in C /\ C \subseteq E
    BY ComponentClosed
  <2>3. QED
    BY <2>1, <2>2
<1> HIDE DEF C
<1>2. PICK u \in C : \A v \in C : u <= v
    BY <1>1, LeastNatural
<1>3. u \in E /\ u \in Component(E, u) /\ t \in C
    BY <1>1, <1>2, ComponentClosed DEF C
<1>4. Component(E, u) = C
  <2>1. Component(E, u) \subseteq C /\ C \subseteq Component(E, u)
    BY <1>2, <1>3, ComponentsMeet DEF C
  <2>2. QED
    BY <2>1
<1>5. Leads(E, u) /\ t \in Component(E, u) /\ u \in 1..NumStrategies
    BY <1>2, <1>3, <1>4 DEF Leads, Strategy
<1>6. QED
    BY <1>5

----------------------------------------------------------------------------
(* Cutting the markets of a shard into connections.                        *)

(* How many members of a set come before a market.                         *)
Rank(S, m) == Cardinality({n \in S : n < m})

(* Ranks number a finite set of naturals without a gap.                    *)
LEMMA RankFacts ==
    ASSUME NEW S \in SUBSET Nat, IsFiniteSet(S)
    PROVE  /\ Cardinality(S) \in Nat
           /\ \A m \in S : Rank(S, m) \in 0..(Cardinality(S) - 1)
           /\ \A m, n \in S : Rank(S, m) = Rank(S, n) => m = n
           /\ \A r \in 0..(Cardinality(S) - 1) : \E m \in S : Rank(S, m) = r
<1> DEFINE Below(m) == {n \in S : n < m}
           ranks == 0..(Cardinality(S) - 1)
           rank == [m \in S |-> Rank(S, m)]
<1>1. Cardinality(S) \in Nat
    BY FS_CardinalityType
<1>2. ASSUME NEW m \in S
      PROVE  /\ IsFiniteSet(Below(m)) /\ Rank(S, m) = Cardinality(Below(m))
             /\ Rank(S, m) \in ranks
  <2>1. Below(m) \in SUBSET S /\ Below(m) # S
    OBVIOUS
  <2>2. IsFiniteSet(Below(m)) /\ Cardinality(Below(m)) \in Nat
    BY <2>1, FS_Subset, FS_CardinalityType
  <2>3. /\ Cardinality(Below(m)) <= Cardinality(S)
        /\ Cardinality(Below(m)) # Cardinality(S)
    BY <2>1, FS_Subset
  <2>4. Rank(S, m) = Cardinality(Below(m))
    BY DEF Rank
  <2>5. QED
    BY <1>1, <2>2, <2>3, <2>4
<1>3. ASSUME NEW m \in S, NEW n \in S, m < n PROVE Rank(S, m) # Rank(S, n)
  <2>1. Below(m) \in SUBSET Below(n) /\ m \in Below(n) /\ m \notin Below(m)
    <3>1. \A l \in S : l < m => l < n
      <4>1. \A i, j, l \in Nat : l < i /\ i < j => l < j
        OBVIOUS
      <4>2. QED
        BY <1>3, <4>1
    <3>2. m < n /\ ~(m < m)
      BY <1>3
    <3>3. QED
      BY <3>1, <3>2
  <2> HIDE DEF Below
  <2>2. Cardinality(Below(n)) # Cardinality(Below(m))
    BY <1>2, <2>1, FS_Subset
  <2>3. QED
    BY <1>2, <2>2
<1>4. \A m, n \in S : Rank(S, m) = Rank(S, n) => m = n
  <2> SUFFICES ASSUME NEW m \in S, NEW n \in S, m # n
               PROVE  Rank(S, m) # Rank(S, n)
    OBVIOUS
  <2>1. m < n \/ n < m
    OBVIOUS
  <2>2. QED
    BY <1>3, <2>1
<1>5. IsFiniteSet(ranks) /\ Cardinality(ranks) = Cardinality(S)
  <2>1. 0 \in Int /\ Cardinality(S) - 1 \in Int
    BY <1>1
  <2>2. /\ IsFiniteSet(ranks)
        /\ Cardinality(ranks) = IF 0 > Cardinality(S) - 1 THEN 0
                                ELSE (Cardinality(S) - 1) - 0 + 1
    BY <2>1, FS_Interval
  <2> HIDE DEF ranks
  <2>3. QED
    BY <1>1, <2>2
<1>6. rank \in Injection(S, ranks)
  <2>1. rank \in [S -> ranks]
    BY <1>2
  <2>2. \A m, n \in S : rank[m] = rank[n] => m = n
    BY <1>4
  <2>3. QED
    BY <2>1, <2>2 DEF Injection, IsInjective
<1> HIDE DEF ranks
<1>7. rank \in Surjection(S, ranks)
    BY <1>5, <1>6, FS_Injection
<1>8. \A r \in ranks : \E m \in S : Rank(S, m) = r
    BY <1>7 DEF Surjection
<1>9. QED
    BY <1>1, <1>2, <1>4, <1>8 DEF ranks

LEMMA Quotients ==
    ASSUME NEW a \in Nat, NEW b \in Nat \ {0}
    PROVE  /\ a \div b \in Nat
           /\ (a \div b) * b <= a /\ a < (a \div b) * b + b
           /\ (a * b) \div b = a
OBVIOUS

LEMMA QuotientsGrow ==
    ASSUME NEW k \in Nat, NEW a \in Nat, NEW b \in Nat \ {0}, k <= a \div b
    PROVE  k * b <= a
<1>1. a \div b \in Nat /\ (a \div b) * b <= a
    BY Quotients
<1>2. \A q, d \in Nat : k <= q => k * d <= q * d /\ k * d \in Nat /\ q * d \in Nat
    OBVIOUS
<1>3. QED
    BY <1>1, <1>2

(* Each market is in one chunk; no chunk is empty or too large.            *)
LEMMA ChunkFacts ==
    ASSUME NEW S \in SUBSET Nat, IsFiniteSet(S), S # {}, NEW e \in Exchange
    PROVE  LET last == (Cardinality(S) - 1) \div MaxSymbols[e]
           IN  /\ \A m \in S : \E k \in 0..last : m \in Chunk(S, e, k)
               /\ \A k \in 0..last :
                     /\ Chunk(S, e, k) # {}
                     /\ Cardinality(Chunk(S, e, k)) <= MaxSymbols[e]
<1> DEFINE size == MaxSymbols[e]
           top == Cardinality(S) - 1
<1>1. size \in Nat \ {0}
    BY PlannerAssumption
<1>2. top \in Nat
    BY RankFacts, FS_EmptySet
<1>3. \A m, k : m \in Chunk(S, e, k) <=> m \in S /\ Rank(S, m) \div size = k
    BY DEF Chunk, Rank
<1>4. /\ \A m \in S : Rank(S, m) \in 0..top
      /\ \A m, n \in S : Rank(S, m) = Rank(S, n) => m = n
      /\ \A r \in 0..top : \E m \in S : Rank(S, m) = r
    BY RankFacts
<1> HIDE DEF size, top
<1>5. ASSUME NEW m \in S PROVE \E k \in 0..(top \div size) : m \in Chunk(S, e, k)
  <2> DEFINE r == Rank(S, m)
             k == r \div size
  <2>1. r \in Nat /\ r <= top
    BY <1>2, <1>4
  <2>2. /\ k \in Nat /\ k * size <= r
        /\ top \div size \in Nat /\ top < (top \div size) * size + size
    BY <1>1, <1>2, <2>1, Quotients
  <2>3. k <= top \div size
    <3>1. \A p, q, d \in Nat : p >= q + 1 => p * d >= q * d + d
      OBVIOUS
    <3>2. k * size \in Nat /\ (top \div size) * size \in Nat
      BY <1>1, <2>2
    <3>3. QED
      BY <1>1, <1>2, <2>1, <2>2, <3>1, <3>2
  <2>4. m \in Chunk(S, e, k)
    BY <1>3
  <2> HIDE DEF k
  <2>5. QED
    BY <2>2, <2>3, <2>4
<1>6. ASSUME NEW k \in 0..(top \div size)
      PROVE  Chunk(S, e, k) # {} /\ Cardinality(Chunk(S, e, k)) <= size
  <2>1. k \in Nat /\ k <= top \div size /\ top \div size \in Nat
    BY <1>1, <1>2, Quotients
  <2>2. k * size \in 0..top /\ (k * size) \div size = k
    BY <1>1, <1>2, <2>1, Quotients, QuotientsGrow
  <2>3. Chunk(S, e, k) # {}
    BY <1>3, <1>4, <2>2
  <2> DEFINE C == Chunk(S, e, k)
             T == (k * size)..(k * size + size - 1)
             f == [m \in C |-> Rank(S, m)]
  <2>4. ASSUME NEW m \in C PROVE m \in S /\ Rank(S, m) \in T
    <3>1. m \in S /\ Rank(S, m) \in Nat /\ Rank(S, m) \div size = k
      <4>1. m \in S /\ Rank(S, m) \div size = k
        BY <1>3, <2>4
      <4>2. Rank(S, m) \in 0..top
        BY <1>4, <4>1
      <4>3. QED
        BY <1>2, <4>1, <4>2
    <3>2. k * size <= Rank(S, m) /\ Rank(S, m) < k * size + size
      BY <1>1, <3>1, Quotients
    <3>3. k * size \in Nat
      BY <1>1, <2>1
    <3>4. QED
      BY <1>1, <3>1, <3>2, <3>3
  <2>5. IsFiniteSet(T) /\ Cardinality(T) = size
    <3>1. /\ k * size \in Int /\ k * size + size - 1 \in Int
          /\ (k * size + size - 1) - k * size + 1 = size
          /\ ~(k * size > k * size + size - 1)
      BY <1>1, <2>2
    <3>2. QED
      BY <3>1, FS_Interval
  <2> HIDE DEF C, T
  <2>6. f \in Injection(C, T)
    <3>1. f \in [C -> T]
      BY <2>4
    <3>2. \A m, n \in C : f[m] = f[n] => m = n
      BY <1>4, <2>4
    <3>3. QED
      BY <3>1, <3>2 DEF Injection, IsInjective
  <2>7. Cardinality(C) <= Cardinality(T)
    BY <2>5, <2>6, FS_Injection
  <2>8. QED
    BY <2>3, <2>5, <2>7 DEF C
<1>7. QED
    BY <1>5, <1>6 DEF size, top

(* The markets of a shard on one exchange.                                 *)
On(shard, e) == {m \in MarketsOf(shard) : ExchangeOf[m] = e}

LEMMA ConnectionIs ==
    ASSUME NEW i, NEW shard, NEW c
    PROVE  c \in ConnectionsOf(i, shard) <=>
              \E m \in MarketsOf(shard) :
                 LET e == ExchangeOf[m]
                 IN  \E k \in 0..((Cardinality(On(shard, e)) - 1)
                                     \div MaxSymbols[e]) :
                        c = [shard |-> i, exchange |-> e,
                             markets |-> Chunk(On(shard, e), e, k)]
<1> DEFINE LastCut(e) == (Cardinality(On(shard, e)) - 1) \div MaxSymbols[e]
           Cut(e) == {[shard |-> i, exchange |-> e,
                       markets |-> Chunk(On(shard, e), e, k)] :
                         k \in 0..LastCut(e)}
           exchanges == {ExchangeOf[m] : m \in MarketsOf(shard)}
<1>1. ConnectionsOf(i, shard) = UNION {Cut(e) : e \in exchanges}
    BY DEF ConnectionsOf, On
<1> HIDE DEF Cut
<1>2. c \in ConnectionsOf(i, shard) <=> \E m \in MarketsOf(shard) :
                                           c \in Cut(ExchangeOf[m])
    BY <1>1
<1>3. QED
    BY <1>2 DEF Cut

LEMMA OnFacts ==
    ASSUME NEW shard \in SUBSET Strategy, NEW m \in MarketsOf(shard)
    PROVE  /\ ExchangeOf[m] \in Exchange
           /\ On(shard, ExchangeOf[m]) \in SUBSET Nat
           /\ IsFiniteSet(On(shard, ExchangeOf[m]))
           /\ m \in On(shard, ExchangeOf[m])
<1>1. MarketsOf(shard) \subseteq Market /\ IsFiniteSet(MarketsOf(shard))
    BY MarketsFacts
<1>2. On(shard, ExchangeOf[m]) \in SUBSET MarketsOf(shard)
    BY DEF On
<1>3. ExchangeOf[m] \in Exchange /\ Market \subseteq Nat
    BY <1>1, PlannerAssumption
<1>4. IsFiniteSet(On(shard, ExchangeOf[m]))
    BY <1>1, <1>2, FS_Subset
<1>5. QED
    BY <1>1, <1>2, <1>3, <1>4 DEF On

(* A connection has some markets of its shard and its exchange, not too    *)
(* many.                                                                   *)
LEMMA ConnectionFacts ==
    ASSUME NEW i, NEW shard \in SUBSET Strategy,
           NEW c \in ConnectionsOf(i, shard)
    PROVE  /\ c.shard = i
           /\ c.markets # {}
           /\ c.markets \subseteq MarketsOf(shard)
           /\ \A m \in c.markets : ExchangeOf[m] = c.exchange
           /\ Cardinality(c.markets) <= MaxSymbols[c.exchange]
<1>1. PICK m \in MarketsOf(shard) :
         \E k \in 0..((Cardinality(On(shard, ExchangeOf[m])) - 1)
                         \div MaxSymbols[ExchangeOf[m]]) :
            c = [shard |-> i, exchange |-> ExchangeOf[m],
                 markets |-> Chunk(On(shard, ExchangeOf[m]), ExchangeOf[m], k)]
    BY ConnectionIs
<1> DEFINE e == ExchangeOf[m]
           S == On(shard, e)
<1>2. PICK k \in 0..((Cardinality(S) - 1) \div MaxSymbols[e]) :
         c = [shard |-> i, exchange |-> e, markets |-> Chunk(S, e, k)]
    BY <1>1
<1>3. e \in Exchange /\ S \in SUBSET Nat /\ IsFiniteSet(S) /\ S # {}
    BY OnFacts
<1>4. S \subseteq MarketsOf(shard) /\ \A n \in S : ExchangeOf[n] = e
    BY DEF On
<1> HIDE DEF S, e
<1>5. Chunk(S, e, k) # {} /\ Cardinality(Chunk(S, e, k)) <= MaxSymbols[e]
    BY <1>3, ChunkFacts
<1>6. Chunk(S, e, k) \subseteq S
    BY DEF Chunk
<1>7. QED
    BY <1>2, <1>4, <1>5, <1>6

(* Each market of a shard is on exactly one of its connections.            *)
LEMMA FedOnce ==
    ASSUME NEW i, NEW shard \in SUBSET Strategy, NEW m \in MarketsOf(shard)
    PROVE  \E c \in ConnectionsOf(i, shard) :
              /\ m \in c.markets
              /\ \A d \in ConnectionsOf(i, shard) : m \in d.markets => d = c
<1> DEFINE e == ExchangeOf[m]
           S == On(shard, e)
<1>1. e \in Exchange /\ S \in SUBSET Nat /\ IsFiniteSet(S) /\ m \in S
    BY OnFacts
<1>2. PICK k \in 0..((Cardinality(S) - 1) \div MaxSymbols[e]) :
         m \in Chunk(S, e, k)
  <2> HIDE DEF S, e
  <2>1. QED
    BY <1>1, ChunkFacts
<1> DEFINE c == [shard |-> i, exchange |-> e, markets |-> Chunk(S, e, k)]
<1>3. c \in ConnectionsOf(i, shard)
    BY ConnectionIs
<1>4. ASSUME NEW d \in ConnectionsOf(i, shard), m \in d.markets PROVE d = c
  <2>1. PICK n \in MarketsOf(shard) :
           \E l \in 0..((Cardinality(On(shard, ExchangeOf[n])) - 1)
                           \div MaxSymbols[ExchangeOf[n]]) :
              d = [shard |-> i, exchange |-> ExchangeOf[n],
                   markets |-> Chunk(On(shard, ExchangeOf[n]),
                                     ExchangeOf[n], l)]
    BY ConnectionIs
  <2>2. PICK l : d = [shard |-> i, exchange |-> ExchangeOf[n],
                      markets |-> Chunk(On(shard, ExchangeOf[n]),
                                        ExchangeOf[n], l)]
    BY <2>1
  <2>3. ExchangeOf[n] = e
    BY <1>4, <2>2 DEF Chunk, On
  <2>4. m \in Chunk(S, e, l)
    BY <1>4, <2>2, <2>3
  <2>5. k = l
    BY <1>2, <2>4 DEF Chunk
  <2>6. QED
    BY <2>2, <2>3, <2>5
<1> HIDE DEF c
<1>5. m \in c.markets
    BY <1>2 DEF c
<1>6. QED
    BY <1>3, <1>4, <1>5

----------------------------------------------------------------------------
(* The plan.                                                               *)

LEMMA PlanFacts ==
    ASSUME NEW E \in SUBSET Strategy
    PROVE  /\ Shards(E) \in Seq(SUBSET Strategy)
           /\ DOMAIN Plan(E).shards = DOMAIN Shards(E)
           /\ DOMAIN Shards(E) = 1..Len(Shards(E))
           /\ Len(Plan(E).shards) = Len(Shards(E))
           /\ Len(Shards(E)) \in Nat
           /\ \A i \in DOMAIN Shards(E) :
                 /\ Shards(E)[i] \in SUBSET E
                 /\ Plan(E).shards[i].strategies = Shards(E)[i]
                 /\ Plan(E).shards[i].markets = MarketsOf(Shards(E)[i])
           /\ \A c : c \in Plan(E).connections <=>
                 \E i \in DOMAIN Shards(E) : c \in ConnectionsOf(i, Shards(E)[i])
<1> DEFINE shards == Shards(E)
           planned == [i \in DOMAIN shards |->
                         [strategies |-> shards[i],
                          markets |-> MarketsOf(shards[i])]]
<1>1. shards \in Seq(SUBSET E)
    BY PackedAllWell DEF PackedWell
<1>2. /\ Len(shards) \in Nat /\ DOMAIN shards = 1..Len(shards)
      /\ \A i \in DOMAIN shards : shards[i] \in SUBSET E
    BY <1>1, LenProperties, ElementOfSeq
<1>3. shards \in Seq(SUBSET Strategy)
  <2>1. shards \in [1..Len(shards) -> SUBSET E]
    BY <1>1, LenProperties
  <2>2. shards \in [1..Len(shards) -> SUBSET Strategy]
    BY <2>1
  <2>3. QED
    BY <1>2, <2>2, SeqDef
<1>4. /\ Plan(E).shards = planned
      /\ Plan(E).connections =
            UNION {ConnectionsOf(i, shards[i]) : i \in DOMAIN shards}
    BY DEF Plan
<1> HIDE DEF shards
<1>5. Len(planned) = Len(shards)
    BY <1>2
<1>6. \A i \in DOMAIN shards :
         /\ planned[i].strategies = shards[i]
         /\ planned[i].markets = MarketsOf(shards[i])
    OBVIOUS
<1>7. DOMAIN planned = DOMAIN shards
    OBVIOUS
<1> HIDE DEF planned
<1>8. \A c : c \in Plan(E).connections <=>
         \E i \in DOMAIN shards : c \in ConnectionsOf(i, shards[i])
    BY <1>4
<1>9. QED
    BY <1>2, <1>3, <1>4, <1>5, <1>6, <1>7, <1>8 DEF shards

(* Shards have neither strategies nor markets in common.                   *)
LEMMA ShardsApart ==
    ASSUME NEW E \in SUBSET Strategy
    PROVE  /\ \A s : s \in E <=> \E i \in DOMAIN Shards(E) : s \in Shards(E)[i]
           /\ \A i, j \in DOMAIN Shards(E) :
                 i # j => /\ Shards(E)[i] \cap Shards(E)[j] = {}
                          /\ MarketsOf(Shards(E)[i])
                                \cap MarketsOf(Shards(E)[j]) = {}
<1>1. PackedWell(E, NumStrategies, Shards(E)) /\ Led(E, NumStrategies) = E
    BY PackedAllWell, AllLed
<1>2. \A s : s \in E <=> \E i \in DOMAIN Shards(E) : s \in Shards(E)[i]
    BY <1>1 DEF PackedWell
<1>3. \A i, j \in DOMAIN Shards(E) :
         i # j => MarketsOf(Shards(E)[i]) \cap MarketsOf(Shards(E)[j]) = {}
    BY <1>1 DEF PackedWell, Meets
<1>4. \A A, B : MarketsOf(A) \cap MarketsOf(B) = {} => A \cap B = {}
  <2> TAKE A, B
  <2> SUFFICES ASSUME NEW s \in A, s \in B
               PROVE  MarketsOf(A) \cap MarketsOf(B) # {}
    OBVIOUS
  <2>1. LongMarket[s] \in MarketsOf(A) /\ LongMarket[s] \in MarketsOf(B)
    BY DEF MarketsOf, MarketKeys
  <2>2. QED
    BY <2>1
<1>5. QED
    BY <1>2, <1>3, <1>4

LEMMA FedStrategies ==
    ASSUME NEW E \in SUBSET Strategy PROVE StrategiesFed(Plan(E), E)
<1> DEFINE shards == Shards(E)
           p == Plan(E)
<1>1. /\ DOMAIN p.shards = DOMAIN shards
      /\ \A i \in DOMAIN shards : /\ shards[i] \in SUBSET Strategy
                                  /\ p.shards[i].strategies = shards[i]
                                  /\ p.shards[i].markets = MarketsOf(shards[i])
      /\ \A c : c \in p.connections <=>
            \E i \in DOMAIN shards : c \in ConnectionsOf(i, shards[i])
    BY PlanFacts
<1>2. /\ \A s : s \in E <=> \E i \in DOMAIN shards : s \in shards[i]
      /\ \A i, j \in DOMAIN shards : i # j => shards[i] \cap shards[j] = {}
    BY ShardsApart
<1> HIDE DEF shards, p
<1>3. UNION {p.shards[i].strategies : i \in DOMAIN p.shards} = E
    BY <1>1, <1>2
<1>4. ASSUME NEW i \in DOMAIN shards, NEW m \in MarketsOf(shards[i])
      PROVE  Cardinality(Feeds(p, i, m)) = 1
  <2>1. PICK c \in ConnectionsOf(i, shards[i]) :
           /\ m \in c.markets
           /\ \A d \in ConnectionsOf(i, shards[i]) : m \in d.markets => d = c
    BY <1>1, FedOnce
  <2>2. \A j \in DOMAIN shards : \A d \in ConnectionsOf(j, shards[j]) :
           d.shard = j
    BY <1>1, ConnectionFacts
  <2>3. Feeds(p, i, m) = {c}
    <3>1. \A d \in Feeds(p, i, m) : d = c
      BY <1>1, <2>1, <2>2 DEF Feeds
    <3>2. c \in Feeds(p, i, m)
      BY <1>1, <2>1, <2>2 DEF Feeds
    <3>3. QED
      BY <3>1, <3>2
  <2>4. QED
    BY <2>3, FS_Singleton
<1>5. ASSUME NEW s \in E
      PROVE  \E i \in DOMAIN p.shards :
                /\ s \in RunBy(p.shards[i])
                /\ \A j \in DOMAIN p.shards \ {i} : s \notin p.shards[j].strategies
                /\ \A m \in MarketKeys(s) : Cardinality(Feeds(p, i, m)) = 1
  <2>1. PICK i \in DOMAIN shards : s \in shards[i]
    BY <1>2
  <2>2. MarketKeys(s) \subseteq MarketsOf(shards[i])
    BY <2>1 DEF MarketsOf
  <2>3. s \in RunBy(p.shards[i])
    BY <1>1, <2>1, <2>2 DEF RunBy
  <2>4. \A j \in DOMAIN p.shards \ {i} : s \notin p.shards[j].strategies
    BY <1>1, <1>2, <2>1
  <2>5. QED
    BY <1>1, <1>4, <2>2, <2>3, <2>4
<1>6. QED
    BY <1>3, <1>5 DEF StrategiesFed, p

(* No market is read for two shards: every market belongs to one.          *)
LEMMA OwnedMarkets ==
    ASSUME NEW E \in SUBSET Strategy PROVE MarketsOwned(Plan(E))
<1> DEFINE shards == Shards(E)
           p == Plan(E)
<1>1. /\ DOMAIN p.shards = DOMAIN shards
      /\ \A i \in DOMAIN shards : /\ shards[i] \in SUBSET Strategy
                                  /\ p.shards[i].markets = MarketsOf(shards[i])
      /\ \A c : c \in p.connections <=>
            \E i \in DOMAIN shards : c \in ConnectionsOf(i, shards[i])
    BY PlanFacts
<1>2. \A i, j \in DOMAIN shards :
         i # j => MarketsOf(shards[i]) \cap MarketsOf(shards[j]) = {}
    BY ShardsApart
<1> HIDE DEF shards, p
<1>3. ASSUME NEW c \in p.connections, NEW d \in p.connections,
             NEW m, m \in c.markets, m \in d.markets
      PROVE  c = d
  <2>1. PICK i \in DOMAIN shards : c \in ConnectionsOf(i, shards[i])
    BY <1>1
  <2>2. PICK j \in DOMAIN shards : d \in ConnectionsOf(j, shards[j])
    BY <1>1
  <2>3. m \in MarketsOf(shards[i]) /\ m \in MarketsOf(shards[j])
    BY <1>1, <1>3, <2>1, <2>2, ConnectionFacts
  <2>4. i = j
    BY <1>2, <2>3
  <2>5. PICK b \in ConnectionsOf(i, shards[i]) :
           \A a \in ConnectionsOf(i, shards[i]) : m \in a.markets => a = b
    BY <1>1, <2>3, FedOnce
  <2>6. QED
    BY <1>3, <2>1, <2>2, <2>4, <2>5
<1>4. \A c \in p.connections : c.markets \subseteq p.shards[c.shard].markets
  <2> SUFFICES ASSUME NEW c \in p.connections
               PROVE  c.markets \subseteq p.shards[c.shard].markets
    OBVIOUS
  <2>1. PICK i \in DOMAIN shards : c \in ConnectionsOf(i, shards[i])
    BY <1>1
  <2>2. c.shard = i /\ c.markets \subseteq MarketsOf(shards[i])
    BY <1>1, <2>1, ConnectionFacts
  <2>3. QED
    BY <1>1, <2>2
<1>5. QED
    BY <1>1, <1>2, <1>3, <1>4 DEF MarketsOwned, p

(* A component cannot be split: a part that has no market in common with   *)
(* the rest is closed, so that the search would have stopped there.        *)
LEMMA ComponentWhole ==
    ASSUME NEW E \in SUBSET Strategy, NEW C \in Components(E),
           NEW part \in SUBSET C, part # {}, part # C
    PROVE  MarketsOf(part) \cap MarketsOf(C \ part) # {}
<1> SUFFICES ASSUME MarketsOf(part) \cap MarketsOf(C \ part) = {} PROVE FALSE
    OBVIOUS
<1>1. PICK s \in E : C = Component(E, s)
    BY DEF Components
<1>2. s \in C /\ C \in SUBSET E /\ Closed(E, C)
    BY <1>1, ComponentClosed
<1>3. \A u \in part, v \in C \ part : ~Adjacent(u, v) /\ ~Adjacent(v, u)
    BY DEF Adjacent, MarketsOf
<1>4. Closed(E, part) /\ Closed(E, C \ part)
    BY <1>2, <1>3 DEF Closed
<1>5. \A D \in SUBSET E : s \in D /\ Closed(E, D) => C \subseteq D
    BY <1>1 DEF Component
<1>6. part \in SUBSET E /\ C \ part \in SUBSET E
    BY <1>2
<1>7. CASE s \in part
    BY <1>4, <1>5, <1>6, <1>7
<1>8. CASE s \notin part
    BY <1>2, <1>4, <1>5, <1>6, <1>8
<1>9. QED
    BY <1>7, <1>8

(* The plan keeps to the capacity of a shard unless it had to split.       *)
LEMMA PlanFits ==
    ASSUME NEW E \in SUBSET Strategy PROVE WithinCapacity(Plan(E))
<1> DEFINE shards == Shards(E)
           p == Plan(E)
<1>1. /\ DOMAIN p.shards = DOMAIN shards /\ DOMAIN shards = 1..Len(shards)
      /\ Len(p.shards) = Len(shards) /\ Len(shards) \in Nat
      /\ \A i \in DOMAIN shards : /\ shards[i] \in SUBSET Strategy
                                  /\ p.shards[i].strategies = shards[i]
                                  /\ p.shards[i].markets = MarketsOf(shards[i])
      /\ \A c : c \in p.connections <=>
            \E i \in DOMAIN shards : c \in ConnectionsOf(i, shards[i])
    BY PlanFacts
<1>2. /\ \A i \in DOMAIN shards :
            \/ shards[i] \in Components(E)
            \/ Cardinality(MarketsOf(shards[i])) <= MaxMarketsPerShard
      /\ \A i \in 2..Len(shards) :
            Cardinality(MarketsOf(shards[i - 1] \cup shards[i]))
                > MaxMarketsPerShard
    BY PackedAllWell DEF PackedWell
<1> HIDE DEF shards, p
<1>3. ASSUME NEW i \in DOMAIN shards,
             Cardinality(MarketsOf(shards[i])) > MaxMarketsPerShard,
             NEW part \in SUBSET shards[i], part \notin {{}, shards[i]}
      PROVE  MarketsOf(part) \cap MarketsOf(shards[i] \ part) # {}
  <2>1. Cardinality(MarketsOf(shards[i])) \in Nat
    BY <1>1, MarketsFacts
  <2>2. shards[i] \in Components(E)
    BY <1>2, <1>3, <2>1, PlannerAssumption
  <2>3. QED
    BY <1>3, <2>2, ComponentWhole
<1>4. ASSUME NEW c \in p.connections
      PROVE  /\ c.markets # {}
             /\ \A m \in c.markets : ExchangeOf[m] = c.exchange
             /\ Cardinality(c.markets) <= MaxSymbols[c.exchange]
  <2>1. PICK i \in DOMAIN shards : c \in ConnectionsOf(i, shards[i])
    BY <1>1
  <2>2. QED
    BY <1>1, <2>1, ConnectionFacts
<1>5. ASSUME NEW i \in 2..Len(p.shards)
      PROVE  Cardinality(p.shards[i - 1].markets \cup p.shards[i].markets)
                > MaxMarketsPerShard
  <2>1. i \in 2..Len(shards) /\ i - 1 \in DOMAIN shards /\ i \in DOMAIN shards
    BY <1>1
  <2>2. MarketsOf(shards[i - 1] \cup shards[i]) =
           MarketsOf(shards[i - 1]) \cup MarketsOf(shards[i])
    BY <1>1, <2>1, MarketsFacts
  <2>3. QED
    BY <1>1, <1>2, <2>1, <2>2
<1>6. \A i \in DOMAIN p.shards :
         Cardinality(p.shards[i].markets) > MaxMarketsPerShard =>
            \A part \in SUBSET p.shards[i].strategies :
               part \notin {{}, p.shards[i].strategies} =>
                  MarketsOf(part) \cap
                      MarketsOf(p.shards[i].strategies \ part) # {}
    BY <1>1, <1>3
<1>7. WithinCapacity(p)
    BY <1>4, <1>5, <1>6 DEF WithinCapacity
<1>8. QED
    BY <1>7 DEF p

----------------------------------------------------------------------------
(* The updates and the refreshes.                                          *)

(* The plan is always that of the enabled strategies.                      *)
IInv == TypeOK /\ plan = Plan(enabled)

(* The locals of a refresh.                                                *)
Locals == [pc : {"spawned", "reading", "fetching", "done"},
           watched : SUBSET Market,
           at : 1..(Len(Exchanges) + 1),
           next : SUBSET Market]

LEMMA NewTaskLocals ==
    ASSUME NEW pc \in {"spawned", "done"}
    PROVE  NewTask(pc) \in Locals /\ NewTask(pc).pc = pc
<1>1. Len(Exchanges) \in Nat
    BY RulesAssumption, LenProperties
<1>2. 1 \in 1..(Len(Exchanges) + 1)
    BY <1>1
<1>3. QED
    BY <1>2 DEF NewTask, Locals

LEMMA InitIInv == Init => IInv
<1> SUFFICES ASSUME Init PROVE IInv
    OBVIOUS
<1>1. task \in [Task -> Locals]
    BY NewTaskLocals DEF Init
<1>2. updates \in 0..(MaxUpdates + 1)
    BY RulesAssumption DEF Init
<1>3. QED
    BY <1>1, <1>2 DEF Init, IInv, TypeOK, Locals

(* A rule stays kept when the step leaves it cached and watched, and the   *)
(* refresh that moves has it among its locals where Kept asks for it.      *)
LEMMA KeptSteps ==
    ASSUME NEW t \in Task, NEW m, Kept(m), m \in watched', m \in rules',
           \A u \in Task \ {t} : task'[u] = task[u],
           task'[t].pc \in {"reading", "fetching"} => m \in task'[t].watched,
           task'[t].pc = "fetching" => m \in task'[t].next
    PROVE  Kept(m)'
<1>1. ASSUME NEW u \in Task
      PROVE  /\ task'[u].pc \in {"reading", "fetching"} =>
                    m \in task'[u].watched
             /\ task'[u].pc = "fetching" => m \in task'[u].next
  <2>1. CASE u = t
    BY <2>1
  <2>2. CASE u # t
    BY <2>2 DEF Kept
  <2>3. QED
    BY <2>1, <2>2
<1>2. QED
    BY <1>1 DEF Kept

(* An update: a rule that stays watched stays kept, the new refresh has    *)
(* read nothing yet.                                                       *)
LEMMA LoadSteps ==
    ASSUME IInv, NEW t \in Task, NEW strategies \in SUBSET Strategy,
           updates \in 1..(MaxUpdates + 1), Load(t, strategies)
    PROVE  /\ IInv'
           /\ \A m \in Market : Kept(m) => Kept(m)' \/ m \notin watched'
<1>1. /\ task' = [task EXCEPT ![t] = NewTask("spawned")]
      /\ rules' = rules /\ updates' = updates - 1
      /\ enabled' = strategies /\ plan' = Plan(strategies)
      /\ watched' = UNION {plan'.shards[i].markets : i \in DOMAIN plan'.shards}
    BY DEF Load
<1>2. task \in [Task -> Locals]
    BY DEF IInv, TypeOK, Locals
<1>3. /\ task' \in [Task -> Locals] /\ task'[t].pc = "spawned"
      /\ \A u \in Task \ {t} : task'[u] = task[u]
    BY <1>1, <1>2, NewTaskLocals
<1>4. ASSUME NEW i \in DOMAIN Plan(strategies).shards
      PROVE  Plan(strategies).shards[i].markets \subseteq Market
    BY PlanFacts, MarketsFacts
<1>5. watched' \subseteq Market
    BY <1>1, <1>4
<1>6. updates' \in 0..(MaxUpdates + 1)
    BY <1>1, RulesAssumption
<1>7. IInv'
    BY <1>1, <1>3, <1>5, <1>6 DEF IInv, TypeOK, Locals
<1>8. ASSUME NEW m \in Market, Kept(m), m \in watched' PROVE Kept(m)'
  <2>1. m \in rules'
    BY <1>1, <1>8 DEF Kept
  <2>2. QED
    BY <1>3, <1>8, <2>1, KeptSteps
<1>9. QED
    BY <1>7, <1>8

(* Refreshes leave what the planner decides alone.                         *)
LEMMA RefreshIInv ==
    ASSUME IInv, UNCHANGED <<planVars, watched>>, rules' \subseteq Market,
           task' \in [Task -> Locals]
    PROVE  IInv'
BY DEF IInv, TypeOK, Locals, planVars

(* The end of a refresh leaves no locals.                                  *)
LEMMA EndSteps ==
    ASSUME IInv, NEW t \in Task, EndRefresh(t), UNCHANGED watched
    PROVE  /\ task' \in [Task -> Locals]
           /\ \A m : Kept(m) /\ m \in rules' => Kept(m)'
<1>1. PICK pc \in {"spawned", "done"} :
         task' = [task EXCEPT ![t] = NewTask(pc)]
    BY DEF EndRefresh
<1>2. /\ task' \in [Task -> Locals]
      /\ task'[t].pc \notin {"reading", "fetching"}
      /\ \A u \in Task \ {t} : task'[u] = task[u]
  <2>1. task \in [Task -> Locals]
    BY DEF IInv, TypeOK, Locals
  <2>2. QED
    BY <1>1, <2>1, NewTaskLocals
<1>3. ASSUME NEW m, Kept(m), m \in rules' PROVE Kept(m)'
  <2>1. m \in watched'
    BY <1>3 DEF Kept
  <2>2. QED
    BY <1>2, <1>3, <2>1, KeptSteps
<1>4. QED
    BY <1>2, <1>3

(* A step of a refresh that only moves it on.                              *)
LEMMA MoveSteps ==
    ASSUME NEW t \in Task, UNCHANGED <<watched, rules>>,
           \A u \in Task \ {t} : task'[u] = task[u],
           \A m : Kept(m) =>
              /\ task'[t].pc \in {"reading", "fetching"} =>
                    m \in task'[t].watched
              /\ task'[t].pc = "fetching" => m \in task'[t].next
    PROVE  \A m : Kept(m) => Kept(m)'
<1> SUFFICES ASSUME NEW m, Kept(m) PROVE Kept(m)'
    OBVIOUS
<1>1. m \in watched' /\ m \in rules'
    BY DEF Kept
<1>2. QED
    BY <1>1, KeptSteps

(* No step of a refresh takes a kept rule away: what it stores, it copied  *)
(* from the cache while the rule was there, and the rule is watched in its *)
(* eyes too.                                                               *)
LEMMA RefreshSteps ==
    ASSUME IInv, NEW t \in Task, Refresh(t)
    PROVE  /\ IInv'
           /\ \A m : Kept(m) => Kept(m)'
<1> DEFINE o == task[t]
           n == task'[t]
<1>1. \A m : Kept(m) =>
         /\ m \in watched /\ m \in rules
         /\ o.pc \in {"reading", "fetching"} => m \in o.watched
         /\ o.pc = "fetching" => m \in o.next
    BY DEF Kept
<1>2. /\ task \in [Task -> Locals] /\ o \in Locals
      /\ watched \subseteq Market /\ rules \subseteq Market
    BY DEF IInv, TypeOK, Locals
<1>3. CASE FinishEmpty(t)
  <2>1. EndRefresh(t) /\ UNCHANGED <<planVars, watched, rules>>
    BY <1>3 DEF FinishEmpty
  <2>2. task' \in [Task -> Locals] /\ \A m : Kept(m) => Kept(m)'
    BY <2>1, EndSteps DEF Kept
  <2>3. QED
    BY <1>2, <2>1, <2>2, RefreshIInv
<1>4. CASE ReadWatched(t)
  <2>1. /\ task' \in [Task -> Locals] /\ UNCHANGED <<planVars, watched, rules>>
        /\ \A u \in Task \ {t} : task'[u] = task[u]
        /\ n.pc = "reading" /\ n.watched = watched
    BY <1>2, <1>4 DEF ReadWatched, Locals
  <2>2. QED
    BY <1>1, <1>2, <2>1, MoveSteps, RefreshIInv
<1>5. CASE ReadRules(t)
  <2>1. /\ task' \in [Task -> Locals] /\ UNCHANGED <<planVars, watched, rules>>
        /\ \A u \in Task \ {t} : task'[u] = task[u]
        /\ n.pc = "fetching" /\ n.watched = o.watched /\ n.next = rules
        /\ o.pc = "reading"
    BY <1>2, <1>5 DEF ReadRules, Locals
  <2>2. QED
    BY <1>1, <1>2, <2>1, MoveSteps, RefreshIInv
<1>6. CASE SkipExchange(t)
  <2>1. o.pc = "fetching" /\ o.at + 1 \in 1..(Len(Exchanges) + 1)
    BY <1>2, <1>6, RulesAssumption, LenProperties
       DEF SkipExchange, Fetching, Locals
  <2>2. /\ task' \in [Task -> Locals] /\ UNCHANGED <<planVars, watched, rules>>
        /\ \A u \in Task \ {t} : task'[u] = task[u]
        /\ n.pc = "fetching" /\ n.watched = o.watched /\ n.next = o.next
    BY <1>2, <1>6, <2>1 DEF SkipExchange, Locals
  <2>3. QED
    BY <1>1, <1>2, <2>1, <2>2, MoveSteps, RefreshIInv
<1>7. CASE FetchRules(t)
  <2> DEFINE more == Symbols(t) \cap Listed
  <2>1. o.pc = "fetching" /\ o.at + 1 \in 1..(Len(Exchanges) + 1)
    BY <1>2, <1>7, RulesAssumption, LenProperties
       DEF FetchRules, Fetching, Locals
  <2>2. /\ task' = [task EXCEPT ![t].at = @ + 1, ![t].next = @ \cup more]
        /\ UNCHANGED <<planVars, watched, rules>>
    BY <1>7 DEF FetchRules
  <2>3. o.next \cup more \subseteq Market
    BY <1>2, RulesAssumption DEF Locals
  <2> HIDE DEF more
  <2>4. /\ task' \in [Task -> Locals]
        /\ \A u \in Task \ {t} : task'[u] = task[u]
        /\ n.pc = o.pc /\ n.watched = o.watched /\ n.next = o.next \cup more
    BY <1>2, <2>1, <2>2, <2>3 DEF Locals
  <2>5. QED
    BY <1>1, <1>2, <2>1, <2>2, <2>4, MoveSteps, RefreshIInv
<1>8. CASE StoreRules(t)
  <2>1. /\ EndRefresh(t) /\ UNCHANGED <<planVars, watched>>
        /\ o.pc = "fetching" /\ rules' = o.next \cap o.watched
    BY <1>8 DEF StoreRules
  <2>2. \A m : Kept(m) => m \in rules'
    BY <1>1, <2>1
  <2>3. task' \in [Task -> Locals] /\ \A m : Kept(m) => Kept(m)'
    BY <2>1, <2>2, EndSteps
  <2>4. rules' \subseteq Market
    BY <1>2, <2>1 DEF Locals
  <2>5. QED
    BY <2>1, <2>3, <2>4, RefreshIInv
<1>9. QED
    BY <1>3, <1>4, <1>5, <1>6, <1>7, <1>8 DEF Refresh

LEMMA NextSteps ==
    ASSUME IInv, [Next]_vars
    PROVE  /\ IInv'
           /\ \A m \in Market : Kept(m) => Kept(m)' \/ m \notin watched'
<1>1. CASE UNCHANGED vars
    BY <1>1 DEF vars, planVars, IInv, TypeOK, Kept
<1>2. CASE \E t \in OneShot : Bootstrap(t) \/ Update(t)
  <2>1. PICK t \in Task : \E strategies \in SUBSET Strategy :
           Load(t, strategies) /\ updates \in 1..(MaxUpdates + 1)
    BY <1>2, RulesAssumption DEF Bootstrap, Update, Task
  <2>2. QED
    BY <2>1, LoadSteps
<1>3. CASE \E t \in Task : Refresh(t)
    BY <1>3, RefreshSteps
<1>4. QED
    BY <1>1, <1>2, <1>3 DEF Next

----------------------------------------------------------------------------
(* The inductive invariant of updates and refreshes.                       *)
THEOREM Invariance == Spec => []IInv
BY InitIInv, NextSteps, PTL DEF Spec

(* What is watched, cached and on its way are markets, and no refresh asks *)
(* past the last exchange.                                                 *)
THEOREM TypeCorrectness == Spec => []TypeOK
<1>1. IInv => TypeOK
    BY DEF IInv
<1>2. QED
    BY <1>1, Invariance, PTL

(* Whatever is enabled: the plan runs just that, each strategy on one      *)
(* shard to which one connection each brings its two markets, and no two   *)
(* shards or connections have a market in common.                          *)
THEOREM PlansSound == Spec => []PlanSound
<1>1. IInv => PlanSound
    BY FedStrategies, OwnedMarkets DEF IInv, TypeOK, PlanSound
<1>2. QED
    BY <1>1, Invariance, PTL

(* Whatever is enabled: the limits of shards and connections are kept but  *)
(* for components that alone are beyond them, and no neighbours would fit  *)
(* one shard.                                                              *)
THEOREM PlansWithinCapacity == Spec => []PlanWithinCapacity
<1>1. IInv => PlanWithinCapacity
    BY PlanFits DEF IInv, TypeOK, PlanWithinCapacity
<1>2. QED
    BY <1>1, Invariance, PTL

(* Nothing but an update that unwatches it takes a kept rule away: neither *)
(* exchanges that fail nor refreshes that overtake each other.             *)
THEOREM RulesSurvive == Spec => RulesSurviveFailures
<1>1. ASSUME IInv, [Next]_vars
      PROVE  [\A m \in Market : Kept(m) => Kept(m)' \/ m \notin watched']_vars
    BY <1>1, NextSteps
<1>2. QED
    BY <1>1, Invariance, PTL DEF Spec, RulesSurviveFailures
=============================================================================
