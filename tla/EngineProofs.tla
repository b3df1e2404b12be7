---------------------------- MODULE EngineProofs ----------------------------
(***************************************************************************)
(* Proofs about what a shard worker does with its books: ShardEngine, its  *)
(* loop over strategies, and DepthMatch, the plan of one evaluation; for   *)
(* every number of strategies and markets, all ladders, caps, queues,      *)
(* prices, quantities, levels and rules.                                   *)
(*                                                                         *)
(* Exposure.  A strategy's committed notional is bounded by what the       *)
(* ladder allows at the best spread so far, which no later plan lowers.    *)
(*                                                                         *)
(* Accounting.  What the orders in the queue add up to, per leg, is no     *)
(* more than what their strategy counts as pending: a commit accounts for  *)
(* a pair before any of it is enqueued, and a sum over a queue changes by  *)
(* the order that is appended or taken.                                    *)
(*                                                                         *)
(* Notional.  On each action one leg sells, down the bids.  Its last price *)
(* is its lowest, so that its whole quantity at that price is worth at     *)
(* most what was matched; rounding only lowers the quantity, and the plan  *)
(* counts the smaller of the two orders.                                   *)
(*                                                                         *)
(* Depth.  What has been matched and what is left of a leg's level add up  *)
(* to the notional of its levels so far, and likewise for quantities: a    *)
(* pass extends that prefix by one level, and what stops the loop is the   *)
(* target or the end of a book.                                            *)
(*                                                                         *)
(* Induction.  A set of naturals that is not empty has a least element;    *)
(* with that, what holds of a sum over any finite set is proved from what  *)
(* holds of the sums over its proper parts.  Induction is over sets and    *)
(* not over predicates, so that its lemmas need no operator as parameter.  *)
(***************************************************************************)
EXTENDS ShardEngine, DepthMatch, FiniteSetTheorems, SequenceTheorems,
        WellFoundedInduction, TLAPS

----------------------------------------------------------------------------
(* Induction.                                                              *)

(* A set of naturals has a least member.                                   *)
LEMMA LeastNatural ==
    ASSUME NEW T \in SUBSET Nat, T # {}
    PROVE  \E n \in T : \A m \in T : n <= m
<1> DEFINE R == {ss \in Nat \X Nat : ss[1] < ss[2]}
<1>1. IsWellFoundedOn(R, Nat)
    BY NatLessThanWellFounded DEF OpToRel
<1> HIDE DEF R
<1>2. PICK n \in T : \A m \in T : <<m, n>> \notin R
    BY <1>1, WFMin
<1>3. \A m \in T : ~(m < n)
    BY <1>2 DEF R
<1>4. QED
    BY <1>2, <1>3

(* A set that holds zero and every successor holds all naturals.           *)
LEMMA NaturalsAll ==
    ASSUME NEW T, 0 \in T, \A n \in Nat : n \in T => n + 1 \in T
    PROVE  Nat \subseteq T
<1> DEFINE U == Nat \ T
<1> SUFFICES ASSUME U # {} PROVE FALSE
    OBVIOUS
<1>1. PICK n \in U : \A m \in U : n <= m
    BY LeastNatural
<1>2. n # 0 /\ n - 1 \in Nat /\ n - 1 \notin U
    BY <1>1
<1>3. QED
    BY <1>2

(* The same up to a bound.                                                 *)
LEMMA FirstNaturalsAll ==
    ASSUME NEW T, NEW k \in Nat, 0 \in T,
           \A n \in 0..(k - 1) : n \in T => n + 1 \in T
    PROVE  0..k \subseteq T
<1> DEFINE U == {n \in Nat : n <= k => n \in T}
<1>1. 0 \in U /\ \A n \in Nat : n \in U => n + 1 \in U
    OBVIOUS
<1> HIDE DEF U
<1>2. Nat \subseteq U
    BY <1>1, NaturalsAll
<1>3. QED
    BY <1>2 DEF U

(* Every part of a finite set is reached from its proper parts.            *)
LEMMA SubsetsAll ==
    ASSUME NEW S, IsFiniteSet(S), NEW F,
           \A s \in SUBSET S :
              (\A t \in SUBSET s : t # s => t \in F) => s \in F
    PROVE  SUBSET S \subseteq F
<1> DEFINE U == {n \in Nat :
                  \E s \in SUBSET S : s \notin F /\ Cardinality(s) = n}
<1>1. \A s \in SUBSET S : IsFiniteSet(s) /\ Cardinality(s) \in Nat
    BY FS_Subset, FS_CardinalityType
<1> SUFFICES ASSUME NEW r \in SUBSET S, r \notin F PROVE FALSE
    OBVIOUS
<1>2. U # {} /\ U \in SUBSET Nat
    BY <1>1
<1>3. PICK n \in U : \A m \in U : n <= m
    BY <1>2, LeastNatural
<1>4. PICK s \in SUBSET S : s \notin F /\ Cardinality(s) = n
    BY <1>3
<1>5. ASSUME NEW t \in SUBSET s, t # s PROVE t \in F
  <2>1. Cardinality(t) <= Cardinality(s) /\ Cardinality(t) # Cardinality(s)
    BY <1>1, <1>5, FS_Subset
  <2>2. t \in SUBSET S /\ Cardinality(t) \notin U /\ Cardinality(t) \in Nat
    BY <1>1, <1>3, <1>4, <2>1
  <2>3. QED
    BY <2>2
<1>6. QED
    BY <1>4, <1>5

----------------------------------------------------------------------------
(* Sums: the recursion of SumFunctionOnSet is well-founded on finite sets. *)

(* The member a fold takes next.                                           *)
Pick(s) == CHOOSE x \in s : TRUE

(* The recursive function behind a sum over S and its parts.               *)
Unfolds(f, S, g) ==
    g = [s \in SUBSET S |->
            IF s = {} THEN 0 ELSE f[Pick(s)] + g[s \ {Pick(s)}]]

LEMMA SumIsFold ==
    ASSUME NEW f, NEW S
    PROVE  SumFunctionOnSet(f, S) = (CHOOSE g : Unfolds(f, S, g))[S]
BY Zenon DEF SumFunctionOnSet, Unfolds, Pick, FoldFunctionOnSet, MapThenFoldSet

LEMMA PickIn ==
    ASSUME NEW s, s # {}
    PROVE  Pick(s) \in s /\ s \ {Pick(s)} \in SUBSET s /\ s \ {Pick(s)} # s
BY DEF Pick

LEMMA UnfoldsAt ==
    ASSUME NEW f, NEW S, NEW g, Unfolds(f, S, g), NEW s \in SUBSET S
    PROVE  g[s] = IF s = {} THEN 0 ELSE f[Pick(s)] + g[s \ {Pick(s)}]
<1> DEFINE h == [t \in SUBSET S |->
            IF t = {} THEN 0 ELSE f[Pick(t)] + g[t \ {Pick(t)}]]
<1>1. g = h
    BY DEF Unfolds
<1>2. h[s] = IF s = {} THEN 0 ELSE f[Pick(s)] + g[s \ {Pick(s)}]
    OBVIOUS
<1> HIDE DEF h
<1>3. QED
    BY <1>1, <1>2

(* A part of a finite set has the same sum in the recursion of the whole.  *)
LEMMA UnfoldsAgree ==
    ASSUME NEW f, NEW S, IsFiniteSet(S), NEW T \in SUBSET S,
           NEW g, Unfolds(f, S, g), NEW h, Unfolds(f, T, h)
    PROVE  \A s \in SUBSET T : g[s] = h[s]
<1> DEFINE F == {s \in SUBSET T : g[s] = h[s]}
<1>1. IsFiniteSet(T)
    BY FS_Subset
<1>2. ASSUME NEW s \in SUBSET T, \A t \in SUBSET s : t # s => t \in F
      PROVE  s \in F
  <2>1. /\ g[s] = IF s = {} THEN 0 ELSE f[Pick(s)] + g[s \ {Pick(s)}]
        /\ h[s] = IF s = {} THEN 0 ELSE f[Pick(s)] + h[s \ {Pick(s)}]
    <3>1. s \in SUBSET S
      OBVIOUS
    <3>2. g[s] = IF s = {} THEN 0 ELSE f[Pick(s)] + g[s \ {Pick(s)}]
      BY <3>1, UnfoldsAt
    <3>3. h[s] = IF s = {} THEN 0 ELSE f[Pick(s)] + h[s \ {Pick(s)}]
      BY UnfoldsAt
    <3>4. QED
      BY <3>2, <3>3
  <2>2. s # {} => g[s \ {Pick(s)}] = h[s \ {Pick(s)}]
    BY <1>2, PickIn
  <2>3. QED
    BY <2>1, <2>2
<1> HIDE DEF F
<1>3. SUBSET T \subseteq F
    BY <1>1, <1>2, SubsetsAll
<1>4. QED
    BY <1>3 DEF F

(* The recursion has a solution on every finite set, so that CHOOSE finds  *)
(* one.                                                                    *)
LEMMA UnfoldsSomehow ==
    ASSUME NEW f, NEW S, IsFiniteSet(S)
    PROVE  \A T \in SUBSET S : \E g : Unfolds(f, T, g)
<1> DEFINE F == {T \in SUBSET S : \E g : Unfolds(f, T, g)}
<1>1. ASSUME NEW T \in SUBSET S, \A t \in SUBSET T : t # T => t \in F
      PROVE  T \in F
  <2> DEFINE G(t) == CHOOSE g : Unfolds(f, t, g)
             g == [s \in SUBSET T |->
                      IF s = {} THEN 0
                      ELSE f[Pick(s)] + G(s \ {Pick(s)})[s \ {Pick(s)}]]
  <2>1. \A t \in SUBSET T : t # T => Unfolds(f, t, G(t))
    BY <1>1
  <2>2. ASSUME NEW s \in SUBSET T, s # {}
        PROVE  g[s \ {Pick(s)}] = G(s \ {Pick(s)})[s \ {Pick(s)}]
    <3> DEFINE r == s \ {Pick(s)}
    <3>1. r \in SUBSET s /\ r # T /\ r \in SUBSET T /\ IsFiniteSet(r)
      BY <2>2, PickIn, FS_Subset
    <3>2. Unfolds(f, r, G(r)) /\ r \in SUBSET r
      BY <2>1, <3>1
    <3> HIDE DEF G, r
    <3>3. G(r)[r] = IF r = {} THEN 0 ELSE f[Pick(r)] + G(r)[r \ {Pick(r)}]
      BY <3>2, UnfoldsAt
    <3>4. ASSUME r # {}
          PROVE  G(r)[r \ {Pick(r)}] = G(r \ {Pick(r)})[r \ {Pick(r)}]
      <4> DEFINE q == r \ {Pick(r)}
      <4>1. q \in SUBSET r /\ q # T /\ q \in SUBSET T
        BY <3>1, <3>4, PickIn
      <4>2. Unfolds(f, q, G(q)) /\ q \in SUBSET q
        BY <2>1, <4>1
      <4> HIDE DEF q
      <4>3. G(r)[q] = G(q)[q]
        BY <3>1, <3>2, <4>1, <4>2, UnfoldsAgree
      <4>4. QED
        BY <4>3 DEF q
    <3>5. g[r] = IF r = {} THEN 0
                 ELSE f[Pick(r)] + G(r \ {Pick(r)})[r \ {Pick(r)}]
      BY <3>1
    <3>6. QED
      BY <3>3, <3>4, <3>5 DEF r
  <2> HIDE DEF G
  <2>3. Unfolds(f, T, g)
    BY <2>2 DEF Unfolds
  <2>4. QED
    BY <2>3
<1> HIDE DEF F
<1>2. SUBSET S \subseteq F
    BY <1>1, SubsetsAll
<1>3. QED
    BY <1>2 DEF F

(* A sum takes one index after the other.                                  *)
LEMMA SumUnfolds ==
    ASSUME NEW f, NEW S, IsFiniteSet(S)
    PROVE  SumFunctionOnSet(f, S) =
              IF S = {} THEN 0 ELSE f[Pick(S)] + SumFunctionOnSet(f, S \ {Pick(S)})
<1> DEFINE T == S \ {Pick(S)}
           g == CHOOSE g : Unfolds(f, S, g)
           h == CHOOSE h : Unfolds(f, T, h)
<1>1. T \in SUBSET S /\ S \in SUBSET S /\ T \in SUBSET T
    OBVIOUS
<1>2. Unfolds(f, S, g) /\ Unfolds(f, T, h)
    BY <1>1, UnfoldsSomehow
<1>3. SumFunctionOnSet(f, S) = g[S] /\ SumFunctionOnSet(f, T) = h[T]
    BY SumIsFold
<1> HIDE DEF T, g, h
<1>4. g[T] = h[T]
    BY <1>1, <1>2, UnfoldsAgree
<1>5. \A s \in SUBSET S :
         g[s] = IF s = {} THEN 0 ELSE f[Pick(s)] + g[s \ {Pick(s)}]
    BY <1>2, UnfoldsAt
<1>6. g[S] = IF S = {} THEN 0 ELSE f[Pick(S)] + g[T]
    BY <1>1, <1>5 DEF T
<1>7. QED
    BY <1>3, <1>4, <1>6 DEF T

LEMMA SumEmpty == \A f : SumFunctionOnSet(f, {}) = 0
BY SumUnfolds, FS_EmptySet

(* A finite set of indexes whose values are natural.                       *)
NaturalOn(f, S) == IsFiniteSet(S) /\ \A i \in S : f[i] \in Nat

LEMMA NaturalOnPart ==
    ASSUME NEW f, NEW S, NaturalOn(f, S), NEW T \in SUBSET S
    PROVE  NaturalOn(f, T)
BY FS_Subset DEF NaturalOn

(* Sums of naturals are natural.                                           *)
LEMMA SumNatural ==
    ASSUME NEW f, NEW S, NaturalOn(f, S)
    PROVE  SumFunctionOnSet(f, S) \in Nat
<1> DEFINE F == {T \in SUBSET S : SumFunctionOnSet(f, T) \in Nat}
<1>1. ASSUME NEW T \in SUBSET S, \A t \in SUBSET T : t # T => t \in F
      PROVE  T \in F
  <2>1. NaturalOn(f, T)
    BY NaturalOnPart
  <2>2. CASE T = {}
    BY <2>2, SumEmpty
  <2>3. CASE T # {}
    <3>1. f[Pick(T)] \in Nat /\ SumFunctionOnSet(f, T \ {Pick(T)}) \in Nat
      BY <1>1, <2>1, <2>3, PickIn DEF NaturalOn
    <3>2. SumFunctionOnSet(f, T) = f[Pick(T)] + SumFunctionOnSet(f, T \ {Pick(T)})
      BY <2>1, <2>3, SumUnfolds DEF NaturalOn
    <3>3. QED
      BY <3>1, <3>2
  <2>4. QED
    BY <2>2, <2>3
<1>2. IsFiniteSet(S)
    BY DEF NaturalOn
<1> HIDE DEF F
<1>3. SUBSET S \subseteq F
    BY <1>1, <1>2, SubsetsAll
<1>4. QED
    BY <1>3 DEF F

(* Any index may be taken first.                                           *)
LEMMA SumRemoves ==
    ASSUME NEW f, NEW S, NaturalOn(f, S), NEW x \in S
    PROVE  /\ SumFunctionOnSet(f, S) = f[x] + SumFunctionOnSet(f, S \ {x})
           /\ f[x] \in Nat /\ SumFunctionOnSet(f, S \ {x}) \in Nat
<1> DEFINE F == {T \in SUBSET S : \A y \in T :
                    SumFunctionOnSet(f, T) = f[y] + SumFunctionOnSet(f, T \ {y})}
<1>1. \A T \in SUBSET S : NaturalOn(f, T) /\ SumFunctionOnSet(f, T) \in Nat
    BY NaturalOnPart, SumNatural
<1>2. ASSUME NEW T \in SUBSET S, \A t \in SUBSET T : t # T => t \in F
      PROVE  T \in F
  <2> SUFFICES ASSUME NEW y \in T
               PROVE  SumFunctionOnSet(f, T) = f[y] + SumFunctionOnSet(f, T \ {y})
    OBVIOUS
  <2> DEFINE p == Pick(T)
             U == (T \ {p}) \ {y}
  <2>1. p \in T
    BY PickIn
  <2>2. SumFunctionOnSet(f, T) = f[p] + SumFunctionOnSet(f, T \ {p})
    BY <1>1, <2>1, SumUnfolds DEF NaturalOn
  <2> HIDE DEF p
  <2>3. CASE y = p
    BY <2>2, <2>3
  <2>4. CASE y # p
    <3>1. T \ {p} \in F /\ T \ {y} \in F
      BY <1>2, <2>1
    <3>2. y \in T \ {p} /\ p \in T \ {y} /\ (T \ {y}) \ {p} = U
      BY <2>1, <2>4
    <3>3. SumFunctionOnSet(f, T \ {p}) = f[y] + SumFunctionOnSet(f, U)
      BY <3>1, <3>2
    <3>4. SumFunctionOnSet(f, T \ {y}) = f[p] + SumFunctionOnSet(f, U)
      BY <3>1, <3>2
    <3>5. f[y] \in Nat /\ f[p] \in Nat /\ SumFunctionOnSet(f, U) \in Nat
      BY <1>1, <2>1 DEF NaturalOn
    <3> HIDE DEF U
    <3>6. QED
      BY <2>2, <3>3, <3>4, <3>5
  <2>5. QED
    BY <2>3, <2>4
<1>3. IsFiniteSet(S)
    BY DEF NaturalOn
<1> HIDE DEF F
<1>4. SUBSET S \subseteq F
    BY <1>2, <1>3, SubsetsAll
<1>5. SumFunctionOnSet(f, S) = f[x] + SumFunctionOnSet(f, S \ {x})
    BY <1>4 DEF F
<1>6. QED
    BY <1>1, <1>5 DEF NaturalOn

(* One index more adds its value.                                          *)
LEMMA SumAdds ==
    ASSUME NEW f, NEW S, NEW x, x \notin S, NaturalOn(f, S \cup {x})
    PROVE  /\ SumFunctionOnSet(f, S \cup {x}) = SumFunctionOnSet(f, S) + f[x]
           /\ f[x] \in Nat /\ SumFunctionOnSet(f, S) \in Nat
<1> DEFINE T == S \cup {x}
<1>1. T \ {x} = S /\ x \in T /\ NaturalOn(f, T)
    OBVIOUS
<1> HIDE DEF T
<1>2. /\ SumFunctionOnSet(f, T) = f[x] + SumFunctionOnSet(f, T \ {x})
      /\ f[x] \in Nat /\ SumFunctionOnSet(f, T \ {x}) \in Nat
    BY <1>1, SumRemoves
<1>3. SumFunctionOnSet(f, T) = SumFunctionOnSet(f, S) + f[x]
      /\ f[x] \in Nat /\ SumFunctionOnSet(f, S) \in Nat
    BY <1>1, <1>2
<1>4. QED
    BY <1>3 DEF T

(* Only the values matter, and not what the indexes are called.            *)
LEMMA SumRenamed ==
    ASSUME NEW f, NEW S, NaturalOn(f, S), NEW g, NEW h,
           \A i \in S : g[h[i]] = f[i],
           \A i, j \in S : h[i] = h[j] => i = j
    PROVE  /\ NaturalOn(g, {h[i] : i \in S})
           /\ SumFunctionOnSet(g, {h[i] : i \in S}) = SumFunctionOnSet(f, S)
<1> DEFINE Image(T) == {h[i] : i \in T}
           F == {T \in SUBSET S : /\ NaturalOn(g, Image(T))
                                  /\ SumFunctionOnSet(g, Image(T)) = SumFunctionOnSet(f, T)}
<1>1. ASSUME NEW T \in SUBSET S, \A t \in SUBSET T : t # T => t \in F
      PROVE  T \in F
  <2>1. NaturalOn(f, T)
    BY NaturalOnPart
  <2>2. CASE T = {}
    <3>1. Image(T) = {}
      BY <2>2
    <3>2. QED
      BY <2>2, <3>1, SumEmpty, FS_EmptySet DEF NaturalOn
  <2>3. CASE T # {}
    <3> DEFINE p == Pick(T)
               U == T \ {p}
    <3>1. p \in T /\ U \in SUBSET T /\ U # T
      BY <2>3, PickIn
    <3> HIDE DEF p
    <3>2. /\ SumFunctionOnSet(f, T) = f[p] + SumFunctionOnSet(f, U)
          /\ f[p] \in Nat /\ SumFunctionOnSet(f, U) \in Nat
      BY <2>1, <3>1, SumRemoves
    <3> DEFINE V == Image(U)
               q == h[p]
    <3>3. NaturalOn(g, V) /\ SumFunctionOnSet(g, V) = SumFunctionOnSet(f, U)
      BY <1>1, <3>1
    <3> DEFINE W == Image(T)
    <3>4. W = V \cup {q} /\ q \notin V /\ g[q] = f[p]
      BY <3>1
    <3> HIDE DEF U, V, W, q
    <3>5. NaturalOn(g, W) /\ q \in W /\ W \ {q} = V
      BY <3>2, <3>3, <3>4, FS_AddElement DEF NaturalOn
    <3>6. SumFunctionOnSet(g, W) = g[q] + SumFunctionOnSet(g, W \ {q})
      BY <3>5, SumRemoves
    <3>7. SumFunctionOnSet(g, W) = SumFunctionOnSet(f, T)
      BY <3>2, <3>3, <3>4, <3>5, <3>6
    <3>8. QED
      BY <3>5, <3>7 DEF W
  <2>4. QED
    BY <2>2, <2>3
<1>2. IsFiniteSet(S)
    BY DEF NaturalOn
<1> HIDE DEF F
<1>3. SUBSET S \subseteq F
    BY <1>1, <1>2, SubsetsAll
<1>4. QED
    BY <1>3 DEF F

(* Functions that agree on the indexes have the same sum.                  *)
LEMMA SumSame ==
    ASSUME NEW f, NEW S, NaturalOn(f, S), NEW g, \A i \in S : g[i] = f[i]
    PROVE  NaturalOn(g, S) /\ SumFunctionOnSet(g, S) = SumFunctionOnSet(f, S)
<1> DEFINE h == [i \in S |-> i]
<1>1. /\ \A i \in S : g[h[i]] = f[i]
      /\ \A i, j \in S : h[i] = h[j] => i = j
      /\ {h[i] : i \in S} = S
    OBVIOUS
<1> HIDE DEF h
<1>2. /\ NaturalOn(g, {h[i] : i \in S})
      /\ SumFunctionOnSet(g, {h[i] : i \in S}) = SumFunctionOnSet(f, S)
    BY <1>1, SumRenamed
<1>3. QED
    BY <1>1, <1>2

(* More indexes, a larger sum.                                             *)
LEMMA SumGrows ==
    ASSUME NEW f, NEW S, NaturalOn(f, S), NEW T \in SUBSET S
    PROVE  SumFunctionOnSet(f, T) \in Nat /\ SumFunctionOnSet(f, T) <= SumFunctionOnSet(f, S)
<1> DEFINE F == {U \in SUBSET S : T \subseteq U => SumFunctionOnSet(f, T) <= SumFunctionOnSet(f, U)}
<1>1. \A U \in SUBSET S : NaturalOn(f, U) /\ SumFunctionOnSet(f, U) \in Nat
    BY NaturalOnPart, SumNatural
<1>2. ASSUME NEW U \in SUBSET S, \A t \in SUBSET U : t # U => t \in F
      PROVE  U \in F
  <2> SUFFICES ASSUME T \subseteq U PROVE SumFunctionOnSet(f, T) <= SumFunctionOnSet(f, U)
    OBVIOUS
  <2>1. CASE U = T
    BY <1>1, <2>1
  <2>2. CASE U # T
    <3>1. PICK x \in U : x \notin T
      BY <2>2
    <3>2. U \ {x} \in F /\ T \subseteq U \ {x}
      BY <1>2, <3>1
    <3>3. SumFunctionOnSet(f, T) <= SumFunctionOnSet(f, U \ {x})
      BY <3>2
    <3>4. /\ SumFunctionOnSet(f, U) = f[x] + SumFunctionOnSet(f, U \ {x})
          /\ f[x] \in Nat /\ SumFunctionOnSet(f, U \ {x}) \in Nat
      BY <1>1, SumRemoves
    <3>5. QED
      BY <1>1, <3>3, <3>4
  <2>3. QED
    BY <2>1, <2>2
<1>3. IsFiniteSet(S)
    BY DEF NaturalOn
<1> HIDE DEF F
<1>4. SUBSET S \subseteq F
    BY <1>2, <1>3, SubsetsAll
<1>5. QED
    BY <1>1, <1>4 DEF F

----------------------------------------------------------------------------

-----------------------------------------------------------------------------
(* ShardEngine: what a strategy may hold, and what is queued for it.       *)

(* A strategy's spread never passes its peak, nor that its ladder.         *)
SpreadBelowPeak ==
    \A s \in Strategy :
        /\ peak[s] \in 0..Len(OpenLadder[s])
        /\ state[s].openSpread <= peak[s]

(* What every state of the shard worker satisfies.                         *)
IInv ==
    /\ TypeOK
    /\ DOMAIN slots = Strategy
    /\ peak \in [Strategy -> Nat]
    /\ SpreadBelowPeak
    /\ ExposureWithinLadder
    /\ OrdersWithinLimit
    /\ MetricsCurrent
    /\ QueuedOrdersAccounted

----------------------------------------------------------------------------
(* The ladder and the orders.                                              *)

(* A ladder ascends: a better spread never allows less.                    *)
LEMMA LadderFacts ==
    ASSUME NEW s \in Strategy, NEW k \in 0..Len(OpenLadder[s]),
           NEW p \in 0..Len(OpenLadder[s]), k <= p
    PROVE  /\ Len(OpenLadder[s]) \in Nat
           /\ TargetNotional(OpenLadder[s], k) \in Nat
           /\ TargetNotional(OpenLadder[s], p) \in Nat
           /\ TargetNotional(OpenLadder[s], k)
                 <= TargetNotional(OpenLadder[s], p)
<1>1. OpenLadder[s] \in Seq(Nat)
    BY EngineAssumption
<1>2. /\ Len(OpenLadder[s]) \in Nat
      /\ \A i \in 1..Len(OpenLadder[s]) : OpenLadder[s][i] \in Nat
    BY <1>1, LenProperties, ElementOfSeq
<1>3. /\ k # 0 => k \in 1..Len(OpenLadder[s])
      /\ p # 0 => p \in 1..Len(OpenLadder[s])
    BY <1>2
<1>4. k # 0 /\ p # 0 => OpenLadder[s][k] <= OpenLadder[s][p]
    BY <1>3, EngineAssumption
<1>5. QED
    BY <1>2, <1>3, <1>4 DEF TargetNotional

LEMMA MetricsDomain ==
    ASSUME NEW st \in States
    PROVE  DOMAIN MetricsOf(st) = DOMAIN NewState \ {"seq"}
BY DEF States, NewState, MetricsOf

(* A non-empty open plan stays within both caps.                           *)
LEMMA OpenPlanFits ==
    ASSUME NEW s \in Strategy, NEW st \in States,
           NEW k \in Reaches(OpenLadder[s]),
           NEW n \in 1..OpenDesired(s, st, k)
    PROVE  /\ n \in Nat
           /\ k \in 0..Len(OpenLadder[s])
           /\ st.current + st.pendingOpen + n <= MaxTotal[s]
           /\ st.current + st.pendingOpen + n
                 <= TargetNotional(OpenLadder[s], k)
<1>1. k # None
    BY DEF OpenDesired
<1>2. k \in 0..Len(OpenLadder[s])
    BY <1>1 DEF Reaches
<1>3. TargetNotional(OpenLadder[s], k) \in Nat
    BY <1>2, LadderFacts
<1>4. MaxTotal[s] \in Nat
    BY EngineAssumption
<1>5. st.current \in Nat /\ st.pendingOpen \in Nat
    BY DEF States
<1>6. QED
    BY <1>1, <1>2, <1>3, <1>4, <1>5 DEF OpenDesired, Minimum

LEMMA ClosePlanType ==
    ASSUME NEW s \in Strategy, NEW st \in States,
           NEW c \in Reaches(CloseLadder[s]),
           NEW n \in 1..CloseDesired(s, st, c)
    PROVE  n \in Nat
OBVIOUS

(* The spreads that are left stay within the ladder.                       *)
LEMMA RefreshedFacts ==
    ASSUME NEW s \in Strategy, NEW st \in States,
           st.openSpread \in Reaches(OpenLadder[s]),
           NEW k \in Reaches(OpenLadder[s]),
           NEW c \in Reaches(CloseLadder[s])
    PROVE  /\ Refreshed(st, k, c) \in States
           /\ Refreshed(st, k, c).openSpread \in Reaches(OpenLadder[s])
           /\ k # None => Refreshed(st, k, c).openSpread = k
           /\ k = None => Refreshed(st, k, c).openSpread = st.openSpread
           /\ Refreshed(st, k, c).current = st.current
           /\ Refreshed(st, k, c).pendingOpen = st.pendingOpen
           /\ Refreshed(st, k, c).pendingClose = st.pendingClose
           /\ Refreshed(st, k, c).active = st.active
           /\ Refreshed(st, k, c).seq = st.seq
<1>1. /\ OpenLadder[s] \in Seq(Nat)
      /\ CloseLadder[s] \in Seq(Nat)
    BY EngineAssumption
<1>2. Len(OpenLadder[s]) \in Nat /\ Len(CloseLadder[s]) \in Nat
    BY <1>1, LenProperties
<1>3. k \in Spreads /\ c \in Spreads
    BY <1>2 DEF Reaches, Spreads, None
<1> DEFINE mid == [st EXCEPT !.openSpread = IF k = None THEN @ ELSE k]
           end == [mid EXCEPT !.closeSpread = IF c = None THEN st.closeSpread ELSE c]
<1>4. /\ mid \in States
      /\ mid.openSpread = IF k = None THEN st.openSpread ELSE k
      /\ mid.closeSpread = st.closeSpread
      /\ mid.current = st.current /\ mid.pendingOpen = st.pendingOpen
      /\ mid.pendingClose = st.pendingClose
      /\ mid.active = st.active /\ mid.seq = st.seq
    BY <1>3 DEF States
<1> HIDE DEF mid
<1>5. /\ end \in States
      /\ end.openSpread = mid.openSpread
      /\ end.current = mid.current /\ end.pendingOpen = mid.pendingOpen
      /\ end.pendingClose = mid.pendingClose
      /\ end.active = mid.active /\ end.seq = mid.seq
    BY <1>3, <1>4 DEF States
<1> HIDE DEF end
<1>6. Refreshed(st, k, c) = end
    BY DEF Refreshed, end, mid
<1>7. QED
    BY <1>4, <1>5, <1>6

(* A commit counts two orders, and its notional once.                      *)
LEMMA CommittedFacts ==
    ASSUME NEW st \in States, NEW kind \in {"Open", "Close"}, NEW n \in Nat
    PROVE  /\ Committed(st, kind, n) \in States
           /\ Committed(st, kind, n).openSpread = st.openSpread
           /\ Committed(st, kind, n).current = st.current
           /\ Committed(st, kind, n).pendingOpen =
                 IF kind = "Open" THEN st.pendingOpen + n ELSE st.pendingOpen
           /\ Committed(st, kind, n).pendingOpen
                + Committed(st, kind, n).pendingClose
                   = st.pendingOpen + st.pendingClose + n
           /\ Committed(st, kind, n).active = st.active + 2
           /\ Committed(st, kind, n).seq = st.seq + 2
<1> DEFINE open == IF kind = "Open" THEN st.pendingOpen + n ELSE st.pendingOpen
           close == IF kind = "Close" THEN st.pendingClose + n
                    ELSE st.pendingClose
           active == st.active + 2
           seq == st.seq + 2
           counted == [st EXCEPT !.active = active, !.seq = seq]
           end == [counted EXCEPT !.pendingOpen = open, !.pendingClose = close]
<1>1. /\ open \in Nat /\ close \in Nat /\ active \in Nat /\ seq \in Nat
      /\ open + close = st.pendingOpen + st.pendingClose + n
    BY DEF States
<1> HIDE DEF open, close, active, seq
<1>2. /\ counted \in States
      /\ counted.openSpread = st.openSpread
      /\ counted.current = st.current
      /\ counted.active = active /\ counted.seq = seq
    BY <1>1 DEF States
<1> HIDE DEF counted
<1>3. /\ end \in States
      /\ end.pendingOpen = open /\ end.pendingClose = close
      /\ end.openSpread = counted.openSpread
      /\ end.current = counted.current
      /\ end.active = counted.active /\ end.seq = counted.seq
    BY <1>1, <1>2 DEF States
<1> HIDE DEF end
<1>4. Committed(st, kind, n) = end
    BY DEF Committed, end, counted, open, close, active, seq
<1>5. QED
    BY <1>1, <1>2, <1>3, <1>4 DEF open, active, seq

----------------------------------------------------------------------------
(* The queue and what is accounted for.                                    *)

(* The notionals of a queue's orders.                                      *)
Amounts(queue) == [i \in DOMAIN queue |-> queue[i].notional]

LEMMA OrderFields ==
    ASSUME NEW queue \in Seq(Orders)
    PROVE  /\ Len(queue) \in Nat /\ DOMAIN queue = 1..Len(queue)
           /\ \A i \in DOMAIN queue : /\ queue[i].strategy \in Strategy
                                     /\ queue[i].notional \in Nat
                                     /\ queue[i].seq \in Nat
<1>1. Len(queue) \in Nat /\ DOMAIN queue = 1..Len(queue)
    BY LenProperties
<1>2. \A i \in DOMAIN queue : queue[i] \in Orders
    BY <1>1, ElementOfSeq
<1>3. QED
    BY <1>1, <1>2 DEF Orders

(* What a queue holds of a strategy and leg is a sum of naturals.          *)
LEMMA QueuedFacts ==
    ASSUME NEW queue \in Seq(Orders), NEW s, NEW leg
    PROVE  /\ NaturalOn(Amounts(queue), QueuedOf(queue, s, leg))
           /\ QueuedNotional(queue, s, leg) \in Nat
           /\ QueuedNotional(queue, s, leg) =
                 SumFunctionOnSet(Amounts(queue), QueuedOf(queue, s, leg))
<1>1. Len(queue) \in Nat /\ DOMAIN queue = 1..Len(queue)
    BY LenProperties
<1>2. \A i \in DOMAIN queue : Amounts(queue)[i] \in Nat
    BY OrderFields DEF Amounts
<1>3. QueuedOf(queue, s, leg) \subseteq 1..Len(queue)
    BY <1>1 DEF QueuedOf
<1>4. IsFiniteSet(QueuedOf(queue, s, leg))
  <2>1. IsFiniteSet(1..Len(queue))
    BY <1>1, FS_Interval
  <2>2. QED
    BY <1>3, <2>1, FS_Subset
<1>5. NaturalOn(Amounts(queue), QueuedOf(queue, s, leg))
    BY <1>1, <1>2, <1>3, <1>4 DEF NaturalOn
<1>6. QueuedNotional(queue, s, leg) =
         SumFunctionOnSet(Amounts(queue), QueuedOf(queue, s, leg))
    BY DEF QueuedNotional, Amounts
<1>7. QED
    BY <1>5, <1>6, SumNatural

(* One more order adds its notional where it belongs.                      *)
LEMMA QueuedAppend ==
    ASSUME NEW queue \in Seq(Orders), NEW e \in Orders, NEW s, NEW leg
    PROVE  /\ QueuedNotional(queue, s, leg) \in Nat
           /\ QueuedNotional(Append(queue, e), s, leg) =
                 QueuedNotional(queue, s, leg)
                    + IF e.strategy = s /\ e.leg = leg THEN e.notional ELSE 0
<1> DEFINE n == Len(queue) + 1
           more == Append(queue, e)
           f == Amounts(queue)
           g == Amounts(more)
           Q == QueuedOf(queue, s, leg)
<1>1. /\ more \in Seq(Orders) /\ Len(more) = n
      /\ DOMAIN more = 1..n /\ DOMAIN queue = 1..(n - 1) /\ n \in Nat \ {0}
      /\ \A i \in 1..(n - 1) : more[i] = queue[i]
      /\ more[n] = e
    BY AppendProperties, LenProperties
<1> HIDE DEF more, n
<1>2. /\ NaturalOn(f, Q)
      /\ QueuedNotional(queue, s, leg) = SumFunctionOnSet(f, Q)
      /\ QueuedNotional(queue, s, leg) \in Nat
      /\ NaturalOn(g, QueuedOf(more, s, leg))
      /\ QueuedNotional(more, s, leg) =
            SumFunctionOnSet(g, QueuedOf(more, s, leg))
    BY <1>1, QueuedFacts
<1>3. \A i \in Q : g[i] = f[i]
    BY <1>1 DEF QueuedOf, Amounts
<1>4. SumFunctionOnSet(g, Q) = SumFunctionOnSet(f, Q)
  <2> HIDE DEF f, g, Q
  <2>1. QED
    BY <1>2, <1>3, SumSame
<1>5. QueuedOf(more, s, leg) =
         IF e.strategy = s /\ e.leg = leg THEN Q \cup {n} ELSE Q
  <2>1. \A i : i \in DOMAIN more <=> i \in DOMAIN queue \/ i = n
    BY <1>1
  <2>2. \A i \in DOMAIN queue : more[i] = queue[i]
    BY <1>1
  <2>3. QED
    BY <1>1, <2>1, <2>2 DEF QueuedOf
<1>6. n \notin Q /\ g[n] = e.notional
    BY <1>1 DEF QueuedOf, Amounts
<1>7. CASE e.strategy = s /\ e.leg = leg
  <2> HIDE DEF f, g, Q
  <2>1. NaturalOn(g, Q \cup {n})
    BY <1>2, <1>5, <1>7
  <2>2. SumFunctionOnSet(g, Q \cup {n}) = SumFunctionOnSet(g, Q) + g[n]
    BY <1>6, <2>1, SumAdds
  <2>3. QED
    BY <1>2, <1>4, <1>5, <1>6, <1>7, <2>2 DEF more
<1>8. CASE ~(e.strategy = s /\ e.leg = leg)
    BY <1>2, <1>4, <1>5, <1>8 DEF more
<1>9. QED
    BY <1>2, <1>7, <1>8

(* One order less, no more notional.                                       *)
LEMMA QueuedTail ==
    ASSUME NEW queue \in Seq(Orders), queue # <<>>, NEW s, NEW leg
    PROVE  /\ QueuedNotional(queue, s, leg) \in Nat
           /\ QueuedNotional(Tail(queue), s, leg) \in Nat
           /\ QueuedNotional(Tail(queue), s, leg)
                 <= QueuedNotional(queue, s, leg)
<1> DEFINE rest == Tail(queue)
           n == Len(queue)
           f == Amounts(rest)
           g == Amounts(queue)
           h == [i \in Nat |-> i + 1]
           Q == QueuedOf(rest, s, leg)
           P == QueuedOf(queue, s, leg)
           I == {h[i] : i \in Q}
<1>1. /\ n \in Nat \ {0} /\ DOMAIN queue = 1..n
      /\ rest \in Seq(Orders) /\ DOMAIN rest = 1..(n - 1)
      /\ \A i \in 1..(n - 1) : rest[i] = queue[i + 1]
    BY EmptySeq, HeadTailProperties, LenProperties
<1> HIDE DEF rest, n
<1>2. /\ NaturalOn(f, Q) /\ NaturalOn(g, P)
      /\ QueuedNotional(rest, s, leg) = SumFunctionOnSet(f, Q)
      /\ QueuedNotional(queue, s, leg) = SumFunctionOnSet(g, P)
      /\ QueuedNotional(rest, s, leg) \in Nat
      /\ QueuedNotional(queue, s, leg) \in Nat
    BY <1>1, QueuedFacts
<1>3. Q \subseteq 1..(n - 1)
    BY <1>1 DEF QueuedOf
<1>4. ASSUME NEW i \in Q
      PROVE  i \in Nat /\ h[i] = i + 1 /\ h[i] \in P /\ g[h[i]] = f[i]
  <2>1. i \in 1..(n - 1) /\ i + 1 \in DOMAIN queue /\ rest[i] = queue[i + 1]
    BY <1>1, <1>3
  <2>2. h[i] = i + 1
    BY <2>1
  <2> HIDE DEF h
  <2>3. h[i] \in P
    BY <2>1, <2>2 DEF QueuedOf
  <2>4. g[h[i]] = f[i]
    BY <1>1, <2>1, <2>2 DEF Amounts
  <2>5. QED
    BY <2>1, <2>2, <2>3, <2>4
<1> HIDE DEF f, g, h, Q, P
<1>5. I \in SUBSET P
    BY <1>4
<1>6. \A i, j \in Q : h[i] = h[j] => i = j
    BY <1>4
<1>7. SumFunctionOnSet(g, I) = SumFunctionOnSet(f, Q)
  <2>1. NaturalOn(f, Q) /\ \A i \in Q : g[h[i]] = f[i]
    BY <1>2, <1>4
  <2>2. SumFunctionOnSet(g, {h[i] : i \in Q}) = SumFunctionOnSet(f, Q)
    BY <1>6, <2>1, SumRenamed
  <2>3. QED
    BY <2>2
<1> HIDE DEF I
<1>8. SumFunctionOnSet(g, I) <= SumFunctionOnSet(g, P)
    BY <1>2, <1>5, SumGrows
<1>9. QED
    BY <1>2, <1>7, <1>8 DEF rest

(* Nothing that is accounted for changes.                                  *)
LEMMA AccountsKept ==
    ASSUME QueuedOrdersAccounted, UNCHANGED commands,
           \A i \in DOMAIN commands : commands[i].strategy \in Strategy,
           \A t \in Strategy : /\ state'[t].seq = state[t].seq
                               /\ state'[t].pendingOpen = state[t].pendingOpen
                               /\ state'[t].pendingClose = state[t].pendingClose
    PROVE  QueuedOrdersAccounted'
BY DEF QueuedOrdersAccounted

----------------------------------------------------------------------------
(* Initial states.                                                         *)

LEMMA InitIInv == Init => IInv
<1> SUFFICES ASSUME Init PROVE IInv
    OBVIOUS
<1>1. NewState \in States
    BY DEF NewState, States, Spreads, None
<1>2. \A s \in Strategy : /\ OpenLadder[s] \in Seq(Nat)
                          /\ Len(OpenLadder[s]) \in Nat
                          /\ MaxTotal[s] \in Nat /\ MaxOpenOrders[s] \in Nat
    BY EngineAssumption, LenProperties
<1>3. \A s \in Strategy :
          /\ state[s].openSpread = -1
          /\ state[s].current = 0 /\ state[s].pendingOpen = 0
          /\ state[s].active = 0 /\ state[s].seq = 0
          /\ peak[s] = 0
    BY DEF Init, NewState, None
<1>4. TypeOK
  <2>1. commands \in Seq(Orders) /\ Len(commands) <= CommandBound
      BY EngineAssumption DEF Init
  <2>2. \A s \in Strategy : -1 \in Reaches(OpenLadder[s])
      BY DEF Reaches, None
  <2>3. QED
      BY <1>1, <1>3, <2>1, <2>2 DEF Init, TypeOK
<1>5. SpreadBelowPeak
    BY <1>2, <1>3 DEF SpreadBelowPeak
<1>6. ExposureWithinLadder
    BY <1>2, <1>3 DEF ExposureWithinLadder, TargetNotional
<1>7. OrdersWithinLimit
    BY <1>2, <1>3 DEF OrdersWithinLimit
<1>8. QueuedOrdersAccounted
  <2>1. DOMAIN commands = {}
      BY DEF Init
  <2>2. \A s \in Strategy, leg \in {"long", "short"} :
           QueuedNotional(commands, s, leg) = 0
      BY <2>1, SumEmpty DEF QueuedNotional, QueuedOf
  <2>3. \A s \in Strategy : state[s].pendingOpen + state[s].pendingClose \in Nat
      BY DEF Init, NewState
  <2>4. QED
      BY <2>1, <2>2, <2>3 DEF QueuedOrdersAccounted
<1>9. QED
    BY <1>4, <1>5, <1>6, <1>7, <1>8 DEF IInv, Init, MetricsCurrent

----------------------------------------------------------------------------
(* Evaluations that change the state of one strategy.                      *)

(* What an evaluation leaves of the state of strategy s.                   *)
Sound(s, new) ==
    /\ new \in States
    /\ new.openSpread \in Reaches(OpenLadder[s])
    /\ new.current + new.pendingOpen <= MaxTotal[s]
    /\ \E p \in 0..Len(OpenLadder[s]) :
          /\ p = (IF new.openSpread > peak[s] THEN new.openSpread ELSE peak[s])
          /\ new.current + new.pendingOpen <= TargetNotional(OpenLadder[s], p)
    /\ new.active <= MaxOpenOrders[s]
    /\ new.active = new.seq

LEMMA EvaluatedIInv ==
    ASSUME IInv, NEW s \in Strategy, NEW new, Sound(s, new),
           todo' \subseteq Strategy, UNCHANGED trusted,
           state' = [state EXCEPT ![s] = new],
           slots' = [slots EXCEPT ![s] = MetricsOf(state'[s])],
           RecordPeak(s),
           commands' \in Seq(Orders), Len(commands') <= CommandBound,
           QueuedOrdersAccounted'
    PROVE  IInv'
<1>1. /\ state \in [Strategy -> States]
      /\ peak \in [Strategy -> Nat]
      /\ DOMAIN slots = Strategy
    BY DEF IInv, TypeOK
<1>2. /\ state' \in [Strategy -> States]
      /\ state'[s] = new
      /\ \A t \in Strategy \ {s} : state'[t] = state[t]
    BY <1>1 DEF Sound
<1>3. PICK p \in 0..Len(OpenLadder[s]) :
          /\ p = (IF new.openSpread > peak[s] THEN new.openSpread ELSE peak[s])
          /\ new.current + new.pendingOpen <= TargetNotional(OpenLadder[s], p)
    BY DEF Sound
<1>4. new.openSpread \in Int /\ p \in Nat
    BY <1>2 DEF States, Spreads, None
<1>5. /\ peak' \in [Strategy -> Nat]
      /\ peak'[s] = p
      /\ \A t \in Strategy \ {s} : peak'[t] = peak[t]
    BY <1>1, <1>2, <1>3, <1>4 DEF RecordPeak
<1>6. /\ DOMAIN slots' = Strategy
      /\ slots'[s] = MetricsOf(new)
      /\ \A t \in Strategy \ {s} : slots'[t] = slots[t]
    BY <1>1, <1>2
<1>7. TypeOK'
  <2>1. \A t \in Strategy :
            state'[t].openSpread \in Reaches(OpenLadder[t]) /\ peak'[t] \in Nat
      BY <1>2, <1>5 DEF Sound, IInv, TypeOK
  <2>2. \A t \in Strategy :
            slots'[t] # NoMetrics => DOMAIN slots'[t] = DOMAIN NewState \ {"seq"}
      BY <1>6, MetricsDomain DEF Sound, IInv, TypeOK
  <2>3. QED
      BY <1>2, <2>1, <2>2 DEF IInv, TypeOK
<1>8. SpreadBelowPeak'
    BY <1>2, <1>3, <1>4, <1>5 DEF IInv, SpreadBelowPeak
<1>9. ExposureWithinLadder'
    BY <1>2, <1>3, <1>5 DEF IInv, ExposureWithinLadder, Sound
<1>10. OrdersWithinLimit'
    BY <1>2 DEF IInv, OrdersWithinLimit, Sound
<1>11. MetricsCurrent'
    BY <1>2, <1>6 DEF IInv, MetricsCurrent
<1>12. QED
    BY <1>5, <1>6, <1>7, <1>8, <1>9, <1>10, <1>11 DEF IInv

(* The commands: both orders of the pair fit, the first one or none.       *)
Placed(s, n, leg, seq) == [strategy |-> s, leg |-> leg, notional |-> n,
                           seq |-> seq]

First(s, n) == Placed(s, n, "long", state[s].seq + 1)
Second(s, n) == Placed(s, n, "short", state[s].seq + 2)

LEMMA PlacedFacts ==
    ASSUME state \in [Strategy -> States], NEW s \in Strategy, NEW n \in Nat
    PROVE  /\ state[s].seq \in Nat
           /\ First(s, n) \in Orders /\ Second(s, n) \in Orders
           /\ OrderPair(s, n) = <<First(s, n), Second(s, n)>>
<1>1. state[s].seq \in Nat
    BY DEF States
<1>2. First(s, n) \in Orders /\ Second(s, n) \in Orders
    BY <1>1 DEF Orders, First, Second, Placed
<1>3. OrderPair(s, n) = <<First(s, n), Second(s, n)>>
    BY DEF OrderPair, First, Second, Placed
<1>4. QED
    BY <1>1, <1>2, <1>3

(* The queue gains none of a pair, the first order of it, or both.         *)
LEMMA EnqueueFacts ==
    ASSUME commands \in Seq(Orders), Len(commands) <= CommandBound,
           state \in [Strategy -> States],
           NEW s \in Strategy, NEW n \in Nat
    PROVE  LET queue == EnqueueFitting(commands, OrderPair(s, n))
           IN  /\ queue \in Seq(Orders) /\ Len(queue) <= CommandBound
               /\ \/ queue = commands
                  \/ queue = Append(commands, First(s, n))
                  \/ queue = Append(Append(commands, First(s, n)), Second(s, n))
<1> DEFINE a == First(s, n)
           b == Second(s, n)
           pair == OrderPair(s, n)
           room == Minimum(Len(pair), CommandBound - Len(commands))
           fit == SubSeq(pair, 1, room)
           queue == commands \o fit
<1>1. pair = <<a, b>> /\ a \in Orders /\ b \in Orders
    BY PlacedFacts
<1> HIDE DEF a, b, pair
<1>2. Len(pair) = 2 /\ pair[1] = a /\ pair[2] = b
    BY <1>1
<1>3. Len(commands) \in Nat /\ CommandBound \in Nat
    BY EngineAssumption, LenProperties
<1>4. /\ room \in {0, 1, 2}
      /\ Len(commands) + room <= CommandBound
    BY <1>2, <1>3 DEF Minimum
<1> HIDE DEF room
<1>5. /\ fit \in Seq(Orders) /\ Len(fit) = room
      /\ \A i \in 1..room : fit[i] = pair[i]
  <2>1. room \in Nat /\ \A i \in 1..room : i = 1 \/ i = 2
      BY <1>4
  <2>2. \A i \in 1..room : pair[i] \in Orders
      BY <1>1, <1>2, <2>1
  <2>3. QED
      BY <1>2, <1>4, <2>1, <2>2, SubSeqProperties
<1> HIDE DEF fit
<1>6. /\ queue \in Seq(Orders) /\ Len(queue) = Len(commands) + room
      /\ \A i \in 1..Len(commands) : queue[i] = commands[i]
      /\ \A i \in 1..room : queue[Len(commands) + i] = fit[i]
  <2>1. /\ queue \in Seq(Orders) /\ Len(queue) = Len(commands) + room
        /\ \A i \in 1..(Len(commands) + room) :
              queue[i] = IF i <= Len(commands) THEN commands[i]
                         ELSE fit[i - Len(commands)]
      BY <1>5, ConcatProperties
  <2> HIDE DEF queue
  <2>2. \A i \in 1..Len(commands) : queue[i] = commands[i]
      BY <1>3, <1>4, <2>1
  <2>3. ASSUME NEW i \in 1..room PROVE queue[Len(commands) + i] = fit[i]
    <3>1. /\ Len(commands) + i \in 1..(Len(commands) + room)
          /\ ~(Len(commands) + i <= Len(commands))
          /\ (Len(commands) + i) - Len(commands) = i
      BY <1>3, <1>4
    <3>2. QED
      BY <2>1, <3>1
  <2>4. QED
      BY <2>1, <2>2, <2>3
<1> HIDE DEF queue
<1>7. CASE room = 0
  <2>1. queue = commands
      BY <1>3, <1>6, <1>7, SeqEqual
  <2>2. QED
      BY <1>4, <1>6, <2>1 DEF EnqueueFitting, pair, room, fit, queue
<1>8. CASE room = 1
  <2> DEFINE one == Append(commands, a)
  <2>1. /\ one \in Seq(Orders) /\ Len(one) = Len(commands) + 1
        /\ \A i \in 1..Len(commands) : one[i] = commands[i]
        /\ one[Len(commands) + 1] = a
      BY <1>1, AppendProperties
  <2>2. queue[Len(commands) + 1] = a
      BY <1>2, <1>5, <1>6, <1>8
  <2> HIDE DEF one
  <2>3. \A i \in 1..Len(queue) : queue[i] = one[i]
      BY <1>3, <1>6, <1>8, <2>1, <2>2
  <2>4. queue = one
      BY <1>6, <1>8, <2>1, <2>3, SeqEqual
  <2>5. QED
      BY <1>4, <1>6, <2>4 DEF EnqueueFitting, pair, room, fit, queue, one, a
<1>9. CASE room = 2
  <2> DEFINE one == Append(commands, a)
             two == Append(one, b)
  <2>1. /\ one \in Seq(Orders) /\ Len(one) = Len(commands) + 1
        /\ \A i \in 1..Len(commands) : one[i] = commands[i]
        /\ one[Len(commands) + 1] = a
      BY <1>1, AppendProperties
  <2> HIDE DEF one
  <2>2. /\ two \in Seq(Orders) /\ Len(two) = Len(one) + 1
        /\ \A i \in 1..Len(one) : two[i] = one[i]
        /\ two[Len(one) + 1] = b
      BY <1>1, <2>1, AppendProperties
  <2> HIDE DEF two
  <2>3. queue[Len(commands) + 1] = a /\ queue[Len(commands) + 2] = b
      BY <1>2, <1>5, <1>6, <1>9
  <2>4. \A i \in 1..Len(queue) :
           i \in 1..Len(commands) \/ i = Len(commands) + 1 \/ i = Len(commands) + 2
      BY <1>3, <1>6, <1>9
  <2>5. \A i \in 1..Len(queue) : queue[i] = two[i]
      BY <1>3, <1>6, <2>1, <2>2, <2>3, <2>4
  <2>6. queue = two
      BY <1>3, <1>6, <1>9, <2>1, <2>2, <2>5, SeqEqual
  <2>7. QED
      BY <1>4, <1>6, <2>6
         DEF EnqueueFitting, pair, room, fit, queue, one, two, a, b
<1>10. QED
    BY <1>4, <1>7, <1>8, <1>9

(* An order that comes last and has the highest id of its strategy.        *)
InOrder(queue) ==
    \A i, j \in DOMAIN queue :
        i < j /\ queue[i].strategy = queue[j].strategy
            => queue[i].seq < queue[j].seq

(* An id above all earlier ones of its strategy keeps the order of ids.    *)
LEMMA AppendInOrder ==
    ASSUME NEW queue \in Seq(Orders), NEW e \in Orders, InOrder(queue),
           \A i \in DOMAIN queue :
              queue[i].strategy = e.strategy => queue[i].seq < e.seq
    PROVE  InOrder(Append(queue, e))
<1> DEFINE n == Len(queue) + 1
           more == Append(queue, e)
<1>1. /\ n \in Nat \ {0} /\ DOMAIN queue = 1..(n - 1) /\ DOMAIN more = 1..n
      /\ \A i \in 1..(n - 1) : more[i] = queue[i]
      /\ more[n] = e
    BY AppendProperties, LenProperties
<1> HIDE DEF n, more
<1> SUFFICES ASSUME NEW i \in 1..n, NEW j \in 1..n, i < j,
                    more[i].strategy = more[j].strategy
             PROVE  more[i].seq < more[j].seq
    BY <1>1 DEF InOrder, more
<1>2. CASE j = n
    BY <1>1, <1>2
<1>3. CASE j # n
    BY <1>1, <1>3 DEF InOrder
<1>4. QED
    BY <1>2, <1>3

(* A commit accounts for all of what it enqueues.                          *)
LEMMA CommitAccounts ==
    ASSUME IInv, NEW s \in Strategy, NEW n \in Nat, NEW new \in States,
           new.seq = state[s].seq + 2,
           new.pendingOpen + new.pendingClose
              = state[s].pendingOpen + state[s].pendingClose + n,
           state' = [state EXCEPT ![s] = new],
           commands' = EnqueueFitting(commands, OrderPair(s, n))
    PROVE  QueuedOrdersAccounted'
<1> DEFINE a == First(s, n)
           b == Second(s, n)
           q == state[s].seq
           one == Append(commands, a)
           two == Append(one, b)
<1>1. /\ commands \in Seq(Orders) /\ Len(commands) <= CommandBound
      /\ state \in [Strategy -> States]
    BY DEF IInv, TypeOK
<1>2. /\ commands' \in Seq(Orders)
      /\ commands' = commands \/ commands' = one \/ commands' = two
    BY <1>1, EnqueueFacts
<1>3. /\ q \in Nat /\ a \in Orders /\ b \in Orders
      /\ a.strategy = s /\ a.leg = "long" /\ a.notional = n /\ a.seq = q + 1
      /\ b.strategy = s /\ b.leg = "short" /\ b.notional = n /\ b.seq = q + 2
    BY <1>1, PlacedFacts DEF First, Second, Placed
<1> HIDE DEF a, b, q
<1>4. /\ one \in Seq(Orders) /\ DOMAIN one = 1..(Len(commands) + 1)
      /\ \A i \in DOMAIN commands : one[i] = commands[i]
      /\ one[Len(commands) + 1] = a
      /\ DOMAIN commands = 1..Len(commands) /\ Len(commands) \in Nat
    BY <1>1, <1>3, AppendProperties, LenProperties
<1>5. \A t \in Strategy : t # s => state'[t] = state[t]
    BY <1>1
<1>6. state'[s] = new
    BY <1>1
<1>7. \A i \in DOMAIN commands :
         /\ commands[i].strategy \in Strategy
         /\ commands[i].seq \in 1..state[commands[i].strategy].seq
    BY <1>1, OrderFields DEF IInv, QueuedOrdersAccounted
<1> HIDE DEF one
<1>8. \A i \in DOMAIN one :
         (i \in DOMAIN commands /\ one[i] = commands[i]) \/ one[i] = a
    BY <1>4
<1>9. /\ two \in Seq(Orders)
      /\ \A i \in DOMAIN two :
            (i \in DOMAIN one /\ two[i] = one[i]) \/ two[i] = b
    BY <1>3, <1>4, AppendProperties, LenProperties
<1>10. InOrder(commands')
  <2>1. InOrder(commands)
    BY DEF IInv, QueuedOrdersAccounted, InOrder
  <2>2. \A i \in DOMAIN commands :
           commands[i].strategy = s => commands[i].seq < q + 1
    BY <1>3, <1>7 DEF q
  <2>3. InOrder(one)
    BY <1>1, <1>3, <2>1, <2>2, AppendInOrder DEF one
  <2>4. \A i \in DOMAIN one : one[i].strategy = s => one[i].seq < q + 2
    <3>1. \A i \in DOMAIN commands : commands[i].seq \in Nat
      BY <1>1, OrderFields
    <3>2. QED
      BY <1>3, <1>8, <2>2, <3>1
  <2>5. InOrder(two)
    BY <1>3, <1>4, <2>3, <2>4, AppendInOrder
  <2>6. QED
    BY <1>2, <2>1, <2>3, <2>5
<1>11. \A i \in DOMAIN commands' :
          commands'[i].seq \in 1..state'[commands'[i].strategy].seq
  <2>1. \A t \in Strategy : state[t].seq \in Nat
    BY <1>1 DEF States
  <2>2. \A i \in DOMAIN commands :
           commands[i].seq \in 1..state'[commands[i].strategy].seq
    BY <1>3, <1>5, <1>6, <1>7, <2>1 DEF q
  <2>3. \A i \in DOMAIN one : one[i].seq \in 1..state'[one[i].strategy].seq
    BY <1>3, <1>6, <1>8, <2>2 DEF q
  <2>4. \A i \in DOMAIN two : two[i].seq \in 1..state'[two[i].strategy].seq
    BY <1>3, <1>6, <1>9, <2>3 DEF q
  <2> HIDE DEF two
  <2>5. QED
    BY <1>2, <2>2, <2>3, <2>4
<1>12. ASSUME NEW t \in Strategy, NEW leg \in {"long", "short"}
       PROVE  QueuedNotional(commands', t, leg)
                 <= state'[t].pendingOpen + state'[t].pendingClose
  <2> DEFINE had == QueuedNotional(commands, t, leg)
             m == IF t = s THEN n ELSE 0
  <2>1. /\ had \in Nat
        /\ QueuedNotional(one, t, leg) =
              had + IF s = t /\ "long" = leg THEN n ELSE 0
    BY <1>1, <1>3, QueuedAppend DEF one
  <2>2. /\ QueuedNotional(one, t, leg) \in Nat
        /\ QueuedNotional(two, t, leg) =
              QueuedNotional(one, t, leg)
                 + IF s = t /\ "short" = leg THEN n ELSE 0
    BY <1>3, <1>4, QueuedAppend
  <2>3. had <= state[t].pendingOpen + state[t].pendingClose
    BY DEF IInv, QueuedOrdersAccounted
  <2>4. state[t].pendingOpen \in Nat /\ state[t].pendingClose \in Nat
    BY <1>1 DEF States
  <2>5. state'[t].pendingOpen + state'[t].pendingClose
           = state[t].pendingOpen + state[t].pendingClose + m
    BY <1>5, <1>6, <2>4
  <2>6. m \in Nat
    OBVIOUS
  <2>7. /\ QueuedNotional(commands', t, leg) <= had + m
        /\ QueuedNotional(commands', t, leg) \in Nat
    <3> HIDE DEF had, two
    <3>1. CASE commands' = commands
      BY <2>1, <2>6, <3>1 DEF had
    <3>2. CASE commands' = one
      BY <2>1, <3>2
    <3>3. CASE commands' = two
      BY <2>1, <2>2, <3>3
    <3>4. QED
      BY <1>2, <3>1, <3>2, <3>3
  <2> HIDE DEF had, m
  <2>8. QED
    BY <2>1, <2>3, <2>4, <2>5, <2>6, <2>7
<1>13. QED
    BY <1>10, <1>11, <1>12 DEF QueuedOrdersAccounted, InOrder

LEMMA EvaluateOnlyIInv ==
    ASSUME IInv, NEW s \in Strategy,
           NEW k \in Reaches(OpenLadder[s]), NEW c \in Reaches(CloseLadder[s]),
           EvaluateOnly(s, k, c)
    PROVE  IInv'
<1> DEFINE st == state[s]
           new == Refreshed(st, k, c)
           p == IF new.openSpread > peak[s] THEN new.openSpread ELSE peak[s]
<1>1. /\ state \in [Strategy -> States]
      /\ st \in States
      /\ st.openSpread \in Reaches(OpenLadder[s])
      /\ peak[s] \in 0..Len(OpenLadder[s])
      /\ Len(OpenLadder[s]) \in Nat
    BY EngineAssumption, LenProperties DEF IInv, TypeOK, SpreadBelowPeak
<1>2. /\ new \in States
      /\ new.openSpread \in Reaches(OpenLadder[s])
      /\ new.current = st.current /\ new.pendingOpen = st.pendingOpen
      /\ new.pendingClose = st.pendingClose
      /\ new.active = st.active /\ new.seq = st.seq
    BY <1>1, RefreshedFacts
<1>3. /\ p \in 0..Len(OpenLadder[s])
      /\ peak[s] <= p
    BY <1>1, <1>2 DEF Reaches, None
<1>4. TargetNotional(OpenLadder[s], peak[s]) <= TargetNotional(OpenLadder[s], p)
      /\ TargetNotional(OpenLadder[s], peak[s]) \in Nat
      /\ TargetNotional(OpenLadder[s], p) \in Nat
    BY <1>1, <1>3, LadderFacts
<1>5. /\ st.current \in Nat /\ st.pendingOpen \in Nat
      /\ st.current + st.pendingOpen <= MaxTotal[s]
      /\ st.current + st.pendingOpen <= TargetNotional(OpenLadder[s], peak[s])
      /\ st.active <= MaxOpenOrders[s] /\ st.active = st.seq
    BY <1>1 DEF IInv, ExposureWithinLadder, OrdersWithinLimit, States
<1>6. Sound(s, new)
  <2>1. new.current + new.pendingOpen <= TargetNotional(OpenLadder[s], p)
      BY <1>2, <1>4, <1>5
  <2> HIDE DEF new
  <2>2. QED
      BY <1>2, <1>3, <1>5, <2>1 DEF Sound
<1>7. /\ todo' \subseteq Strategy /\ UNCHANGED trusted
      /\ state' = [state EXCEPT ![s] = new]
      /\ slots' = [slots EXCEPT ![s] = MetricsOf(state'[s])]
      /\ RecordPeak(s)
      /\ commands' \in Seq(Orders) /\ Len(commands') <= CommandBound
    BY <1>1 DEF EvaluateOnly, Visit, IInv, TypeOK
<1>8. QueuedOrdersAccounted'
  <2>1. UNCHANGED commands /\ QueuedOrdersAccounted
      BY DEF EvaluateOnly, IInv
  <2>2. \A i \in DOMAIN commands : commands[i].strategy \in Strategy
      BY OrderFields DEF IInv, TypeOK
  <2>3. state'[s] = new /\ \A t \in Strategy : t # s => state'[t] = state[t]
      BY <1>1, <1>7
  <2> HIDE DEF new
  <2>4. \A t \in Strategy : /\ state'[t].seq = state[t].seq
                            /\ state'[t].pendingOpen = state[t].pendingOpen
                            /\ state'[t].pendingClose = state[t].pendingClose
      BY <1>2, <2>3
  <2>5. QED
      BY <2>1, <2>2, <2>4, AccountsKept
<1>9. QED
    BY <1>6, <1>7, <1>8, EvaluatedIInv

LEMMA EvaluateAndCommitIInv ==
    ASSUME IInv, NEW s \in Strategy,
           NEW k \in Reaches(OpenLadder[s]), NEW c \in Reaches(CloseLadder[s]),
           EvaluateAndCommit(s, k, c)
    PROVE  IInv'
<1> DEFINE st == state[s]
<1>1. /\ state \in [Strategy -> States]
      /\ st \in States
      /\ st.openSpread \in Reaches(OpenLadder[s])
      /\ peak[s] \in 0..Len(OpenLadder[s])
      /\ st.openSpread <= peak[s]
      /\ Len(OpenLadder[s]) \in Nat
      /\ commands \in Seq(Orders) /\ Len(commands) <= CommandBound
      /\ MaxOpenOrders[s] \in Nat
    BY EngineAssumption, LenProperties DEF IInv, TypeOK, SpreadBelowPeak
<1>2. /\ st.current \in Nat /\ st.pendingOpen \in Nat
      /\ st.active \in Nat /\ st.seq \in Nat
      /\ st.current + st.pendingOpen <= MaxTotal[s]
      /\ st.current + st.pendingOpen <= TargetNotional(OpenLadder[s], peak[s])
      /\ st.active + 2 <= MaxOpenOrders[s] /\ st.active = st.seq
    BY <1>1 DEF IInv, ExposureWithinLadder, OrdersWithinLimit, States,
                EvaluateAndCommit, HasOrderRoom
<1>3. PICK plan \in Plans(s, k, c) :
          /\ state' = [state EXCEPT ![s] =
                          Committed(plan.left, plan.action, plan.notional)]
          /\ commands' = EnqueueFitting(commands, OrderPair(s, plan.notional))
    BY DEF EvaluateAndCommit
<1> DEFINE new == Committed(plan.left, plan.action, plan.notional)
           p == IF new.openSpread > peak[s] THEN new.openSpread ELSE peak[s]
           Accounts(r) ==
              /\ r \in States /\ r.seq = st.seq + 2
              /\ r.pendingOpen + r.pendingClose
                    = st.pendingOpen + st.pendingClose + plan.notional
<1>4. ASSUME plan.action = "Close"
      PROVE  Sound(s, new) /\ plan.notional \in Nat /\ Accounts(new)
  <2>1. PICK n \in 1..CloseDesired(s, st, c) :
            plan = [action |-> "Close", notional |-> n,
                    left |-> Refreshed(st, None, c)]
      BY <1>3, <1>4 DEF Plans
  <2>2. plan.notional \in Nat
      BY <2>1
  <2>3. None \in Reaches(OpenLadder[s])
      BY DEF Reaches
  <2>4. /\ plan.left \in States
        /\ plan.left.openSpread = st.openSpread
        /\ plan.left.current = st.current
        /\ plan.left.pendingOpen = st.pendingOpen
        /\ plan.left.pendingClose = st.pendingClose
        /\ plan.left.active = st.active /\ plan.left.seq = st.seq
      BY <1>1, <2>1, <2>3, RefreshedFacts
  <2>5. /\ new \in States
        /\ new.openSpread = st.openSpread
        /\ new.current = st.current /\ new.pendingOpen = st.pendingOpen
        /\ new.active = st.active + 2 /\ new.seq = st.seq + 2
        /\ new.pendingOpen + new.pendingClose
              = st.pendingOpen + st.pendingClose + plan.notional
    <3>1. new = Committed(plan.left, "Close", plan.notional)
        BY <1>4
    <3> HIDE DEF new
    <3> DEFINE kept == plan.left
    <3> HIDE DEF kept
    <3>2. kept \in States
        BY <2>4 DEF kept
    <3>3. /\ Committed(kept, "Close", plan.notional) \in States
          /\ Committed(kept, "Close", plan.notional).openSpread = kept.openSpread
          /\ Committed(kept, "Close", plan.notional).current = kept.current
          /\ Committed(kept, "Close", plan.notional).pendingOpen = kept.pendingOpen
          /\ Committed(kept, "Close", plan.notional).pendingOpen
               + Committed(kept, "Close", plan.notional).pendingClose
                  = kept.pendingOpen + kept.pendingClose + plan.notional
          /\ Committed(kept, "Close", plan.notional).active = kept.active + 2
          /\ Committed(kept, "Close", plan.notional).seq = kept.seq + 2
        BY <2>2, <3>2, CommittedFacts
    <3>4. QED
        BY <2>4, <3>1, <3>3 DEF kept
  <2> HIDE DEF new
  <2>6. p = peak[s]
      BY <1>1, <2>5, SMTT(30) DEF States, Spreads, None
  <2>7. Sound(s, new)
      BY <1>1, <1>2, <2>5, <2>6 DEF Sound
  <2>8. QED
      BY <2>2, <2>5, <2>7
<1>5. ASSUME plan.action = "Open"
      PROVE  Sound(s, new) /\ plan.notional \in Nat /\ Accounts(new)
  <2>1. PICK n \in 1..OpenDesired(s, st, k) :
            plan = [action |-> "Open", notional |-> n,
                    left |-> Refreshed(st, k, c)]
      BY <1>3, <1>5 DEF Plans
  <2>2. /\ plan.notional = n /\ n \in Nat
        /\ k \in 0..Len(OpenLadder[s]) /\ k # None
        /\ st.current + st.pendingOpen + n <= MaxTotal[s]
        /\ st.current + st.pendingOpen + n <= TargetNotional(OpenLadder[s], k)
      BY <1>1, <2>1, OpenPlanFits DEF None
  <2>3. /\ plan.left \in States
        /\ plan.left.openSpread = k
        /\ plan.left.current = st.current
        /\ plan.left.pendingOpen = st.pendingOpen
        /\ plan.left.pendingClose = st.pendingClose
        /\ plan.left.active = st.active /\ plan.left.seq = st.seq
      BY <1>1, <2>1, <2>2, RefreshedFacts
  <2>4. /\ new \in States
        /\ new.openSpread = k
        /\ new.current = st.current /\ new.pendingOpen = st.pendingOpen + n
        /\ new.active = st.active + 2 /\ new.seq = st.seq + 2
        /\ new.pendingOpen + new.pendingClose
              = st.pendingOpen + st.pendingClose + plan.notional
    <3>1. new = Committed(plan.left, "Open", n)
        BY <1>5, <2>2
    <3> HIDE DEF new
    <3> DEFINE kept == plan.left
    <3> HIDE DEF kept
    <3>2. kept \in States
        BY <2>3 DEF kept
    <3>3. /\ Committed(kept, "Open", n) \in States
          /\ Committed(kept, "Open", n).openSpread = kept.openSpread
          /\ Committed(kept, "Open", n).current = kept.current
          /\ Committed(kept, "Open", n).pendingOpen = kept.pendingOpen + n
          /\ Committed(kept, "Open", n).pendingOpen
               + Committed(kept, "Open", n).pendingClose
                  = kept.pendingOpen + kept.pendingClose + n
          /\ Committed(kept, "Open", n).active = kept.active + 2
          /\ Committed(kept, "Open", n).seq = kept.seq + 2
        BY <2>2, <3>2, CommittedFacts
    <3>4. QED
        BY <2>2, <2>3, <3>1, <3>3 DEF kept
  <2> HIDE DEF new
  <2>5. /\ p \in 0..Len(OpenLadder[s]) /\ k <= p
        /\ p = (IF new.openSpread > peak[s] THEN new.openSpread ELSE peak[s])
      BY <1>1, <2>2, <2>4
  <2> HIDE DEF p
  <2>6. /\ TargetNotional(OpenLadder[s], k) <= TargetNotional(OpenLadder[s], p)
        /\ TargetNotional(OpenLadder[s], k) \in Nat
        /\ TargetNotional(OpenLadder[s], p) \in Nat
      BY <2>2, <2>5, LadderFacts
  <2>7. new.current + new.pendingOpen <= TargetNotional(OpenLadder[s], p)
      BY <1>2, <2>2, <2>4, <2>6, SMTT(30)
  <2>8. new.openSpread \in Reaches(OpenLadder[s])
      BY <2>4
  <2>9. Sound(s, new)
      BY <1>2, <2>2, <2>4, <2>5, <2>7, <2>8, SMTT(30) DEF Sound
  <2>10. QED
      BY <2>2, <2>4, <2>9
<1>6. plan.action \in {"Close", "Open"}
    BY <1>3 DEF Plans
<1>7. Sound(s, new) /\ plan.notional \in Nat /\ Accounts(new)
    BY <1>4, <1>5, <1>6
<1> HIDE DEF new
<1>8. commands' \in Seq(Orders) /\ Len(commands') <= CommandBound
    BY <1>1, <1>3, <1>7, EnqueueFacts
<1>9. /\ todo' \subseteq Strategy /\ UNCHANGED trusted
      /\ state' = [state EXCEPT ![s] = new]
      /\ slots' = [slots EXCEPT ![s] = MetricsOf(state'[s])]
      /\ RecordPeak(s)
    BY <1>3 DEF EvaluateAndCommit, Visit, IInv, TypeOK, new
<1>10. QueuedOrdersAccounted'
    BY <1>3, <1>7, <1>9, CommitAccounts
<1>11. QED
    BY <1>7, <1>8, <1>9, <1>10, EvaluatedIInv

----------------------------------------------------------------------------
(* The other actions.                                                      *)

LEMMA EvaluateCappedIInv ==
    ASSUME IInv, NEW s \in Strategy, EvaluateCapped(s)
    PROVE  IInv'
<1>1. /\ state \in [Strategy -> States]
      /\ DOMAIN slots = Strategy
      /\ slots' = [slots EXCEPT ![s] = MetricsOf(state[s])]
      /\ todo' \subseteq Strategy
      /\ UNCHANGED <<trusted, state, commands, peak>>
    BY DEF EvaluateCapped, Visit, IInv, TypeOK
<1>2. /\ DOMAIN slots' = Strategy
      /\ slots'[s] = MetricsOf(state[s])
      /\ \A t \in Strategy \ {s} : slots'[t] = slots[t]
    BY <1>1
<1>3. \A t \in Strategy :
          slots'[t] # NoMetrics => DOMAIN slots'[t] = DOMAIN NewState \ {"seq"}
    BY <1>1, <1>2, MetricsDomain DEF IInv, TypeOK
<1>4. TypeOK'
    BY <1>1, <1>3 DEF IInv, TypeOK
<1>5. MetricsCurrent'
    BY <1>1, <1>2 DEF IInv, MetricsCurrent
<1>6. QED
    BY <1>1, <1>2, <1>4, <1>5
       DEF IInv, SpreadBelowPeak, ExposureWithinLadder, OrdersWithinLimit,
           QueuedOrdersAccounted

(* Depth messages, strategies without books, and commands: neither a state *)
(* nor its metrics change.                                                 *)
LEMMA OthersIInv ==
    ASSUME IInv,
           UNCHANGED <<state, slots, peak>>,
           trusted' \in [Market -> BOOLEAN],
           todo' \subseteq Strategy,
           commands' \in Seq(Orders), Len(commands') <= CommandBound,
           QueuedOrdersAccounted'
    PROVE  IInv'
BY DEF IInv, TypeOK, SpreadBelowPeak, ExposureWithinLadder, OrdersWithinLimit,
       MetricsCurrent

LEMMA AccountsStay ==
    ASSUME IInv, UNCHANGED <<state, commands>>
    PROVE  QueuedOrdersAccounted'
BY DEF IInv, QueuedOrdersAccounted

LEMMA DepthIInv ==
    ASSUME IInv, NEW m \in Market, DepthApplied(m) \/ DepthGap(m)
    PROVE  IInv'
<1>1. UNCHANGED <<state, slots, peak, commands>>
    BY DEF DepthApplied, DepthGap
<1>2. trusted' \in [Market -> BOOLEAN] /\ todo' \subseteq Strategy
    BY DEF DepthApplied, DepthGap, StrategiesOf, IInv, TypeOK
<1>3. QED
    BY <1>1, <1>2, AccountsStay, OthersIInv DEF IInv, TypeOK

LEMMA SkipStrategyIInv ==
    ASSUME IInv, NEW s \in Strategy, SkipStrategy(s)
    PROVE  IInv'
BY AccountsStay, OthersIInv DEF SkipStrategy, Visit, IInv, TypeOK

LEMMA HandleCommandIInv == IInv /\ HandleCommand => IInv'
<1> SUFFICES ASSUME IInv, HandleCommand PROVE IInv'
    OBVIOUS
<1>1. /\ commands \in Seq(Orders) /\ commands # <<>>
      /\ commands' = Tail(commands)
      /\ Len(commands) <= CommandBound /\ CommandBound \in Nat
    BY EngineAssumption DEF HandleCommand, IInv, TypeOK
<1>2. commands' \in Seq(Orders) /\ Len(commands') <= CommandBound
    BY <1>1, EmptySeq, HeadTailProperties, LenProperties
<1>3. QueuedOrdersAccounted'
  <2>1. /\ UNCHANGED state
        /\ DOMAIN commands = 1..Len(commands) /\ Len(commands) \in Nat \ {0}
        /\ DOMAIN commands' = 1..(Len(commands) - 1)
        /\ \A i \in DOMAIN commands' :
              i + 1 \in DOMAIN commands /\ commands'[i] = commands[i + 1]
      BY <1>1, EmptySeq, HeadTailProperties, LenProperties DEF HandleCommand
  <2>2. ASSUME NEW s \in Strategy, NEW leg \in {"long", "short"}
        PROVE  QueuedNotional(commands', s, leg)
                  <= state'[s].pendingOpen + state'[s].pendingClose
    <3>1. QueuedNotional(commands, s, leg)
             <= state[s].pendingOpen + state[s].pendingClose
        BY DEF IInv, QueuedOrdersAccounted
    <3>2. state[s].pendingOpen \in Nat /\ state[s].pendingClose \in Nat
        BY DEF IInv, TypeOK, States
    <3>3. QED
        BY <1>1, <2>1, <3>1, <3>2, QueuedTail
  <2>3. InOrder(commands')
      BY <2>1 DEF IInv, QueuedOrdersAccounted, InOrder
  <2>4. \A i \in DOMAIN commands' :
           commands'[i].seq \in 1..state'[commands'[i].strategy].seq
      BY <2>1 DEF IInv, QueuedOrdersAccounted
  <2>5. QED
      BY <2>2, <2>3, <2>4 DEF QueuedOrdersAccounted, InOrder
<1>4. QED
    BY <1>2, <1>3, OthersIInv DEF HandleCommand, IInv, TypeOK

LEMMA FlushMetricsIInv == IInv /\ FlushMetrics => IInv'
BY DEF FlushMetrics, IInv, TypeOK, SpreadBelowPeak, ExposureWithinLadder,
       OrdersWithinLimit, MetricsCurrent, QueuedOrdersAccounted

LEMMA NextIInv == IInv /\ [Next]_vars => IInv'
<1> SUFFICES ASSUME IInv, [Next]_vars PROVE IInv'
    OBVIOUS
<1>1. CASE UNCHANGED vars
    BY <1>1, AccountsStay, OthersIInv DEF vars, IInv, TypeOK
<1>2. CASE EvaluateStrategy
    BY <1>2, SkipStrategyIInv, EvaluateCappedIInv, EvaluateOnlyIInv,
       EvaluateAndCommitIInv DEF EvaluateStrategy
<1>3. QED
    BY <1>1, <1>2, DepthIInv, HandleCommandIInv, FlushMetricsIInv DEF Next

----------------------------------------------------------------------------
(* The inductive invariant of the worker's loop.                           *)
THEOREM Invariance == Spec => []IInv
BY InitIInv, NextIInv, PTL DEF Spec

(* States, slots and the command queue stay in their types, the queue      *)
(* within its capacity.                                                    *)
THEOREM TypeCorrectness == Spec => []TypeOK
<1>1. IInv => TypeOK
    BY DEF IInv
<1>2. QED
    BY <1>1, Invariance, PTL

(* No sequence of spreads, commits, dropped commands and lost books makes  *)
(* a strategy hold more than its ladder and its cap allow, whatever they   *)
(* are.                                                                    *)
THEOREM ExposureBound == Spec => []ExposureWithinLadder
<1>1. IInv => ExposureWithinLadder
    BY DEF IInv
<1>2. QED
    BY <1>1, Invariance, PTL

(* Room for a pair is checked before every commit: max_open_orders holds   *)
(* whatever it is, also when it is odd or zero.                            *)
THEOREM OrdersBound == Spec => []OrdersWithinLimit
<1>1. IInv => OrdersWithinLimit
    BY DEF IInv
<1>2. QED
    BY <1>1, Invariance, PTL

(* Metrics that wait in a slot are never stale.                            *)
THEOREM MetricsStayCurrent == Spec => []MetricsCurrent
<1>1. IInv => MetricsCurrent
    BY DEF IInv
<1>2. QED
    BY <1>1, Invariance, PTL

----------------------------------------------------------------------------

(* However little of a pair fits the queue, no order in it has an id that  *)
(* was never issued or is in it twice, and per leg the queue never holds   *)
(* more notional than the strategy counts as pending.                      *)
THEOREM QueueAccounted == Spec => []QueuedOrdersAccounted
<1>1. IInv => QueuedOrdersAccounted
    BY DEF IInv
<1>2. QED
    BY <1>1, Invariance, PTL

----------------------------------------------------------------------------

-----------------------------------------------------------------------------
(* DepthMatch: what a plan may count, and what it takes from the books.    *)

Sells(leg) == Side(action, leg) = "Sell"

(* The sides of the books are sorted, best first.                          *)
Sorted ==
    \A leg \in Leg : \A i, j \in 1..Len(depth[leg]) :
        i < j => Better(Side(action, leg),
                        depth[leg][i].price, depth[leg][j].price)

(* Before the loop nothing is matched.                                     *)
Unstarted ==
    pc = "start" => remaining = desired /\ \A leg \in Leg : qty[leg] = 0

(* The loop looks at positive levels, a selling leg at none above its last *)
(* price.                                                                  *)
AtLevels ==
    pc = "matching" =>
        \A leg \in Leg :
            /\ at[leg] \in Positive(depth[leg])
            /\ Sells(leg) => qty[leg] = 0 \/ CurrentPrice(leg) <= last[leg]

(* The quantity sold is worth no more than what was matched.               *)
SoldBelow ==
    \A leg \in Leg : Sells(leg) => qty[leg] * last[leg] <= matched * Scale

(* What prepare_plan_for_order makes of the match.                         *)
OrderWithin ==
    /\ pc # "done" => order = NoOrder
    /\ order # NoOrder =>
          \A leg \in Leg :
              /\ order.legs[leg].qty <= qty[leg]
              /\ order.notional <=
                    order.legs[leg].qty * order.legs[leg].price

(* What every state of the computation of a plan satisfies, its depth      *)
(* aside.                                                                  *)
MatchInv ==
    /\ MatchTypeOK
    /\ matched + remaining = desired
    /\ pc = "matching" => remaining > 0
    /\ Sorted
    /\ Unstarted
    /\ AtLevels
    /\ SoldBelow
    /\ OrderWithin

----------------------------------------------------------------------------
(* Arithmetic.                                                             *)

LEMMA ProductsGrow ==
    ASSUME NEW a \in Nat, NEW b \in Nat, NEW c \in Nat, a <= b
    PROVE  /\ a * c \in Nat /\ b * c \in Nat
           /\ a * c <= b * c /\ c * a <= c * b
OBVIOUS

(* One more quantity bought at a price.                                    *)
LEMMA BoughtWorth ==
    ASSUME NEW q \in Nat, NEW t \in Nat, NEW p \in Price
    PROVE  /\ Bought(t, p) \in Nat
           /\ (q + Bought(t, p)) * p = q * p + t * Scale
<1>1. Unit[p] \in Nat /\ p \in Nat /\ Unit[p] * p = Scale
    BY DepthMatchAssumption
<1>2. \A u, r \in Nat : (q + t * u) * r = q * r + t * (u * r) /\ t * u \in Nat
    OBVIOUS
<1>3. QED
    BY <1>1, <1>2 DEF Bought

LEMMA FloorFacts ==
    ASSUME NEW v \in Nat, NEW s \in Nat \ {0}
    PROVE  FloorTo(v, s) \in Nat /\ FloorTo(v, s) <= v
<1>1. v \div s \in Nat /\ (v \div s) * s <= v
    OBVIOUS
<1>2. (v \div s) * s \in Nat
    BY <1>1
<1>3. QED
    BY <1>1, <1>2 DEF FloorTo

LEMMA CeilNat ==
    ASSUME NEW v \in Nat, NEW s \in Nat \ {0}
    PROVE  CeilTo(v, s) \in Nat
<1>1. v + s - 1 \in Nat
    OBVIOUS
<1>2. (v + s - 1) \div s \in Nat
    BY <1>1
<1>3. QED
    BY <1>2 DEF CeilTo

(* Aligning to a rule keeps naturals, and never raises a quantity.         *)
LEMMA AlignFacts ==
    ASSUME NEW rule \in Rule, NEW v \in Nat, NEW side
    PROVE  /\ AlignQty(v, rule) \in Nat /\ AlignQty(v, rule) <= v
           /\ AlignPrice(v, side, rule) \in Nat
<1>1. /\ rule.qtyStep \in Nat \ {0} /\ rule.qtyGrain \in Nat \ {0}
      /\ rule.tick \in Nat \ {0} /\ rule.tickGrain \in Nat \ {0}
    BY DepthMatchAssumption
<1>2. AlignQty(v, rule) \in Nat /\ AlignQty(v, rule) <= v
  <2>1. FloorTo(v, rule.qtyStep) \in Nat /\ FloorTo(v, rule.qtyStep) <= v
    BY <1>1, FloorFacts
  <2>2. /\ AlignQty(v, rule) \in Nat
        /\ AlignQty(v, rule) <= FloorTo(v, rule.qtyStep)
    BY <1>1, <2>1, FloorFacts DEF AlignQty
  <2>3. QED
    BY <2>1, <2>2
<1>3. AlignPrice(v, side, rule) \in Nat
  <2>1. FloorTo(v, rule.tick) \in Nat /\ CeilTo(v, rule.tick) \in Nat
    BY <1>1, FloorFacts, CeilNat
  <2>2. /\ FloorTo(FloorTo(v, rule.tick), rule.tickGrain) \in Nat
        /\ CeilTo(CeilTo(v, rule.tick), rule.tickGrain) \in Nat
    BY <1>1, <2>1, FloorFacts, CeilNat
  <2>3. QED
    BY <2>2 DEF AlignPrice
<1>4. QED
    BY <1>2, <1>3

----------------------------------------------------------------------------
(* The levels the loop looks at.                                           *)

LEMMA PositiveFacts ==
    ASSUME NEW levels \in Seq(Level), NEW i \in Positive(levels)
    PROVE  /\ i \in 1..Len(levels) /\ i \in 0..MaxMatchLevels
           /\ levels[i].price \in Price /\ levels[i].price \in Nat
           /\ LevelNotional(levels[i]) \in Nat
           /\ LevelNotional(levels[i]) > 0
<1>1. i \in 1..Len(levels) /\ i <= MaxMatchLevels
      /\ LevelNotional(levels[i]) > 0
    BY DEF Positive
<1>2. levels[i] \in Level
    BY <1>1, ElementOfSeq
<1>3. /\ levels[i].price \in Price /\ levels[i].qty \in Nat
      /\ levels[i].price \in Nat
  <2>1. levels[i].price \in Price /\ levels[i].qty \in 0..MaxQty
    BY <1>2 DEF Level
  <2>2. MaxQty \in Nat /\ \A p \in Price : p \in Nat
    BY DepthMatchAssumption
  <2>3. levels[i].price \in Nat
    BY <2>1, <2>2
  <2>4. levels[i].qty \in Nat
    BY <2>1, <2>2
  <2>5. QED
    BY <2>1, <2>3, <2>4
<1>4. levels[i].price * levels[i].qty \in Nat
    BY <1>3
<1>5. QED
    BY <1>1, <1>3, <1>4, DepthMatchAssumption DEF LevelNotional

(* A pass takes something, and no more than is there.                      *)
LEMMA TakeFacts ==
    ASSUME MatchInv, pc = "matching"
    PROVE  /\ Take \in Nat /\ Take <= remaining
           /\ \A leg \in Leg : Take <= left[leg]
<1>1. left["long"] \in Nat /\ left["short"] \in Nat /\ remaining \in Nat
    BY DEF MatchInv, MatchTypeOK, Leg
<1>2. QED
    BY <1>1 DEF Take, Minimum, Leg

----------------------------------------------------------------------------
LEMMA MatchInitInv == MatchInit => MatchInv
<1> SUFFICES ASSUME MatchInit PROVE MatchInv
    OBVIOUS
<1> USE DEF MatchInit
<1>1. PICK long \in BookSides(Side(action, "long")),
           short \in BookSides(Side(action, "short")) :
         depth = [leg \in Leg |-> IF leg = "long" THEN long ELSE short]
    OBVIOUS
<1>2. ASSUME NEW side, NEW levels \in BookSides(side)
      PROVE  /\ levels \in Seq(Level)
             /\ \A i, j \in 1..Len(levels) :
                   i < j => Better(side, levels[i].price, levels[j].price)
  <2>1. PICK n \in 0..MaxLevels : levels \in [1..n -> Level]
    BY <1>2 DEF BookSides
  <2>2. n \in Nat
    BY DepthMatchAssumption
  <2>3. levels \in Seq(Level)
    BY <2>1, <2>2
  <2>4. QED
    BY <1>2, <2>3 DEF BookSides
<1>3. depth \in [Leg -> Seq(Level)] /\ Sorted
    BY <1>1, <1>2 DEF Sorted, Leg
<1>4. desired \in Nat /\ desired \in 1..MaxDesired
    BY DepthMatchAssumption
<1>5. MatchTypeOK
    BY <1>3, <1>4, DepthMatchAssumption DEF MatchTypeOK
<1>6. SoldBelow
    BY DepthMatchAssumption DEF SoldBelow
<1>7. QED
    BY <1>3, <1>4, <1>5, <1>6 DEF MatchInv, Unstarted, AtLevels, OrderWithin

----------------------------------------------------------------------------
(* match_depth.                                                            *)

LEMMA StartInv == MatchInv /\ Start => MatchInv'
<1> SUFFICES ASSUME MatchInv, Start PROVE MatchInv'
    OBVIOUS
<1>1. PICK first \in [Leg -> 1..MaxMatchLevels] :
         /\ \A leg \in Leg : IsNextLevel(depth[leg], 0, first[leg])
         /\ at' = first
         /\ left' = [leg \in Leg |-> LevelNotional(depth[leg][first[leg]])]
    BY DEF Start
<1>2. /\ pc = "start" /\ pc' = "matching" /\ order = NoOrder
      /\ UNCHANGED <<action, desired, depth, remaining, matched, qty, last,
                     order>>
    BY DEF Start, inputs, MatchInv, OrderWithin
<1>3. \A leg \in Leg : /\ depth[leg] \in Seq(Level)
                       /\ first[leg] \in Positive(depth[leg])
    BY <1>1 DEF IsNextLevel, MatchInv, MatchTypeOK
<1>4. \A leg \in Leg : /\ LevelNotional(depth[leg][first[leg]]) \in Nat
                       /\ first[leg] \in 0..MaxMatchLevels
    BY <1>3, PositiveFacts
<1>5. MatchTypeOK'
    BY <1>1, <1>2, <1>4 DEF MatchInv, MatchTypeOK
<1>6. AtLevels'
    BY <1>1, <1>2, <1>3 DEF AtLevels, MatchInv, Unstarted, Sells
<1>7. (Sorted /\ SoldBelow)'
    BY <1>2 DEF MatchInv, Sorted, SoldBelow, Sells
<1>8. (Unstarted /\ OrderWithin)'
    BY <1>2 DEF Unstarted, OrderWithin
<1>9. (matched + remaining = desired /\ (pc = "matching" => remaining > 0))'
    BY <1>2 DEF MatchInv, Unstarted, MatchTypeOK
<1>10. QED
    BY <1>5, <1>6, <1>7, <1>8, <1>9 DEF MatchInv

LEMMA StartEmptyInv == MatchInv /\ StartEmpty => MatchInv'
<1> SUFFICES ASSUME MatchInv, StartEmpty PROVE MatchInv'
    OBVIOUS
<1>1. /\ pc = "start" /\ pc' = "done"
      /\ UNCHANGED <<action, desired, depth, at, left, remaining, matched,
                     qty, last, order>>
    BY DEF StartEmpty, inputs
<1>2. QED
    BY <1>1 DEF MatchInv, MatchTypeOK, Sorted, Unstarted, AtLevels, SoldBelow,
                OrderWithin, Sells

(* What every pass does, wherever the legs go on.                          *)
LEMMA TakeBothFacts ==
    ASSUME MatchInv, TakeBoth
    PROVE  /\ UNCHANGED <<action, desired, depth, order>>
           /\ order = NoOrder
           /\ remaining' \in 0..desired /\ matched' \in 0..desired
           /\ matched' + remaining' = desired
           /\ qty' \in [Leg -> Nat] /\ last' \in [Leg -> Nat]
           /\ \A leg \in Leg : last'[leg] = CurrentPrice(leg)
           /\ \A leg \in Leg : CurrentPrice(leg) \in Nat
           /\ SoldBelow'
<1>1. /\ pc = "matching"
      /\ remaining' = remaining - Take
      /\ matched' = matched + Take
      /\ qty' = [leg \in Leg |-> qty[leg] + Bought(Take, CurrentPrice(leg))]
      /\ last' = [leg \in Leg |-> CurrentPrice(leg)]
      /\ UNCHANGED <<action, desired, depth, order>>
    BY DEF TakeBoth, inputs
<1>2. /\ desired \in Nat /\ remaining \in 0..desired
      /\ matched \in 0..desired /\ matched + remaining = desired
      /\ qty \in [Leg -> Nat] /\ last \in [Leg -> Nat]
      /\ depth \in [Leg -> Seq(Level)] /\ order = NoOrder
    BY <1>1, DepthMatchAssumption DEF MatchInv, MatchTypeOK, OrderWithin
<1>3. Take \in Nat /\ Take <= remaining
    BY <1>1, TakeFacts
<1> HIDE DEF Take
<1>4. \A leg \in Leg : CurrentPrice(leg) \in Price /\ CurrentPrice(leg) \in Nat
    BY <1>1, <1>2, PositiveFacts DEF MatchInv, AtLevels, CurrentPrice
<1>5. \A leg \in Leg :
         /\ Bought(Take, CurrentPrice(leg)) \in Nat
         /\ (qty[leg] + Bought(Take, CurrentPrice(leg))) * CurrentPrice(leg)
              = qty[leg] * CurrentPrice(leg) + Take * Scale
    BY <1>2, <1>3, <1>4, BoughtWorth
<1>6. SoldBelow'
  <2> SUFFICES ASSUME NEW leg \in Leg, Sells(leg)
               PROVE  qty'[leg] * last'[leg] <= matched' * Scale
    BY <1>1 DEF SoldBelow, Sells
  <2> DEFINE p == CurrentPrice(leg)
             q == qty[leg]
             t == Take
  <2>1. /\ p \in Nat /\ q \in Nat /\ last[leg] \in Nat /\ Scale \in Nat
        /\ t \in Nat /\ matched \in Nat
    BY <1>2, <1>3, <1>4, DepthMatchAssumption
  <2>2. q = 0 \/ p <= last[leg]
    BY <1>1 DEF MatchInv, AtLevels
  <2>3. q * last[leg] <= matched * Scale
    BY DEF MatchInv, SoldBelow
  <2>4. qty'[leg] * last'[leg] = q * p + t * Scale
    BY <1>1, <1>5
  <2>5. matched' = matched + t
    BY <1>1
  <2> HIDE DEF p, q, t
  <2>6. q * p <= q * last[leg] /\ q * p \in Nat /\ q * last[leg] \in Nat
    BY <2>1, <2>2, ProductsGrow
  <2>7. /\ (matched + t) * Scale = matched * Scale + t * Scale
        /\ matched * Scale \in Nat /\ t * Scale \in Nat
    BY <2>1
  <2>8. QED
    BY <2>3, <2>4, <2>5, <2>6, <2>7
<1>7. remaining' \in 0..desired /\ matched' \in 0..desired
      /\ matched' + remaining' = desired
    BY <1>1, <1>2, <1>3
<1>8. /\ qty' \in [Leg -> Nat] /\ last' \in [Leg -> Nat]
      /\ \A leg \in Leg : last'[leg] = CurrentPrice(leg)
    BY <1>1, <1>2, <1>4, <1>5
<1>9. QED
    BY <1>1, <1>2, <1>4, <1>6, <1>7, <1>8

LEMMA MatchAndGoOnInv == MatchInv /\ MatchAndGoOn => MatchInv'
<1> SUFFICES ASSUME MatchInv, MatchAndGoOn PROVE MatchInv'
    OBVIOUS
<1>1. PICK next \in [Leg -> 1..MaxMatchLevels] :
         /\ \A leg \in Leg : GoesOnAt(leg, next[leg])
         /\ at' = next
         /\ left' = [leg \in Leg |->
               IF left[leg] > Take THEN left[leg] - Take
               ELSE LevelNotional(depth[leg][next[leg]])]
    BY DEF MatchAndGoOn
<1>2. /\ TakeBoth /\ pc = "matching"
      /\ pc' = IF remaining' > 0 THEN "matching" ELSE "matched"
    BY DEF MatchAndGoOn, TakeBoth
<1>3. /\ UNCHANGED <<action, desired, depth, order>>
      /\ order = NoOrder
      /\ remaining' \in 0..desired /\ matched' \in 0..desired
      /\ matched' + remaining' = desired
      /\ qty' \in [Leg -> Nat] /\ last' \in [Leg -> Nat]
      /\ \A leg \in Leg : last'[leg] = CurrentPrice(leg)
      /\ \A leg \in Leg : CurrentPrice(leg) \in Nat
      /\ SoldBelow'
    BY <1>2, TakeBothFacts
<1>4. Take \in Nat
    BY <1>2, TakeFacts
<1> HIDE DEF Take
<1>5. \A leg \in Leg : /\ depth[leg] \in Seq(Level)
                       /\ at[leg] \in Positive(depth[leg])
                       /\ next[leg] \in Positive(depth[leg])
                       /\ next[leg] = at[leg] \/ next[leg] > at[leg]
    BY <1>1, <1>2 DEF GoesOnAt, IsNextLevel, MatchInv, MatchTypeOK, AtLevels
<1>6. left' \in [Leg -> Nat] /\ at' \in [Leg -> 0..MaxMatchLevels]
  <2>1. \A leg \in Leg : /\ LevelNotional(depth[leg][next[leg]]) \in Nat
                         /\ next[leg] \in 0..MaxMatchLevels
    BY <1>5, PositiveFacts
  <2>2. \A leg \in Leg : left[leg] \in Nat
    BY DEF MatchInv, MatchTypeOK
  <2>3. QED
    BY <1>1, <1>4, <2>1, <2>2
<1>7. MatchTypeOK'
    BY <1>2, <1>3, <1>6 DEF MatchInv, MatchTypeOK
<1>8. AtLevels'
  <2> SUFFICES ASSUME NEW leg \in Leg
               PROVE  /\ next[leg] \in Positive(depth[leg])
                      /\ Sells(leg) =>
                            depth[leg][next[leg]].price <= last'[leg]
    BY <1>1, <1>3 DEF AtLevels, Sells, CurrentPrice
  <2>1. /\ next[leg] \in 1..Len(depth[leg]) /\ at[leg] \in 1..Len(depth[leg])
        /\ depth[leg][next[leg]].price \in Nat
    BY <1>5, PositiveFacts
  <2>2. last'[leg] = depth[leg][at[leg]].price /\ last'[leg] \in Nat
    BY <1>3 DEF CurrentPrice
  <2>3. CASE next[leg] = at[leg]
    BY <1>5, <2>1, <2>2, <2>3
  <2>4. CASE next[leg] > at[leg]
    <3>1. Sells(leg) => Better("Sell", depth[leg][at[leg]].price,
                               depth[leg][next[leg]].price)
      BY <2>1, <2>4 DEF MatchInv, Sorted, Sells
    <3>2. QED
      BY <1>5, <2>1, <2>2, <3>1 DEF Better
  <2>5. QED
    BY <1>5, <2>3, <2>4
<1>9. (Sorted /\ Unstarted /\ OrderWithin)'
    BY <1>2, <1>3 DEF MatchInv, Sorted, Unstarted, OrderWithin
<1>10. QED
    BY <1>2, <1>3, <1>7, <1>8, <1>9 DEF MatchInv

LEMMA MatchAndBreakInv == MatchInv /\ MatchAndBreak => MatchInv'
<1> SUFFICES ASSUME MatchInv, MatchAndBreak PROVE MatchInv'
    OBVIOUS
<1>1. /\ TakeBoth /\ pc = "matching" /\ pc' = "matched"
      /\ UNCHANGED <<at, left>>
    BY DEF MatchAndBreak, TakeBoth
<1>2. /\ UNCHANGED <<action, desired, depth, order>>
      /\ order = NoOrder
      /\ remaining' \in 0..desired /\ matched' \in 0..desired
      /\ matched' + remaining' = desired
      /\ qty' \in [Leg -> Nat] /\ last' \in [Leg -> Nat]
      /\ SoldBelow'
    BY <1>1, TakeBothFacts
<1>3. MatchTypeOK'
    BY <1>1, <1>2 DEF MatchInv, MatchTypeOK
<1>4. (Sorted /\ Unstarted /\ AtLevels /\ OrderWithin)'
    BY <1>1, <1>2 DEF MatchInv, Sorted, Unstarted, AtLevels, OrderWithin
<1>5. QED
    BY <1>1, <1>2, <1>3, <1>4 DEF MatchInv

----------------------------------------------------------------------------
(* prepare_plan_for_order.                                                 *)

LEMMA PrepareInv == MatchInv /\ Prepare => MatchInv'
<1> SUFFICES ASSUME MatchInv, Prepare PROVE MatchInv'
    OBVIOUS
<1>1. PICK rules \in [Leg -> Rule] :
         LET legs == [leg \in Leg |-> PlaceOrder(leg, rules[leg])]
             notional == [leg \in Leg |-> legs[leg].qty * legs[leg].price]
         IN  /\ \A leg \in Leg : Accepted(legs[leg], rules[leg])
             /\ Minimum(notional["long"], notional["short"]) > 0
             /\ order' = [legs |-> legs, rules |-> rules,
                          notional |-> Minimum(notional["long"],
                                               notional["short"])]
    BY DEF Prepare
<1> DEFINE legs == [leg \in Leg |-> PlaceOrder(leg, rules[leg])]
           worth == [leg \in Leg |-> legs[leg].qty * legs[leg].price]
           n == Minimum(worth["long"], worth["short"])
<1>2. /\ \A leg \in Leg : Accepted(legs[leg], rules[leg])
      /\ n > 0 /\ order' = [legs |-> legs, rules |-> rules, notional |-> n]
    BY <1>1
<1>3. /\ pc' = "done"
      /\ UNCHANGED <<action, desired, depth, at, left, remaining, matched,
                     qty, last>>
    BY DEF Prepare, inputs
<1>4. \A leg \in Leg :
         /\ legs[leg] \in [qty : Nat \ {0}, price : Nat \ {0}]
         /\ legs[leg].qty \in Nat /\ legs[leg].price \in Nat
         /\ legs[leg].qty <= qty[leg]
  <2> SUFFICES ASSUME NEW leg \in Leg
               PROVE  /\ legs[leg] \in [qty : Nat \ {0}, price : Nat \ {0}]
                      /\ legs[leg].qty \in Nat /\ legs[leg].price \in Nat
                      /\ legs[leg].qty <= qty[leg]
    OBVIOUS
  <2>1. qty[leg] \in Nat /\ last[leg] \in Nat /\ rules[leg] \in Rule
    BY DEF MatchInv, MatchTypeOK
  <2>2. /\ AlignQty(qty[leg], rules[leg]) \in Nat
        /\ AlignQty(qty[leg], rules[leg]) <= qty[leg]
        /\ AlignPrice(last[leg], Side(action, leg), rules[leg]) \in Nat
    BY <2>1, AlignFacts
  <2>3. legs[leg] = [qty |-> AlignQty(qty[leg], rules[leg]),
                     price |-> AlignPrice(last[leg], Side(action, leg),
                                          rules[leg])]
    BY DEF PlaceOrder
  <2>4. legs[leg].qty > 0 /\ legs[leg].price > 0
    BY <1>2 DEF Accepted
  <2> HIDE DEF legs
  <2>5. QED
    BY <2>2, <2>3, <2>4
<1>5. legs \in [Leg -> [qty : Nat \ {0}, price : Nat \ {0}]]
    BY <1>4
<1>6. n \in Nat \ {0} /\ \A leg \in Leg : n <= worth[leg]
  <2>1. \A leg \in Leg : worth[leg] \in Nat
    BY <1>4
  <2> HIDE DEF worth
  <2>2. QED
    BY <1>2, <2>1 DEF Minimum, Leg
<1>7. \A leg \in Leg : n <= legs[leg].qty * legs[leg].price
    BY <1>6
<1> HIDE DEF legs, worth, n
<1>8. MatchTypeOK'
  <2>1. order' \in [legs : [Leg -> [qty : Nat \ {0}, price : Nat \ {0}]],
                    rules : [Leg -> Rule], notional : Nat \ {0}]
    BY <1>2, <1>5, <1>6
  <2>2. QED
    BY <1>3, <2>1 DEF MatchInv, MatchTypeOK
<1>9. OrderWithin'
    BY <1>2, <1>3, <1>4, <1>7 DEF OrderWithin
<1>10. (Sorted /\ Unstarted /\ AtLevels /\ SoldBelow)'
    BY <1>3 DEF MatchInv, Sorted, Unstarted, AtLevels, SoldBelow, Sells
<1>11. QED
    BY <1>3, <1>8, <1>9, <1>10 DEF MatchInv

LEMMA RejectInv == MatchInv /\ Reject => MatchInv'
<1> SUFFICES ASSUME MatchInv, Reject PROVE MatchInv'
    OBVIOUS
<1>1. /\ pc = "matched" /\ pc' = "done"
      /\ UNCHANGED <<action, desired, depth, at, left, remaining, matched,
                     qty, last, order>>
    BY DEF Reject, inputs
<1>2. QED
    BY <1>1 DEF MatchInv, MatchTypeOK, Sorted, Unstarted, AtLevels, SoldBelow,
                OrderWithin, Sells

----------------------------------------------------------------------------
(* Theorems.                                                               *)

LEMMA MatchNextInv == MatchInv /\ [MatchNext]_matchVars => MatchInv'
<1> SUFFICES ASSUME MatchInv, [MatchNext]_matchVars PROVE MatchInv'
    OBVIOUS
<1>1. CASE UNCHANGED matchVars
    BY <1>1 DEF matchVars, inputs, MatchInv, MatchTypeOK, Sorted, Unstarted, AtLevels,
                SoldBelow, OrderWithin, Sells, CurrentPrice
<1>2. QED
    BY <1>1, StartInv, StartEmptyInv, MatchAndGoOnInv, MatchAndBreakInv,
       PrepareInv, RejectInv DEF MatchNext

(* The inductive invariant of the computation of a plan.                   *)
THEOREM MatchInvariance == MatchSpec => []MatchInv
BY MatchInitInv, MatchNextInv, PTL DEF MatchSpec

(* The walk and the preparation keep their types: what is left of a level  *)
(* and of the desired notional is never negative, and a prepared order     *)
(* never has an empty leg.                                                 *)
THEOREM MatchTypes == MatchSpec => []MatchTypeOK
<1>1. MatchInv => MatchTypeOK
    BY DEF MatchInv
<1>2. QED
    BY <1>1, MatchInvariance, PTL

(* What commit_plan adds to the pending notional is never more than what   *)
(* the ladder asked match_depth for.                                       *)
THEOREM NotionalBounded == MatchSpec => []NotionalWithinDesired
<1>1. ASSUME MatchInv PROVE NotionalWithinDesired
  <2> SUFFICES ASSUME order # NoOrder, \A leg \in Leg : OnTick(leg)
               PROVE  order.notional <= desired * Scale
    BY DEF NotionalWithinDesired
  <2>1. PICK leg \in Leg : Sells(leg)
    BY <1>1 DEF MatchInv, MatchTypeOK, Sells, Side, Action, Leg
  <2> DEFINE o == order.legs[leg]
  <2>2. /\ order.notional \in Nat /\ o.qty \in Nat /\ o.price \in Nat
        /\ qty[leg] \in Nat /\ matched \in Nat /\ desired \in Nat
        /\ matched <= desired
    BY <1>1, DepthMatchAssumption, SMTT(40) DEF MatchInv, MatchTypeOK
  <2>3. /\ o.qty <= qty[leg] /\ order.notional <= o.qty * o.price
        /\ o.price = last[leg]
    BY <1>1 DEF MatchInv, OrderWithin, OnTick
  <2>4. qty[leg] * o.price <= matched * Scale
    BY <1>1, <2>1, <2>3 DEF MatchInv, SoldBelow
  <2> HIDE DEF o
  <2>5. /\ o.qty * o.price \in Nat /\ qty[leg] * o.price \in Nat
        /\ o.qty * o.price <= qty[leg] * o.price
    BY <2>2, <2>3, ProductsGrow
  <2>6. /\ matched * Scale \in Nat /\ desired * Scale \in Nat
        /\ matched * Scale <= desired * Scale
    BY <2>2, DepthMatchAssumption, ProductsGrow
  <2>7. QED
    BY <2>2, <2>3, <2>4, <2>5, <2>6
<1>2. QED
    BY <1>1, MatchInvariance, PTL

----------------------------------------------------------------------------
(* How far the walk is.                                                    *)

(* The levels the loop has looked at when it stands at level k.            *)
Passed(levels, k) == {i \in Positive(levels) : i <= k}

NotionalTo(levels, k) == SumFunctionOnSet(Notionals(levels), Passed(levels, k))
QuantityTo(levels, k) == SumFunctionOnSet(Quantities(levels), Passed(levels, k))

(* While the loop runs, what is matched and what is left of a leg's level  *)
(* make the notional of the levels so far; likewise for its quantity.      *)
Prefixes ==
    pc = "matching" =>
        \A leg \in Leg :
            /\ matched + left[leg] = NotionalTo(depth[leg], at[leg])
            /\ qty[leg] + Bought(left[leg], CurrentPrice(leg)) =
                  Scale * QuantityTo(depth[leg], at[leg])

(* The last price of a leg is that of a level up to which the book holds   *)
(* the leg's quantity.                                                     *)
Backed ==
    pc = "matched" \/ order # NoOrder =>
        \A leg \in Leg : \E k \in 1..Len(depth[leg]) :
            /\ last[leg] = depth[leg][k].price
            /\ qty[leg] <= Scale * QuantityTo(depth[leg], k)

(* What the depth properties need on top of MatchInv.                      *)
WalkInv == Prefixes /\ Backed /\ MatchesAllDepth

(* The levels of a book, their notionals and quantities, and what sums     *)
(* they may be in.                                                         *)
LEMMA LevelFacts ==
    ASSUME NEW levels \in Seq(Level)
    PROVE  /\ Len(levels) \in Nat /\ DOMAIN levels = 1..Len(levels)
           /\ \A i \in 1..Len(levels) :
                 /\ levels[i] \in Level
                 /\ levels[i].price \in Price /\ levels[i].price \in Nat
                 /\ levels[i].qty \in Nat
                 /\ Notionals(levels)[i] = LevelNotional(levels[i])
                 /\ Notionals(levels)[i] \in Nat
                 /\ Quantities(levels)[i] = levels[i].qty
           /\ NaturalOn(Notionals(levels), 1..Len(levels))
           /\ NaturalOn(Quantities(levels), 1..Len(levels))
<1>1. Len(levels) \in Nat /\ DOMAIN levels = 1..Len(levels)
    BY LenProperties
<1>2. \A i \in 1..Len(levels) : levels[i] \in Level
    BY ElementOfSeq
<1>3. \A i \in 1..Len(levels) :
         levels[i].price \in Price /\ levels[i].qty \in 0..MaxQty
    BY <1>2 DEF Level
<1>4. MaxQty \in Nat /\ \A p \in Price : p \in Nat
    BY DepthMatchAssumption
<1>5. \A i \in 1..Len(levels) : levels[i].price \in Nat /\ levels[i].qty \in Nat
    BY <1>3, <1>4
<1>6. \A p, q \in Nat : p * q \in Nat
    OBVIOUS
<1>7. \A i \in 1..Len(levels) : LevelNotional(levels[i]) \in Nat
    BY <1>5, <1>6 DEF LevelNotional
<1>8. \A i \in 1..Len(levels) :
         /\ Notionals(levels)[i] = LevelNotional(levels[i])
         /\ Quantities(levels)[i] = levels[i].qty
    BY <1>1 DEF Notionals, Quantities
<1>9. IsFiniteSet(1..Len(levels))
    BY <1>1, FS_Interval
<1>10. /\ NaturalOn(Notionals(levels), 1..Len(levels))
       /\ NaturalOn(Quantities(levels), 1..Len(levels))
    BY <1>5, <1>7, <1>8, <1>9 DEF NaturalOn
<1>11. QED
    BY <1>1, <1>2, <1>3, <1>5, <1>7, <1>8, <1>10

LEMMA PassedParts ==
    ASSUME NEW levels, NEW k
    PROVE  /\ Passed(levels, k) \in SUBSET Positive(levels)
           /\ Passed(levels, k) \in SUBSET (1..Len(levels))
           /\ Positive(levels) \in SUBSET (1..Len(levels))
           /\ Exhausted(levels, k) => Passed(levels, k) = Positive(levels)
BY DEF Passed, Positive, Exhausted

(* Going on to the next level adds that level.                             *)
LEMMA PassedNext ==
    ASSUME NEW levels \in Seq(Level), NEW k \in Nat, NEW i,
           IsNextLevel(levels, k, i),
           NEW f, NaturalOn(f, 1..Len(levels))
    PROVE  /\ SumFunctionOnSet(f, Passed(levels, i)) =
                 SumFunctionOnSet(f, Passed(levels, k)) + f[i]
           /\ SumFunctionOnSet(f, Passed(levels, k)) \in Nat
           /\ f[i] \in Nat
<1> DEFINE P == Passed(levels, k)
<1>1. /\ i \in Positive(levels) /\ i > k
      /\ \A j \in Positive(levels) : j > k => i <= j
    BY DEF IsNextLevel
<1>2. \A j \in Positive(levels) : j \in 1..Len(levels) /\ j \in Int
    BY DEF Positive
<1>3. i \notin P /\ Passed(levels, i) = P \cup {i}
    BY <1>1, <1>2 DEF Passed
<1>4. Passed(levels, i) \in SUBSET (1..Len(levels))
    BY PassedParts
<1>5. NaturalOn(f, Passed(levels, i))
    BY <1>4, NaturalOnPart
<1> HIDE DEF P
<1>6. NaturalOn(f, P \cup {i})
    BY <1>3, <1>5
<1>7. /\ SumFunctionOnSet(f, P \cup {i}) = SumFunctionOnSet(f, P) + f[i]
      /\ f[i] \in Nat /\ SumFunctionOnSet(f, P) \in Nat
    BY <1>3, <1>6, SumAdds
<1>8. QED
    BY <1>3, <1>7 DEF P

(* What a notional buys: in two parts, and of a whole level.               *)
LEMMA BoughtParts ==
    ASSUME NEW l \in Nat, NEW t \in Nat, t <= l, NEW p \in Price
    PROVE  /\ Bought(t, p) \in Nat /\ Bought(l - t, p) \in Nat
           /\ Bought(l, p) = Bought(t, p) + Bought(l - t, p)
<1>1. Unit[p] \in Nat
    BY DepthMatchAssumption
<1>2. \A r, u \in Nat : r * u \in Nat
    OBVIOUS
<1>3. \A u \in Nat : l * u = t * u + (l - t) * u
    OBVIOUS
<1>4. l - t \in Nat
    OBVIOUS
<1>5. QED
    BY <1>1, <1>2, <1>3, <1>4 DEF Bought

LEMMA LevelBought ==
    ASSUME NEW level \in Level
    PROVE  /\ Bought(LevelNotional(level), level.price) = Scale * level.qty
<1>1. level.price \in Price /\ level.qty \in 0..MaxQty /\ MaxQty \in Nat
    BY DepthMatchAssumption DEF Level
<1>2. /\ Unit[level.price] \in Nat /\ level.price \in Nat
      /\ Unit[level.price] * level.price = Scale
    BY <1>1, DepthMatchAssumption
<1>3. level.qty \in Nat
    BY <1>1
<1>4. \A p, q, u \in Nat : (p * q) * u = (u * p) * q
    OBVIOUS
<1>5. QED
    BY <1>2, <1>3, <1>4 DEF Bought, LevelNotional

(* A prefix is never worth more than the whole book.                       *)
LEMMA ToFacts ==
    ASSUME NEW levels \in Seq(Level), NEW k
    PROVE  /\ NotionalTo(levels, k) \in Nat /\ QuantityTo(levels, k) \in Nat
           /\ SumFunctionOnSet(Notionals(levels), Positive(levels)) \in Nat
           /\ NotionalTo(levels, k)
                 <= SumFunctionOnSet(Notionals(levels), Positive(levels))
<1>1. /\ NaturalOn(Notionals(levels), Positive(levels))
      /\ NaturalOn(Quantities(levels), Passed(levels, k))
      /\ Passed(levels, k) \in SUBSET Positive(levels)
    BY LevelFacts, PassedParts, NaturalOnPart
<1>2. QED
    BY <1>1, SumNatural, SumGrows DEF NotionalTo, QuantityTo

LEMMA ToStart ==
    ASSUME NEW levels
    PROVE  NotionalTo(levels, 0) = 0 /\ QuantityTo(levels, 0) = 0
<1>1. Passed(levels, 0) = {}
    BY DEF Passed, Positive
<1>2. QED
    BY <1>1, SumEmpty DEF NotionalTo, QuantityTo

(* The next level adds its notional and its quantity to the prefix.        *)
LEMMA ToNext ==
    ASSUME NEW levels \in Seq(Level), NEW k \in Nat, NEW i,
           IsNextLevel(levels, k, i)
    PROVE  /\ NotionalTo(levels, i) =
                 NotionalTo(levels, k) + LevelNotional(levels[i])
           /\ Scale * QuantityTo(levels, i) =
                 Scale * QuantityTo(levels, k)
                    + Bought(LevelNotional(levels[i]), levels[i].price)
           /\ Scale * QuantityTo(levels, k) \in Nat
           /\ LevelNotional(levels[i]) \in Nat
           /\ Bought(LevelNotional(levels[i]), levels[i].price) \in Nat
<1>1. i \in 1..Len(levels)
    BY DEF IsNextLevel, Positive
<1>2. /\ levels[i] \in Level /\ levels[i].qty \in Nat
      /\ Notionals(levels)[i] = LevelNotional(levels[i])
      /\ Quantities(levels)[i] = levels[i].qty
      /\ NaturalOn(Notionals(levels), 1..Len(levels))
      /\ NaturalOn(Quantities(levels), 1..Len(levels))
    BY <1>1, LevelFacts
<1>3. /\ NotionalTo(levels, i) =
            NotionalTo(levels, k) + LevelNotional(levels[i])
      /\ LevelNotional(levels[i]) \in Nat
    BY <1>2, PassedNext DEF NotionalTo
<1>4. /\ QuantityTo(levels, i) = QuantityTo(levels, k) + levels[i].qty
      /\ QuantityTo(levels, k) \in Nat
    BY <1>2, PassedNext DEF QuantityTo
<1>5. Scale \in Nat
    BY DepthMatchAssumption
<1>6. \A a, b, c \in Nat : /\ a * (b + c) = a * b + a * c
                          /\ a * b \in Nat
    OBVIOUS
<1>7. /\ Scale * QuantityTo(levels, i) =
            Scale * QuantityTo(levels, k) + Scale * levels[i].qty
      /\ Scale * QuantityTo(levels, k) \in Nat
      /\ Scale * levels[i].qty \in Nat
    BY <1>2, <1>4, <1>5, <1>6, SMTT(40)
<1>8. Bought(LevelNotional(levels[i]), levels[i].price) = Scale * levels[i].qty
    BY <1>2, LevelBought
<1>9. QED
    BY <1>3, <1>7, <1>8

(* What a pass leaves, before a leg goes on.                               *)
LEMMA PassFacts ==
    ASSUME MatchInv, WalkInv, TakeBoth, NEW leg \in Leg
    PROVE  /\ depth[leg] \in Seq(Level)
           /\ at[leg] \in Nat /\ at[leg] \in 1..Len(depth[leg])
           /\ left[leg] \in Nat /\ Take \in Nat /\ Take <= left[leg]
           /\ matched \in Nat /\ matched' = matched + Take
           /\ qty[leg] \in Nat /\ qty'[leg] \in Nat
           /\ matched' + (left[leg] - Take) = NotionalTo(depth[leg], at[leg])
           /\ qty'[leg] + Bought(left[leg] - Take, CurrentPrice(leg)) =
                 Scale * QuantityTo(depth[leg], at[leg])
           /\ qty'[leg] <= Scale * QuantityTo(depth[leg], at[leg])
           /\ NotionalTo(depth[leg], at[leg]) <= DepthNotional(leg)
           /\ DepthNotional(leg) \in Nat
           /\ matched' <= DepthNotional(leg)
<1> DEFINE p == CurrentPrice(leg)
           t == Take
           l == left[leg]
           n == NotionalTo(depth[leg], at[leg])
           q == Scale * QuantityTo(depth[leg], at[leg])
<1>1. /\ pc = "matching"
      /\ matched' = matched + t
      /\ qty'[leg] = qty[leg] + Bought(t, p)
    BY DEF TakeBoth
<1>2. /\ depth[leg] \in Seq(Level) /\ l \in Nat /\ qty[leg] \in Nat
      /\ matched \in Nat
    BY DepthMatchAssumption DEF MatchInv, MatchTypeOK
<1>3. at[leg] \in Positive(depth[leg])
    BY <1>1 DEF MatchInv, AtLevels
<1>4. /\ at[leg] \in 1..Len(depth[leg]) /\ p \in Price
    BY <1>2, <1>3, PositiveFacts DEF CurrentPrice
<1>5. t \in Nat /\ t <= l
    BY <1>1, TakeFacts
<1>6. matched + l = n /\ qty[leg] + Bought(l, p) = q
    BY <1>1 DEF WalkInv, Prefixes
<1>7. /\ n \in Nat /\ n <= DepthNotional(leg) /\ DepthNotional(leg) \in Nat
    BY <1>2, ToFacts DEF DepthNotional
<1> HIDE DEF p, t, l, n, q
<1>8. /\ Bought(t, p) \in Nat /\ Bought(l - t, p) \in Nat
      /\ Bought(l, p) = Bought(t, p) + Bought(l - t, p)
    BY <1>2, <1>4, <1>5, BoughtParts
<1>9. /\ qty'[leg] \in Nat /\ qty'[leg] + Bought(l - t, p) = q
      /\ qty'[leg] <= q
    BY <1>1, <1>2, <1>6, <1>8
<1>10. matched' + (l - t) = n /\ matched' <= DepthNotional(leg)
    BY <1>1, <1>2, <1>5, <1>6, <1>7
<1>11. at[leg] \in Nat
    BY <1>4
<1>12. QED
    BY <1>1, <1>2, <1>4, <1>5, <1>7, <1>9, <1>10, <1>11 DEF p, t, l, n, q

(* A pass leaves every leg backed by its book.                             *)
LEMMA PassBacked ==
    ASSUME MatchInv, WalkInv, TakeBoth
    PROVE  Backed'
<1>1. ASSUME NEW leg \in Leg
      PROVE  /\ at[leg] \in 1..Len(depth'[leg])
             /\ last'[leg] = depth'[leg][at[leg]].price
             /\ qty'[leg] <= Scale * QuantityTo(depth'[leg], at[leg])
  <2>1. UNCHANGED depth /\ last'[leg] = CurrentPrice(leg)
    BY DEF TakeBoth, inputs
  <2>2. QED
    BY <2>1, PassFacts DEF CurrentPrice
<1>2. QED
    BY <1>1 DEF Backed

----------------------------------------------------------------------------
LEMMA StartWalk == MatchInv /\ Start => WalkInv'
<1> SUFFICES ASSUME MatchInv, Start PROVE WalkInv'
    OBVIOUS
<1>1. PICK first \in [Leg -> 1..MaxMatchLevels] :
         /\ \A leg \in Leg : IsNextLevel(depth[leg], 0, first[leg])
         /\ at' = first
         /\ left' = [leg \in Leg |-> LevelNotional(depth[leg][first[leg]])]
    BY DEF Start
<1>2. /\ pc = "start" /\ pc' = "matching" /\ order' = NoOrder
      /\ UNCHANGED <<desired, depth, remaining, matched, qty>>
    BY DEF Start, inputs, MatchInv, OrderWithin
<1>3. matched = 0 /\ \A leg \in Leg : qty[leg] = 0
    BY <1>2 DEF MatchInv, Unstarted, MatchTypeOK
<1>4. Prefixes'
  <2> SUFFICES ASSUME NEW leg \in Leg
               PROVE  /\ matched' + left'[leg] =
                            NotionalTo(depth'[leg], at'[leg])
                      /\ qty'[leg] + Bought(left'[leg], CurrentPrice(leg)') =
                            Scale * QuantityTo(depth'[leg], at'[leg])
    BY DEF Prefixes
  <2> DEFINE levels == depth[leg]
             i == first[leg]
  <2>1. levels \in Seq(Level) /\ IsNextLevel(levels, 0, i)
    BY <1>1 DEF MatchInv, MatchTypeOK
  <2>2. /\ left'[leg] = LevelNotional(levels[i])
        /\ CurrentPrice(leg)' = levels[i].price
        /\ depth'[leg] = levels /\ at'[leg] = i
        /\ matched' = 0 /\ qty'[leg] = 0
    BY <1>1, <1>2, <1>3 DEF CurrentPrice
  <2> HIDE DEF levels, i
  <2>3. /\ NotionalTo(levels, i) =
              NotionalTo(levels, 0) + LevelNotional(levels[i])
        /\ Scale * QuantityTo(levels, i) =
              Scale * QuantityTo(levels, 0)
                 + Bought(LevelNotional(levels[i]), levels[i].price)
        /\ LevelNotional(levels[i]) \in Nat
        /\ Bought(LevelNotional(levels[i]), levels[i].price) \in Nat
    BY <2>1, ToNext
  <2>4. NotionalTo(levels, 0) = 0 /\ Scale * QuantityTo(levels, 0) = 0
    BY ToStart, DepthMatchAssumption
  <2>5. QED
    BY <2>2, <2>3, <2>4
<1>5. Backed' /\ MatchesAllDepth'
    BY <1>2 DEF Backed, MatchesAllDepth
<1>6. QED
    BY <1>4, <1>5 DEF WalkInv

(* A pass that leaves nothing to match has matched the target.             *)
LEMMA NothingRemains ==
    ASSUME NEW m, NEW r, NEW d, m \in Nat, d \in Nat, r \in 0..d, m + r = d
    PROVE  r > 0 \/ m = d
OBVIOUS

LEMMA MatchAndGoOnWalk == MatchInv /\ WalkInv /\ MatchAndGoOn => WalkInv'
<1> SUFFICES ASSUME MatchInv, WalkInv, MatchAndGoOn PROVE WalkInv'
    OBVIOUS
<1>1. PICK next \in [Leg -> 1..MaxMatchLevels] :
         /\ \A leg \in Leg : GoesOnAt(leg, next[leg])
         /\ at' = next
         /\ left' = [leg \in Leg |->
               IF left[leg] > Take THEN left[leg] - Take
               ELSE LevelNotional(depth[leg][next[leg]])]
    BY DEF MatchAndGoOn
<1>2. /\ TakeBoth /\ pc' = IF remaining' > 0 THEN "matching" ELSE "matched"
      /\ UNCHANGED <<desired, depth>>
    BY DEF MatchAndGoOn, TakeBoth, inputs
<1>3. Prefixes'
  <2> SUFFICES ASSUME NEW leg \in Leg
               PROVE  /\ matched' + left'[leg] =
                            NotionalTo(depth'[leg], at'[leg])
                      /\ qty'[leg] + Bought(left'[leg], CurrentPrice(leg)') =
                            Scale * QuantityTo(depth'[leg], at'[leg])
    BY DEF Prefixes
  <2> DEFINE levels == depth[leg]
             i == next[leg]
             t == Take
  <2>1. /\ levels \in Seq(Level) /\ at[leg] \in Nat
        /\ left[leg] \in Nat /\ t \in Nat /\ t <= left[leg]
        /\ matched' \in Nat /\ qty'[leg] \in Nat
        /\ matched' + (left[leg] - t) = NotionalTo(levels, at[leg])
        /\ qty'[leg] + Bought(left[leg] - t, CurrentPrice(leg)) =
              Scale * QuantityTo(levels, at[leg])
    BY <1>2, PassFacts
  <2>2. /\ depth'[leg] = levels /\ at'[leg] = i
        /\ CurrentPrice(leg) = levels[at[leg]].price
        /\ CurrentPrice(leg)' = levels[i].price
        /\ left'[leg] = IF left[leg] > t THEN left[leg] - t
                        ELSE LevelNotional(levels[i])
    BY <1>1, <1>2 DEF CurrentPrice
  <2>3. IF left[leg] > t THEN i = at[leg] ELSE IsNextLevel(levels, at[leg], i)
    BY <1>1 DEF GoesOnAt
  <2> HIDE DEF levels, i, t
  <2>4. CASE left[leg] > t
    BY <2>1, <2>2, <2>3, <2>4
  <2>5. CASE ~(left[leg] > t)
    <3>1. left[leg] - t = 0
      BY <2>1, <2>5
    <3>2. Bought(0, CurrentPrice(leg)) = 0
      <4>1. Unit[CurrentPrice(leg)] \in Nat
        <5>1. CurrentPrice(leg) \in Price
          BY <1>2, PassFacts, LevelFacts DEF CurrentPrice
        <5>2. QED
          BY <5>1, DepthMatchAssumption
      <4>2. QED
        BY <4>1 DEF Bought
    <3>3. /\ NotionalTo(levels, at[leg]) = matched'
          /\ Scale * QuantityTo(levels, at[leg]) = qty'[leg]
      BY <2>1, <3>1, <3>2
    <3>4. /\ NotionalTo(levels, i) =
                NotionalTo(levels, at[leg]) + LevelNotional(levels[i])
          /\ Scale * QuantityTo(levels, i) =
                Scale * QuantityTo(levels, at[leg])
                   + Bought(LevelNotional(levels[i]), levels[i].price)
      BY <2>1, <2>3, <2>5, ToNext
    <3>5. QED
      BY <2>2, <2>5, <3>3, <3>4
  <2>6. QED
    BY <2>4, <2>5
<1>4. Backed'
    BY <1>2, PassBacked
<1>5. MatchesAllDepth'
  <2>1. /\ remaining' \in 0..desired /\ matched' + remaining' = desired
        /\ desired \in Nat /\ matched' \in Nat
    BY <1>2, TakeBothFacts, DepthMatchAssumption DEF MatchInv, MatchTypeOK
  <2>2. \A leg \in Leg : /\ matched' <= DepthNotional(leg)
                         /\ DepthNotional(leg) \in Nat
    BY <1>2, PassFacts
  <2>3. remaining' > 0 \/ matched' = desired
    BY <2>1, NothingRemains
  <2>4. matched' = desired
           => matched' = Minimum(desired,
                   Minimum(DepthNotional("long"), DepthNotional("short")))
    BY <2>1, <2>2 DEF Minimum, Leg
  <2>5. UNCHANGED <<desired, depth>>
    BY <1>2
  <2>6. remaining' > 0 => pc' # "matched"
    BY <1>2
  <2>7. QED
    BY <2>3, <2>4, <2>5, <2>6 DEF MatchesAllDepth, DepthNotional
<1>6. QED
    BY <1>3, <1>4, <1>5 DEF WalkInv

LEMMA MatchAndBreakWalk == MatchInv /\ WalkInv /\ MatchAndBreak => WalkInv'
<1> SUFFICES ASSUME MatchInv, WalkInv, MatchAndBreak PROVE WalkInv'
    OBVIOUS
<1>1. /\ TakeBoth /\ pc' = "matched"
      /\ UNCHANGED <<desired, depth>>
    BY DEF MatchAndBreak, TakeBoth, inputs
<1>2. PICK leg \in Leg : left[leg] = Take /\ Exhausted(depth[leg], at[leg])
    BY DEF MatchAndBreak
<1>3. matched' = DepthNotional(leg)
  <2>1. /\ matched' + (left[leg] - Take) = NotionalTo(depth[leg], at[leg])
        /\ matched' \in Nat /\ Take \in Nat
    BY <1>1, PassFacts
  <2>2. NotionalTo(depth[leg], at[leg]) = DepthNotional(leg)
    BY <1>2, PassedParts DEF NotionalTo, DepthNotional
  <2>3. left[leg] - Take = 0 /\ matched' + 0 = matched'
    BY <1>2, <2>1
  <2>4. QED
    BY <2>1, <2>2, <2>3
<1>4. \A other \in Leg : /\ matched' <= DepthNotional(other)
                         /\ DepthNotional(other) \in Nat
    BY <1>1, PassFacts
<1>5. matched' \in Nat /\ matched' <= desired /\ desired \in Nat
    BY <1>1, TakeBothFacts, DepthMatchAssumption DEF MatchInv, MatchTypeOK
<1>6. MatchesAllDepth'
  <2>1. matched' = Minimum(desired,
              Minimum(DepthNotional("long"), DepthNotional("short")))
    BY <1>2, <1>3, <1>4, <1>5 DEF Minimum, Leg
  <2>2. QED
    BY <1>1, <2>1 DEF MatchesAllDepth, DepthNotional
<1>7. Backed' /\ Prefixes'
    BY <1>1, PassBacked DEF Prefixes
<1>8. QED
    BY <1>6, <1>7 DEF WalkInv

(* The rest of the computation leaves the walk as it is.                   *)
LEMMA WalkStays ==
    ASSUME WalkInv, pc' \notin {"matching", "matched"},
           order' # NoOrder => pc = "matched" \/ order # NoOrder,
           UNCHANGED <<depth, qty, last>>
    PROVE  WalkInv'
BY DEF WalkInv, Prefixes, Backed, MatchesAllDepth

LEMMA NextWalk == MatchInv /\ WalkInv /\ [MatchNext]_matchVars => WalkInv'
<1> SUFFICES ASSUME MatchInv, WalkInv, [MatchNext]_matchVars PROVE WalkInv'
    OBVIOUS
<1>1. CASE UNCHANGED matchVars
    BY <1>1 DEF matchVars, inputs, WalkInv, Prefixes, Backed, MatchesAllDepth,
                DepthNotional, CurrentPrice
<1>2. CASE StartEmpty
  <2>1. order' = order /\ pc' = "done" /\ UNCHANGED <<depth, qty, last>>
    BY <1>2 DEF StartEmpty, inputs
  <2>2. QED
    BY <2>1, WalkStays
<1>3. CASE Prepare \/ Reject
  <2>1. pc = "matched" /\ pc' = "done" /\ UNCHANGED <<depth, qty, last>>
    BY <1>3 DEF Prepare, Reject, inputs
  <2>2. QED
    BY <2>1, WalkStays
<1>4. QED
    BY <1>1, <1>2, <1>3, StartWalk, MatchAndGoOnWalk, MatchAndBreakWalk
       DEF MatchNext

(* The inductive invariant of the walk down both books.                    *)
THEOREM WalkInvariance == MatchSpec => [](MatchInv /\ WalkInv)
<1>1. MatchInit => WalkInv
    BY DEF MatchInit, WalkInv, Prefixes, Backed, MatchesAllDepth
<1>2. QED
    BY <1>1, MatchInitInv, MatchNextInv, NextWalk, PTL DEF MatchSpec

(* Over books of any shape the walk takes all that the desired notional    *)
(* and the first levels of the two books allow, the same on both legs.     *)
THEOREM AllDepthMatched == MatchSpec => []MatchesAllDepth
<1>1. WalkInv => MatchesAllDepth
    BY DEF WalkInv
<1>2. QED
    BY <1>1, WalkInvariance, PTL

(* The levels no worse than an order's limit hold its whole quantity.      *)
THEOREM PlansFillable == MatchSpec => []OrdersFillable
<1>1. ASSUME MatchInv, WalkInv PROVE OrdersFillable
  <2> SUFFICES ASSUME order # NoOrder, NEW leg \in Leg, OnTick(leg)
               PROVE  order.legs[leg].qty <= Scale *
                         SumFunctionOnSet(Quantities(depth[leg]), Within(leg))
    BY DEF OrdersFillable
  <2> DEFINE levels == depth[leg]
             side == Side(action, leg)
             W == Within(leg)
  <2>1. PICK k \in 1..Len(levels) :
           last[leg] = levels[k].price /\ qty[leg] <= Scale * QuantityTo(levels, k)
    BY <1>1 DEF WalkInv, Backed
  <2>2. /\ levels \in Seq(Level) /\ qty[leg] \in Nat
        /\ order.legs[leg].qty \in Nat /\ order.legs[leg].qty <= qty[leg]
        /\ order.legs[leg].price = levels[k].price
    BY <1>1, <2>1 DEF MatchInv, MatchTypeOK, OrderWithin, OnTick
  <2>3. /\ \A i \in 1..Len(levels) : levels[i].price \in Nat
        /\ NaturalOn(Quantities(levels), 1..Len(levels))
    BY <2>2, LevelFacts
  <2>4. \A i \in 1..Len(levels) :
           i < k => Better(side, levels[i].price, levels[k].price)
    BY <1>1, <2>1 DEF MatchInv, Sorted
  <2>5. Passed(levels, k) \in SUBSET W /\ W \in SUBSET (1..Len(levels))
    <3>1. W \in SUBSET (1..Len(levels))
      BY DEF Within
    <3>2. ASSUME NEW i \in Passed(levels, k) PROVE i \in W
      <4>1. i \in 1..Len(levels) /\ i <= k
        BY PassedParts DEF Passed
      <4>2. ~Better(side, levels[k].price, levels[i].price)
        <5>1. i < k \/ i = k
          BY <2>1, <4>1
        <5>2. QED
          BY <2>1, <2>3, <2>4, <4>1, <5>1 DEF Better
      <4>3. QED
        BY <2>2, <4>1, <4>2 DEF Within
    <3>3. QED
      BY <3>1, <3>2
  <2> HIDE DEF levels, W
  <2>6. /\ NaturalOn(Quantities(levels), W)
        /\ QuantityTo(levels, k) \in Nat
        /\ QuantityTo(levels, k) <= SumFunctionOnSet(Quantities(levels), W)
        /\ SumFunctionOnSet(Quantities(levels), W) \in Nat
    BY <2>3, <2>5, NaturalOnPart, SumGrows, SumNatural DEF QuantityTo
  <2>7. /\ Scale * QuantityTo(levels, k)
              <= Scale * SumFunctionOnSet(Quantities(levels), W)
        /\ Scale * QuantityTo(levels, k) \in Nat
        /\ Scale * SumFunctionOnSet(Quantities(levels), W) \in Nat
    <3>1. Scale \in Nat
      BY DepthMatchAssumption
    <3>2. \A a, b \in Nat : a * b \in Nat
      OBVIOUS
    <3>3. QED
      BY <2>6, <3>1, <3>2, ProductsGrow
  <2>8. QED
    BY <2>1, <2>2, <2>7 DEF levels, W
<1>2. QED
    BY <1>1, WalkInvariance, PTL
=============================================================================
