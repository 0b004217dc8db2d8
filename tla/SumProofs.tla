------------------------------ MODULE SumProofs ------------------------------
(***************************************************************************)
(* What sums over finite sets do: the lemmas with which the proofs about   *)
(* money follow a step that changes one summand.  The sum is computed by   *)
(* a recursive function; that it exists and is unique comes first, and     *)
(* every induction is the choice of a smallest set that breaks the claim.  *)
(***************************************************************************)
EXTENDS Sums, FiniteSetTheorems, NaturalsInduction, WellFoundedInduction, TLAPS

-----------------------------------------------------------------------------
(* Induction over finite sets. *)

\* A set of numbers has a least one.
LEMMA LeastNat ==
  ASSUME NEW B, B \subseteq Nat, B # {}
  PROVE  \E m \in B : \A k \in B : m <= k
<1>1. PICK m \in B : \A k \in B : ~ (<<k, m>> \in OpToRel(<, Nat))
  BY NatLessThanWellFounded, WFMin
<1>2. ASSUME NEW k \in B
      PROVE  ~ (k < m)
  <2>1. <<k, m>> \in Nat \X Nat /\ <<k, m>>[1] = k /\ <<k, m>>[2] = m
    OBVIOUS
  <2>. QED
    BY <1>1, <2>1, Zenon DEF OpToRel
<1>3. \A k \in B : m <= k
  BY <1>2
<1>. QED
  BY <1>3

\* Induction over the numbers up to one, as over the elements of a list.
LEMMA UpTo ==
  ASSUME NEW m \in Nat, NEW G, 0 \in G, \A n \in 1 .. m : n - 1 \in G => n \in G
  PROVE  \A n \in 0 .. m : n \in G
<1>. DEFINE bad == (0 .. m) \ G
<1>1. SUFFICES ASSUME bad # {} PROVE FALSE
  OBVIOUS
<1>2. PICK k \in bad : \A j \in bad : k <= j
  <2>1. bad \subseteq Nat
    OBVIOUS
  <2>. QED BY <1>1, <2>1, LeastNat
<1>3. k \in 1 .. m /\ k \notin G /\ k - 1 \notin bad /\ k - 1 \in 0 .. m
  BY <1>2
<1>. QED BY <1>3

\* The larger of two numbers is one of them.
LEMMA MaxOfTwo ==
  ASSUME NEW a \in Int, NEW b \in Int
  PROVE  (Max({a, b}) = a /\ b <= a) \/ (Max({a, b}) = b /\ a <= b)
<1>1. \E x \in {a, b} : \A y \in {a, b} : x >= y
  OBVIOUS
<1>2. Max({a, b}) \in {a, b} /\ \A y \in {a, b} : Max({a, b}) >= y
  BY <1>1 DEF Max
<1>. QED BY <1>2

\* So is the smaller.
LEMMA MinOfTwo ==
  ASSUME NEW a \in Int, NEW b \in Int
  PROVE  (Min({a, b}) = a /\ a <= b) \/ (Min({a, b}) = b /\ b <= a)
<1>1. \E x \in {a, b} : \A y \in {a, b} : x <= y
  OBVIOUS
<1>2. Min({a, b}) \in {a, b} /\ \A y \in {a, b} : Min({a, b}) <= y
  BY <1>1 DEF Min
<1>. QED BY <1>2

\* The larger of a number and an amount is an amount,
LEMMA MaxNat ==
  ASSUME NEW a \in Int, NEW b \in Nat
  PROVE  /\ Max({a, b}) \in Nat /\ Max({b, a}) \in Nat
<1>1. a \in Int /\ b \in Int
  OBVIOUS
<1>2. Max({a, b}) \in {a, b} /\ b <= Max({a, b})
  BY <1>1, MaxOfTwo
<1>3. {a, b} = {b, a}
  OBVIOUS
<1>. QED BY <1>2, <1>3

\* and so is the smaller of two amounts, which is no more than either.
LEMMA MinNat ==
  ASSUME NEW a \in Nat, NEW b \in Nat
  PROVE  Min({a, b}) \in Nat /\ Min({a, b}) <= a /\ Min({a, b}) <= b
<1>1. a \in Int /\ b \in Int
  OBVIOUS
<1>. QED BY <1>1, MinOfTwo

\* A set of numbers that has a least one.
LEMMA MinOfNats ==
  ASSUME NEW S, S \subseteq Nat, S # {}
  PROVE  Min(S) \in S /\ \A x \in S : Min(S) <= x
BY LeastNat DEF Min

\* Of several finite sets one is not larger than any other.
LEMMA SmallestSet ==
  ASSUME NEW B, B # {}, \A T \in B : IsFiniteSet(T)
  PROVE  \E T \in B : \A U \in B : Cardinality(T) <= Cardinality(U)
<1>. DEFINE sizes == {Cardinality(T) : T \in B}
<1>1. \A T \in B : Cardinality(T) \in Nat
  BY FS_CardinalityType
<1>2. sizes \subseteq Nat /\ sizes # {}
  BY <1>1
<1>3. PICK m \in sizes : \A k \in sizes : m <= k
  BY <1>2, LeastNat
<1>4. PICK T \in B : Cardinality(T) = m
  OBVIOUS
<1>. QED
  BY <1>3, <1>4

\* Without one of its elements a set is smaller.
LEMMA SmallerWithout ==
  ASSUME NEW S, IsFiniteSet(S), NEW x \in S
  PROVE  /\ IsFiniteSet(S \ {x})
         /\ S \ {x} \subseteq S
         /\ ~ (Cardinality(S) <= Cardinality(S \ {x}))
<1>1. /\ IsFiniteSet(S \ {x})
      /\ Cardinality(S \ {x}) = Cardinality(S) - 1
  BY FS_RemoveElement
<1>2. Cardinality(S) \in Nat
  BY FS_CardinalityType
<1>. QED
  BY <1>1, <1>2

\* Induction: what holds of the empty set, and of a set when it holds of the set
\* without any one of its elements, holds of every finite set.
LEMMA SetInduction ==
  ASSUME NEW S, IsFiniteSet(S), NEW G, {} \in G,
         ASSUME NEW T \in SUBSET S, T # {}, IsFiniteSet(T), \A x \in T : T \ {x} \in G
         PROVE  T \in G
  PROVE  S \in G
<1>. DEFINE bad == (SUBSET S) \ G
<1>1. SUFFICES ASSUME bad # {} PROVE FALSE
  OBVIOUS
<1>2. \A T \in SUBSET S : IsFiniteSet(T)
  BY FS_Subset
<1>3. PICK T \in bad : \A U \in bad : Cardinality(T) <= Cardinality(U)
  <2>. HIDE DEF bad
  <2>1. \A T \in bad : IsFiniteSet(T)
    BY <1>2 DEF bad
  <2>. QED
    BY <1>1, <2>1, SmallestSet
<1>4. T \in SUBSET S /\ T \notin G /\ T # {} /\ IsFiniteSet(T)
  BY <1>2
<1>5. \A x \in T : T \ {x} \in G
  BY <1>3, <1>4, SmallerWithout
<1>. QED
  BY <1>4, <1>5

-----------------------------------------------------------------------------
(* The recursive function behind a sum. *)

Pick(s) == CHOOSE x \in s : TRUE
Body(f, S, g) == [s \in SUBSET S |-> IF s = {} THEN 0 ELSE f[Pick(s)] + g[s \ {Pick(s)}]]
Iter(f, S) == CHOOSE g : g = Body(f, S, g)

LEMMA PickElement ==
  ASSUME NEW s, s # {}
  PROVE  Pick(s) \in s
BY DEF Pick

LEMMA SumIsIter ==
  ASSUME NEW f, NEW S
  PROVE  SumOver(f, S) = Iter(f, S)[S]
BY DEF SumOver, MapThenSumSet, MapThenFoldSet, Iter, Body, Pick

\* Two such functions agree wherever both are defined.
LEMMA IterUnique ==
  ASSUME NEW f, NEW S, IsFiniteSet(S), NEW T \in SUBSET S,
         NEW g, g = Body(f, S, g), NEW h, h = Body(f, T, h)
  PROVE  \A u \in SUBSET T : g[u] = h[u]
<1>. DEFINE bad == {u \in SUBSET T : g[u] # h[u]}
<1>1. SUFFICES ASSUME bad # {} PROVE FALSE
  OBVIOUS
<1>2. \A u \in SUBSET T : IsFiniteSet(u)
  BY FS_Subset
<1>3. PICK u \in bad : \A v \in bad : Cardinality(u) <= Cardinality(v)
  <2>. HIDE DEF bad
  <2>1. \A v \in bad : IsFiniteSet(v)
    BY <1>2 DEF bad
  <2>. QED
    BY <1>1, <2>1, SmallestSet
<1>4. /\ g[u] = IF u = {} THEN 0 ELSE f[Pick(u)] + g[u \ {Pick(u)}]
      /\ h[u] = IF u = {} THEN 0 ELSE f[Pick(u)] + h[u \ {Pick(u)}]
  BY DEF Body
<1>5. u # {}
  BY <1>4
<1>6. u \ {Pick(u)} \notin bad
  BY <1>2, <1>3, <1>5, PickElement, SmallerWithout
<1>. QED
  BY <1>3, <1>4, <1>6

\* There is such a function for every finite set.
LEMMA IterExists ==
  ASSUME NEW f, NEW S, IsFiniteSet(S)
  PROVE  Iter(f, S) = Body(f, S, Iter(f, S))
<1>. DEFINE bad == {T \in SUBSET S : ~ (\E g : g = Body(f, T, g))}
<1>1. SUFFICES bad = {}
  <2>1. \E g : g = Body(f, S, g)
    BY <1>1
  <2>. QED
    BY <2>1 DEF Iter
<1>2. SUFFICES ASSUME bad # {} PROVE FALSE
  OBVIOUS
<1>3. \A T \in SUBSET S : IsFiniteSet(T)
  BY FS_Subset
<1>4. PICK T \in bad : \A U \in bad : Cardinality(T) <= Cardinality(U)
  <2>. HIDE DEF bad
  <2>1. \A U \in bad : IsFiniteSet(U)
    BY <1>3 DEF bad
  <2>. QED
    BY <1>2, <2>1, SmallestSet
<1>5. IsFiniteSet(T)
  BY <1>3
\* The smaller sets have their functions.
<1>6. \A x \in T : \A U \in SUBSET (T \ {x}) : Iter(f, U) = Body(f, U, Iter(f, U))
  <2>. SUFFICES ASSUME NEW x \in T, NEW U \in SUBSET (T \ {x})
                PROVE  Iter(f, U) = Body(f, U, Iter(f, U))
    OBVIOUS
  <2>1. ~ (Cardinality(T) <= Cardinality(T \ {x})) /\ IsFiniteSet(T \ {x})
    BY <1>5, SmallerWithout
  <2>2. Cardinality(U) <= Cardinality(T \ {x}) /\ IsFiniteSet(U)
    BY <2>1, FS_Subset
  <2>3. Cardinality(U) \in Nat /\ Cardinality(T) \in Nat /\ Cardinality(T \ {x}) \in Nat
    BY <1>5, <2>1, <2>2, FS_CardinalityType
  <2>4. U \notin bad
    BY <1>4, <2>1, <2>2, <2>3
  <2>5. \E g : g = Body(f, U, g)
    BY <2>4
  <2>. QED
    BY <2>5 DEF Iter
\* Their values make the function of T.
<1>. DEFINE h == [u \in SUBSET T |->
                    IF u = {} THEN 0
                    ELSE f[Pick(u)] + Iter(f, u \ {Pick(u)})[u \ {Pick(u)}]]
<1>7. ASSUME NEW u \in SUBSET T, u # {}
      PROVE  h[u \ {Pick(u)}] = Iter(f, u \ {Pick(u)})[u \ {Pick(u)}]
  <2>. DEFINE w == u \ {Pick(u)}
              z == w \ {Pick(w)}
  <2>1. Pick(u) \in T /\ w \in SUBSET T /\ w \in SUBSET (T \ {Pick(u)})
    BY <1>7, PickElement
  <2>2. Iter(f, w) = Body(f, w, Iter(f, w))
    BY <1>6, <2>1
  <2>3. Iter(f, w)[w] = IF w = {} THEN 0 ELSE f[Pick(w)] + Iter(f, w)[z]
    <3>. HIDE DEF w
    <3>1. Body(f, w, Iter(f, w))[w] = IF w = {} THEN 0 ELSE f[Pick(w)] + Iter(f, w)[w \ {Pick(w)}]
      BY DEF Body
    <3>. QED
      BY <2>2, <3>1
  <2>4. CASE w = {}
    BY <2>1, <2>3, <2>4
  <2>5. CASE w # {}
    <3>1. Pick(w) \in w
      BY <2>5, PickElement
    <3>2. z \in SUBSET (T \ {Pick(u)}) /\ z \in SUBSET w /\ IsFiniteSet(w)
      BY <1>3, <2>1
    <3>3. Iter(f, z) = Body(f, z, Iter(f, z))
      BY <1>6, <2>1, <3>2
    <3>4. \A v \in SUBSET z : Iter(f, w)[v] = Iter(f, z)[v]
      <4>. HIDE DEF w, z
      <4>. QED
        BY <2>2, <3>2, <3>3, IterUnique
    <3>5. Iter(f, w)[z] = Iter(f, z)[z]
      BY <3>4
    <3>6. h[w] = f[Pick(w)] + Iter(f, z)[z]
      BY <2>1, <2>5
    <3>. QED
      BY <2>3, <2>5, <3>5, <3>6
  <2>. QED
    BY <2>4, <2>5
<1>8. h = Body(f, T, h)
  <2>1. \A u \in SUBSET T :
          h[u] = IF u = {} THEN 0 ELSE f[Pick(u)] + h[u \ {Pick(u)}]
    BY <1>7
  <2>2. h = [u \in SUBSET T |-> h[u]]
    OBVIOUS
  <2>. HIDE DEF h
  <2>. QED
    BY <2>1, <2>2 DEF Body
<1>. QED
  BY <1>4, <1>8

-----------------------------------------------------------------------------
(* The sum by its equations. *)

LEMMA SumEmpty ==
  ASSUME NEW f
  PROVE  SumOver(f, {}) = 0
<1>1. Iter(f, {}) = Body(f, {}, Iter(f, {}))
  BY IterExists, FS_EmptySet
<1>2. Body(f, {}, Iter(f, {}))[{}] = 0
  BY DEF Body
<1>. QED
  BY <1>1, <1>2, SumIsIter

LEMMA SumPick ==
  ASSUME NEW f, NEW S, IsFiniteSet(S), S # {}
  PROVE  SumOver(f, S) = f[Pick(S)] + SumOver(f, S \ {Pick(S)})
<1>. DEFINE T == S \ {Pick(S)}
<1>1. IsFiniteSet(T) /\ T \in SUBSET S
  BY FS_Subset
<1>2. Iter(f, S) = Body(f, S, Iter(f, S)) /\ Iter(f, T) = Body(f, T, Iter(f, T))
  <2>. HIDE DEF T
  <2>. QED
    BY <1>1, IterExists
<1>3. \A u \in SUBSET T : Iter(f, S)[u] = Iter(f, T)[u]
  <2>. HIDE DEF T
  <2>. QED
    BY <1>1, <1>2, IterUnique
<1>4. Iter(f, S)[T] = Iter(f, T)[T]
  BY <1>3
<1>5. Body(f, S, Iter(f, S))[S] = f[Pick(S)] + Iter(f, S)[T]
  BY DEF Body
<1>. QED
  BY <1>2, <1>4, <1>5, SumIsIter

\* The sum is a number.
LEMMA SumInt ==
  ASSUME NEW f, NEW S, IsFiniteSet(S), \A x \in S : f[x] \in Int
  PROVE  SumOver(f, S) \in Int
<1>. DEFINE G == {T \in SUBSET S : SumOver(f, T) \in Int}
<1>1. {} \in G
  BY SumEmpty
<1>2. ASSUME NEW T \in SUBSET S, T # {}, IsFiniteSet(T), \A x \in T : T \ {x} \in G
      PROVE  T \in G
  <2>1. SumOver(f, T) = f[Pick(T)] + SumOver(f, T \ {Pick(T)})
    BY <1>2, SumPick
  <2>2. SumOver(f, T \ {Pick(T)}) \in Int /\ f[Pick(T)] \in Int
    BY <1>2, PickElement
  <2>. QED
    BY <2>1, <2>2
<1>3. S \in G
  <2>. HIDE DEF G
  <2>. QED
    BY <1>1, <1>2, SetInduction
<1>. QED
  BY <1>3

\* Any element may be added last.
LEMMA SumRemove ==
  ASSUME NEW f, NEW S, IsFiniteSet(S), \A x \in S : f[x] \in Int, NEW x \in S
  PROVE  /\ SumOver(f, S \ {x}) \in Int
         /\ SumOver(f, S) = f[x] + SumOver(f, S \ {x})
<1>. DEFINE G == {T \in SUBSET S : \A y \in T : SumOver(f, T) = f[y] + SumOver(f, T \ {y})}
<1>1. {} \in G
  OBVIOUS
<1>2. ASSUME NEW T \in SUBSET S, T # {}, IsFiniteSet(T), \A y \in T : T \ {y} \in G
      PROVE  T \in G
  <2>. DEFINE c == Pick(T)
  <2>1. c \in T
    BY <1>2, PickElement
  <2>2. SumOver(f, T) = f[c] + SumOver(f, T \ {c})
    BY <1>2, SumPick
  <2>. HIDE DEF c
  <2>3. ASSUME NEW y \in T, y # c
        PROVE  SumOver(f, T) = f[y] + SumOver(f, T \ {y})
    <3>. DEFINE R == (T \ {c}) \ {y}
    <3>1. R = (T \ {y}) \ {c} /\ R \in SUBSET S /\ IsFiniteSet(R)
      BY <1>2, FS_RemoveElement
    <3>2. SumOver(f, R) \in Int /\ f[y] \in Int /\ f[c] \in Int
      BY <2>1, <3>1, SumInt
    <3>3. SumOver(f, T \ {c}) = f[y] + SumOver(f, R)
      BY <1>2, <2>1, <2>3
    <3>4. SumOver(f, T \ {y}) = f[c] + SumOver(f, R)
      BY <1>2, <2>1, <2>3, <3>1
    <3>. HIDE DEF R
    <3>. QED
      BY <2>2, <3>2, <3>3, <3>4
  <2>. QED
    BY <2>2, <2>3
<1>3. S \in G
  <2>. HIDE DEF G
  <2>. QED
    BY <1>1, <1>2, SetInduction
<1>4. SumOver(f, S \ {x}) \in Int
  <2>1. IsFiniteSet(S \ {x})
    BY FS_RemoveElement
  <2>. QED
    BY <2>1, SumInt
<1>. QED
  BY <1>3, <1>4

\* The same for every part of a set.
Splits(f, S) ==
  \A T \in SUBSET S :
    /\ SumOver(f, T) \in Int
    /\ \A x \in T : /\ SumOver(f, T \ {x}) \in Int
                   /\ SumOver(f, T) = f[x] + SumOver(f, T \ {x})

LEMMA SumSplits ==
  ASSUME NEW f, NEW S, IsFiniteSet(S), \A x \in S : f[x] \in Int
  PROVE  Splits(f, S)
<1>. SUFFICES ASSUME NEW T \in SUBSET S
              PROVE  /\ SumOver(f, T) \in Int
                     /\ \A x \in T : /\ SumOver(f, T \ {x}) \in Int
                                    /\ SumOver(f, T) = f[x] + SumOver(f, T \ {x})
  BY DEF Splits
<1>1. IsFiniteSet(T) /\ \A x \in T : f[x] \in Int
  BY FS_Subset
<1>2. SumOver(f, T) \in Int
  BY <1>1, SumInt
<1>. QED
  BY <1>1, <1>2, SumRemove

\* A new element adds its value.
LEMMA SumAdd ==
  ASSUME NEW f, NEW S, IsFiniteSet(S), NEW x, x \notin S, \A y \in S \cup {x} : f[y] \in Int
  PROVE  SumOver(f, S \cup {x}) = f[x] + SumOver(f, S)
<1>1. IsFiniteSet(S \cup {x}) /\ (S \cup {x}) \ {x} = S
  BY FS_AddElement
<1>. QED
  BY <1>1, SumRemove

\* Larger summands, larger sum.
LEMMA SumMonotone ==
  ASSUME NEW S, IsFiniteSet(S), NEW f, NEW g,
         \A x \in S : f[x] \in Int /\ g[x] \in Int /\ f[x] <= g[x]
  PROVE  SumOver(f, S) <= SumOver(g, S)
<1>. DEFINE G == {T \in SUBSET S : SumOver(f, T) <= SumOver(g, T)}
<1>1. {} \in G
  BY SumEmpty
<1>2. ASSUME NEW T \in SUBSET S, T # {}, IsFiniteSet(T), \A x \in T : T \ {x} \in G
      PROVE  T \in G
  <2>1. PICK x \in T : TRUE
    BY <1>2
  <2>2. SumOver(f, T \ {x}) \in Int /\ SumOver(f, T) = f[x] + SumOver(f, T \ {x})
    BY <1>2, SumRemove
  <2>3. SumOver(g, T \ {x}) \in Int /\ SumOver(g, T) = g[x] + SumOver(g, T \ {x})
    BY <1>2, SumRemove
  <2>4. SumOver(f, T \ {x}) <= SumOver(g, T \ {x})
    BY <1>2
  <2>. QED
    BY <2>2, <2>3, <2>4
<1>3. S \in G
  <2>. HIDE DEF G
  <2>. QED
    BY <1>1, <1>2, SetInduction
<1>. QED
  BY <1>3

\* The sum depends on the values alone.
LEMMA SumSame ==
  ASSUME NEW S, IsFiniteSet(S), NEW f, NEW g, \A x \in S : f[x] \in Int /\ g[x] = f[x]
  PROVE  SumOver(g, S) = SumOver(f, S)
<1>1. SumOver(f, S) <= SumOver(g, S) /\ SumOver(g, S) <= SumOver(f, S)
  BY SumMonotone
<1>2. SumOver(f, S) \in Int /\ SumOver(g, S) \in Int
  BY SumInt
<1>. QED
  BY <1>1, <1>2

\* A sum of nothing is nothing.
LEMMA SumZero ==
  ASSUME NEW S, IsFiniteSet(S), NEW f, \A x \in S : f[x] = 0
  PROVE  SumOver(f, S) = 0
<1>. DEFINE G == {T \in SUBSET S : SumOver(f, T) = 0}
<1>1. {} \in G
  BY SumEmpty
<1>2. ASSUME NEW T \in SUBSET S, T # {}, IsFiniteSet(T), \A x \in T : T \ {x} \in G
      PROVE  T \in G
  <2>1. PICK x \in T : TRUE
    BY <1>2
  <2>2. SumOver(f, T) = f[x] + SumOver(f, T \ {x})
    BY <1>2, SumRemove
  <2>. QED
    BY <1>2, <2>2
<1>3. S \in G
  <2>. HIDE DEF G
  <2>. QED
    BY <1>1, <1>2, SetInduction
<1>. QED
  BY <1>3

\* A sum of amounts is an amount, and no summand is larger.
LEMMA SumNat ==
  ASSUME NEW S, IsFiniteSet(S), NEW f, \A x \in S : f[x] \in Nat
  PROVE  /\ SumOver(f, S) \in Nat
         /\ \A x \in S : f[x] <= SumOver(f, S)
<1>1. ASSUME NEW T, IsFiniteSet(T), \A x \in T : f[x] \in Nat
      PROVE  SumOver(f, T) \in Nat
  <2>. DEFINE zero == [x \in T |-> 0]
  <2>1. SumOver(zero, T) = 0
    BY <1>1, SumZero
  <2>2. SumOver(zero, T) <= SumOver(f, T)
    BY <1>1, SumMonotone
  <2>3. SumOver(f, T) \in Int
    BY <1>1, SumInt
  <2>. HIDE DEF zero
  <2>. QED
    BY <2>1, <2>2, <2>3
<1>2. ASSUME NEW x \in S
      PROVE  f[x] <= SumOver(f, S)
  <2>1. IsFiniteSet(S \ {x})
    BY FS_RemoveElement
  <2>2. SumOver(f, S \ {x}) \in Nat
    BY <1>1, <2>1
  <2>3. SumOver(f, S) = f[x] + SumOver(f, S \ {x})
    BY SumRemove
  <2>. QED
    BY <2>2, <2>3
<1>. QED
  BY <1>1, <1>2

\* When one summand changes, the sum changes by as much.
LEMMA SumUpdate ==
  ASSUME NEW S, IsFiniteSet(S), NEW x \in S, NEW f, NEW g,
         \A y \in S : f[y] \in Int, \A y \in S : g[y] \in Int,
         \A y \in S \ {x} : g[y] = f[y]
  PROVE  SumOver(g, S) = SumOver(f, S) - f[x] + g[x]
<1>1. IsFiniteSet(S \ {x})
  BY FS_RemoveElement
<1>2. SumOver(g, S \ {x}) = SumOver(f, S \ {x})
  BY <1>1, SumSame
<1>3. SumOver(f, S \ {x}) \in Int /\ SumOver(f, S) = f[x] + SumOver(f, S \ {x})
  BY SumRemove, Zenon
<1>4. SumOver(g, S \ {x}) \in Int /\ SumOver(g, S) = g[x] + SumOver(g, S \ {x})
  BY SumRemove, Zenon
<1>5. f[x] \in Int /\ g[x] \in Int
  OBVIOUS
<1>. QED
  BY <1>2, <1>3, <1>4, <1>5

\* Sums of two functions add up.
LEMMA SumPlus ==
  ASSUME NEW S, IsFiniteSet(S), NEW f, NEW g, NEW h,
         \A x \in S : f[x] \in Int, \A x \in S : g[x] \in Int,
         \A x \in S : h[x] = f[x] + g[x]
  PROVE  SumOver(h, S) = SumOver(f, S) + SumOver(g, S)
<1>. DEFINE G == {T \in SUBSET S : SumOver(h, T) = SumOver(f, T) + SumOver(g, T)}
<1>1. {} \in G
  BY SumEmpty
<1>2. \A x \in S : h[x] \in Int
  OBVIOUS
<1>3. Splits(f, S)
  BY SumSplits
<1>4. Splits(g, S)
  BY SumSplits
<1>5. Splits(h, S)
  BY <1>2, SumSplits
<1>6. ASSUME NEW T \in SUBSET S, T # {}, IsFiniteSet(T), \A x \in T : T \ {x} \in G
      PROVE  T \in G
  <2>1. PICK x \in T : TRUE
    BY <1>6
  <2>2. SumOver(h, T \ {x}) = SumOver(f, T \ {x}) + SumOver(g, T \ {x})
    BY <1>6
  <2>3. f[x] \in Int /\ g[x] \in Int /\ h[x] = f[x] + g[x]
    OBVIOUS
  <2>4. SumOver(f, T \ {x}) \in Int /\ SumOver(f, T) = f[x] + SumOver(f, T \ {x})
    BY <1>3 DEF Splits
  <2>5. SumOver(g, T \ {x}) \in Int /\ SumOver(g, T) = g[x] + SumOver(g, T \ {x})
    BY <1>4 DEF Splits
  <2>6. SumOver(h, T) = h[x] + SumOver(h, T \ {x})
    BY <1>5 DEF Splits
  <2>. QED
    BY <2>2, <2>3, <2>4, <2>5, <2>6
<1>7. S \in G
  <2>. HIDE DEF G
  <2>. QED
    BY <1>1, <1>6, SetInduction
<1>. QED
  BY <1>7

\* The parts of a set inside and outside of another sum to the whole.
LEMMA SumParts ==
  ASSUME NEW S, IsFiniteSet(S), NEW f, \A x \in S : f[x] \in Int, NEW A
  PROVE  SumOver(f, S) = SumOver(f, S \cap A) + SumOver(f, S \ A)
<1>. DEFINE G == {T \in SUBSET S : SumOver(f, T) = SumOver(f, T \cap A) + SumOver(f, T \ A)}
<1>1. {} \in G
  <2>1. {} \cap A = {} /\ {} \ A = {}
    OBVIOUS
  <2>. QED
    BY <2>1, SumEmpty
<1>2. Splits(f, S)
  BY SumSplits
<1>3. ASSUME NEW T \in SUBSET S, T # {}, IsFiniteSet(T), \A x \in T : T \ {x} \in G
      PROVE  T \in G
  <2>1. PICK x \in T : TRUE
    BY <1>3
  <2>. DEFINE R == T \ {x}
              I == T \cap A
              O == T \ A
  <2>2. SumOver(f, T) = f[x] + SumOver(f, R) /\ f[x] \in Int
    BY <1>2 DEF Splits
  <2>3. SumOver(f, R) = SumOver(f, R \cap A) + SumOver(f, R \ A)
    BY <1>3
  <2>4. I \in SUBSET S /\ O \in SUBSET S
    OBVIOUS
  <2>5. CASE x \in A
    <3>1. R \cap A = I \ {x} /\ R \ A = O /\ x \in I
      BY <2>5
    <3>2. /\ SumOver(f, I \ {x}) \in Int /\ SumOver(f, I) = f[x] + SumOver(f, I \ {x})
          /\ SumOver(f, O) \in Int
      BY <1>2, <2>4, <3>1 DEF Splits
    <3>3. SumOver(f, R) = SumOver(f, I \ {x}) + SumOver(f, O)
      BY <2>3, <3>1
    <3>4. SumOver(f, T) = SumOver(f, I) + SumOver(f, O)
      <4>. HIDE DEF G, R, I, O
      <4>. QED
        BY <2>2, <3>2, <3>3
    <3>. QED
      BY <3>4
  <2>6. CASE x \notin A
    <3>1. R \cap A = I /\ R \ A = O \ {x} /\ x \in O
      BY <2>6
    <3>2. /\ SumOver(f, O \ {x}) \in Int /\ SumOver(f, O) = f[x] + SumOver(f, O \ {x})
          /\ SumOver(f, I) \in Int
      BY <1>2, <2>4, <3>1 DEF Splits
    <3>3. SumOver(f, R) = SumOver(f, I) + SumOver(f, O \ {x})
      BY <2>3, <3>1
    <3>4. SumOver(f, T) = SumOver(f, I) + SumOver(f, O)
      <4>. HIDE DEF G, R, I, O
      <4>. QED
        BY <2>2, <3>2, <3>3
    <3>. QED
      BY <3>4
  <2>. QED
    BY <2>5, <2>6
<1>4. S \in G
  <2>. HIDE DEF G
  <2>. QED
    BY <1>1, <1>3, SetInduction
<1>. QED
  BY <1>4

\* Summands of zero may be left out.
LEMMA SumWhere ==
  ASSUME NEW S, IsFiniteSet(S), NEW A, A \subseteq S, NEW f, NEW g,
         \A x \in A : f[x] \in Int, \A x \in A : g[x] = f[x],
         \A x \in S \ A : g[x] = 0
  PROVE  SumOver(g, S) = SumOver(f, A)
<1>1. IsFiniteSet(A) /\ IsFiniteSet(S \ A)
  BY FS_Subset
<1>2. \A x \in S : g[x] \in Int
  OBVIOUS
<1>3. SumOver(g, S) = SumOver(g, A) + SumOver(g, S \ A)
  <2>1. S \cap A = A
    OBVIOUS
  <2>2. SumOver(g, S) = SumOver(g, S \cap A) + SumOver(g, S \ A)
    BY <1>2, SumParts
  <2>. QED
    BY <2>1, <2>2, Zenon
<1>4. SumOver(g, S \ A) = 0
  BY <1>1, SumZero
<1>5. SumOver(g, A) = SumOver(f, A)
  <2>1. \A x \in A : f[x] \in Int /\ g[x] = f[x]
    OBVIOUS
  <2>. QED
    BY <1>1, <2>1, SumSame, Zenon
<1>6. SumOver(f, A) \in Int
  BY <1>1, SumInt
<1>. QED
  BY <1>3, <1>4, <1>5, <1>6

\* The elements with one value of a function.
Group(f, S, u) == {x \in S : f[x] = u}

\* Every element belongs to one group: the sums of the groups add up to the whole.
LEMMA SumGroups ==
  ASSUME NEW S, IsFiniteSet(S), NEW f, \A x \in S : f[x] \in Int,
         NEW U, IsFiniteSet(U), NEW group, \A x \in S : group[x] \in U,
         NEW h, \A u \in U : h[u] = SumOver(f, Group(group, S, u))
  PROVE  SumOver(h, U) = SumOver(f, S)
<1>. DEFINE of(T) == {x \in S : group[x] \in T}
            G == {T \in SUBSET U : SumOver(h, T) = SumOver(f, of(T))}
<1>1. of({}) = {} /\ of(U) = S
  OBVIOUS
<1>2. {} \in G
  BY <1>1, SumEmpty
<1>3. \A A \in SUBSET S : IsFiniteSet(A) /\ SumOver(f, A) \in Int
  <2>1. \A A \in SUBSET S : IsFiniteSet(A)
    BY FS_Subset
  <2>. QED
    BY <2>1, SumInt
<1>4. \A u \in U : h[u] \in Int
  BY <1>3 DEF Group
<1>5. ASSUME NEW T \in SUBSET U, T # {}, IsFiniteSet(T), \A u \in T : T \ {u} \in G
      PROVE  T \in G
  <2>1. PICK u \in T : TRUE
    BY <1>5
  <2>. DEFINE one == Group(group, S, u)
  <2>2. SumOver(h, T) = h[u] + SumOver(h, T \ {u})
    <3>1. \A v \in T : h[v] \in Int
      BY <1>4
    <3>. HIDE DEF G
    <3>. QED
      BY <1>5, <3>1, SumRemove
  <2>3. SumOver(h, T \ {u}) = SumOver(f, of(T \ {u}))
    BY <1>5
  <2>4. of(T) \cap one = one /\ of(T) \ one = of(T \ {u})
    BY DEF Group
  <2>5. of(T) \in SUBSET S /\ one \in SUBSET S /\ of(T \ {u}) \in SUBSET S
    <3>1. one \in SUBSET S
      BY DEF Group
    <3>. QED
      BY <3>1
  <2>6. h[u] = SumOver(f, one)
    OBVIOUS
  <2>. HIDE DEF of, one
  <2>7. SumOver(f, of(T)) = SumOver(f, of(T) \cap one) + SumOver(f, of(T) \ one)
    <3>1. \A x \in of(T) : f[x] \in Int
      BY <2>5
    <3>. QED
      BY <1>3, <2>5, <3>1, SumParts
  <2>8. SumOver(h, T) = SumOver(f, of(T))
    BY <1>3, <2>2, <2>3, <2>4, <2>5, <2>6, <2>7
  <2>. QED
    BY <2>8
<1>6. U \in G
  <2>. HIDE DEF G
  <2>. QED
    BY <1>2, <1>5, SetInduction
<1>. QED
  BY <1>1, <1>6

\* A factor may be taken out.
LEMMA SumTimes ==
  ASSUME NEW S, IsFiniteSet(S), NEW c \in Int, NEW f, NEW h,
         \A x \in S : f[x] \in Int, \A x \in S : h[x] = c * f[x]
  PROVE  SumOver(h, S) = c * SumOver(f, S)
<1>. DEFINE G == {T \in SUBSET S : SumOver(h, T) = c * SumOver(f, T)}
<1>1. {} \in G
  BY SumEmpty
<1>2. \A x \in S : h[x] \in Int
  OBVIOUS
<1>3. Splits(f, S)
  BY SumSplits
<1>4. Splits(h, S)
  BY <1>2, SumSplits
<1>5. \A a \in Int, b \in Int : c * (a + b) = c * a + c * b
  OBVIOUS
<1>6. ASSUME NEW T \in SUBSET S, T # {}, IsFiniteSet(T), \A x \in T : T \ {x} \in G
      PROVE  T \in G
  <2>1. PICK x \in T : TRUE
    BY <1>6
  <2>. DEFINE A == SumOver(f, T \ {x})
              B == SumOver(h, T \ {x})
  <2>2. A \in Int /\ SumOver(f, T) = f[x] + A
    BY <1>3 DEF Splits
  <2>3. B \in Int /\ SumOver(h, T) = h[x] + B
    BY <1>4 DEF Splits
  <2>4. B = c * A
    BY <1>6
  <2>5. f[x] \in Int /\ h[x] = c * f[x]
    OBVIOUS
  <2>6. SumOver(h, T) = c * SumOver(f, T)
    <3>. HIDE DEF A, B
    <3>1. c * (f[x] + A) = c * f[x] + c * A
      BY <1>5, <2>2, <2>5
    <3>. QED
      BY <2>2, <2>3, <2>4, <2>5, <3>1
  <2>. QED
    BY <2>6
<1>7. S \in G
  <2>. HIDE DEF G
  <2>. QED
    BY <1>1, <1>6, SetInduction
<1>. QED
  BY <1>7

\* What the rest of a set adds up to.
LEMMA SumRest ==
  ASSUME NEW S, IsFiniteSet(S), NEW f, \A x \in S : f[x] \in Int, NEW x \in S,
         NEW R, R = S \ {x}
  PROVE  SumOver(f, R) \in Int /\ SumOver(f, S) = f[x] + SumOver(f, R)
BY SumRemove

\* A table f of numbers by rows, and g by columns.
Table(f, g, S, T) == \A x \in S, y \in T : f[x][y] \in Int /\ g[y][x] = f[x][y]
RowSums(f, S, T) == [x \in S |-> SumOver(f[x], T)]

\* It has one sum, by rows and by columns.
LEMMA SumExchange ==
  ASSUME NEW S, IsFiniteSet(S), NEW T, IsFiniteSet(T), NEW f, NEW g, Table(f, g, S, T)
  PROVE  SumOver(RowSums(f, S, T), S) = SumOver(RowSums(g, T, S), T)
<1>. DEFINE rows == RowSums(f, S, T)
            columns == RowSums(g, T, S)
            part(R) == [x \in S |-> SumOver(f[x], R)]
            G == {R \in SUBSET T : SumOver(part(R), S) = SumOver(columns, R)}
<1>0. /\ \A x \in S, y \in T : f[x][y] \in Int /\ g[y][x] = f[x][y]
      /\ \A x \in S : rows[x] = SumOver(f[x], T)
      /\ \A y \in T : columns[y] = SumOver(g[y], S)
  BY DEF Table, RowSums
<1>. HIDE DEF rows, columns
<1>1. \A R \in SUBSET T : IsFiniteSet(R)
  BY FS_Subset
<1>2. ASSUME NEW x \in S
      PROVE  Splits(f[x], T)
  <2>1. \A y \in T : f[x][y] \in Int
    BY <1>0
  <2>. QED
    BY <2>1, SumSplits
<1>3. \A y \in T : columns[y] \in Int
  <2>1. ASSUME NEW y \in T
        PROVE  SumOver(g[y], S) \in Int
    <3>1. \A x \in S : g[y][x] \in Int
      BY <1>0
    <3>. QED
      BY <3>1, SumInt
  <2>. QED
    BY <1>0, <2>1
<1>4. {} \in G
  <2>1. \A x \in S : part({})[x] = 0
    BY SumEmpty
  <2>2. SumOver(part({}), S) = 0
    <3>. HIDE DEF part
    <3>. QED
      BY <2>1, SumZero
  <2>. QED
    BY <2>2, SumEmpty
<1>5. ASSUME NEW R \in SUBSET T, R # {}, IsFiniteSet(R), \A y \in R : R \ {y} \in G
      PROVE  R \in G
  <2>1. PICK y \in R : TRUE
    BY <1>5
  <2>. DEFINE Q == R \ {y}
              whole == part(R)
              rest == part(Q)
  <2>2. SumOver(rest, S) = SumOver(columns, Q)
    BY <1>5
  <2>3. SumOver(columns, Q) \in Int /\ SumOver(columns, R) = columns[y] + SumOver(columns, Q)
    <3>1. \A z \in R : columns[z] \in Int
      BY <1>3
    <3>. HIDE DEF G, part
    <3>. QED
      BY <1>5, <3>1, SumRest
  <2>4. ASSUME NEW x \in S
        PROVE  rest[x] \in Int /\ g[y][x] \in Int /\ whole[x] = g[y][x] + rest[x]
    <3>1. /\ SumOver(f[x], Q) \in Int
          /\ SumOver(f[x], R) = f[x][y] + SumOver(f[x], Q)
      BY <1>2 DEF Splits
    <3>. QED
      BY <1>0, <3>1
  <2>5. SumOver(whole, S) = SumOver(g[y], S) + SumOver(rest, S)
    <3>. HIDE DEF whole, rest, G
    <3>. QED
      BY <2>4, SumPlus
  <2>6. SumOver(whole, S) = SumOver(columns, R)
    <3>1. columns[y] = SumOver(g[y], S)
      BY <1>0
    <3>. HIDE DEF whole, rest, G, Q
    <3>. QED
      BY <2>2, <2>3, <2>5, <3>1
  <2>. QED
    BY <2>6
<1>6. T \in G
  <2>. HIDE DEF G
  <2>. QED
    BY <1>4, <1>5, SetInduction
<1>7. \A x \in S : part(T)[x] \in Int /\ rows[x] = part(T)[x]
  <2>1. \A x \in S : SumOver(f[x], T) \in Int
    BY <1>2 DEF Splits
  <2>. QED
    BY <1>0, <2>1
<1>8. SumOver(rows, S) = SumOver(part(T), S)
  <2>. DEFINE p == part(T)
  <2>1. \A x \in S : p[x] \in Int /\ rows[x] = p[x]
    BY <1>7
  <2>2. SumOver(rows, S) = SumOver(p, S)
    <3>. HIDE DEF p, part
    <3>. QED
      BY <2>1, SumSame
  <2>. QED
    BY <2>2
<1>. QED
  BY <1>6, <1>8 DEF rows, columns

\* The difference of two sums.
LEMMA SumMinus ==
  ASSUME NEW S, IsFiniteSet(S), NEW f, NEW g, NEW h,
         \A x \in S : f[x] \in Int, \A x \in S : g[x] \in Int,
         \A x \in S : h[x] = g[x] - f[x]
  PROVE  /\ SumOver(f, S) \in Int /\ SumOver(g, S) \in Int
         /\ SumOver(h, S) = SumOver(g, S) - SumOver(f, S)
<1>1. \A x \in S : h[x] \in Int
  OBVIOUS
<1>2. \A x \in S : g[x] = f[x] + h[x]
  OBVIOUS
<1>3. SumOver(g, S) = SumOver(f, S) + SumOver(h, S)
  BY <1>1, <1>2, SumPlus
<1>4. SumOver(f, S) \in Int /\ SumOver(g, S) \in Int /\ SumOver(h, S) \in Int
  BY <1>1, SumInt
<1>. QED
  BY <1>3, <1>4

-----------------------------------------------------------------------------
(* Sets of values and of elements. *)

\* The values of a function on a finite set.
LEMMA ValuesFinite ==
  ASSUME NEW S, IsFiniteSet(S), NEW f
  PROVE  IsFiniteSet({f[x] : x \in S})
<1>. DEFINE T == {f[x] : x \in S}
            g == [x \in S |-> f[x]]
<1>1. g \in Surjection(S, T)
  BY DEF Surjection
<1>. HIDE DEF g, T
<1>2. IsFiniteSet(T)
  BY <1>1, FS_Surjection
<1>. QED
  BY <1>2 DEF T

\* A set whose elements a function tells apart by numbers from 1 to n.
LEMMA Numbered ==
  ASSUME NEW S, NEW n \in Nat, NEW f, \A x \in S : f[x] \in 1 .. n,
         \A x, y \in S : f[x] = f[y] => x = y
  PROVE  IsFiniteSet(S) /\ Cardinality(S) <= n
<1>. DEFINE g == [x \in S |-> f[x]]
            T == 1 .. n
<1>1. g \in Injection(S, T)
  BY DEF Injection, IsInjective
<1>2. IsFiniteSet(T) /\ Cardinality(T) = n
  <2>1. IsFiniteSet(1 .. n) /\ Cardinality(1 .. n) = IF 1 > n THEN 0 ELSE n - 1 + 1
    BY FS_Interval
  <2>. QED
    BY <2>1
<1>. HIDE DEF g, T
<1>3. IsFiniteSet(S) /\ Cardinality(S) <= Cardinality(T)
  BY <1>1, <1>2, FS_Injection
<1>. QED
  BY <1>2, <1>3

\* The last of n summands apart.
LEMMA SumLast ==
  ASSUME NEW n \in Nat, n > 0, NEW f, \A j \in 1 .. n : f[j] \in Int
  PROVE  /\ SumOver(f, 1 .. n - 1) \in Int
         /\ SumOver(f, 1 .. n) = f[n] + SumOver(f, 1 .. n - 1)
<1>1. 1 .. n - 1 = (1 .. n) \ {n} /\ n \in 1 .. n
  OBVIOUS
<1>2. IsFiniteSet(1 .. n)
  BY FS_Interval
<1>. DEFINE I == 1 .. n
            R == 1 .. n - 1
            m == n
            g == f
<1>3. IsFiniteSet(I) /\ (\A j \in I : g[j] \in Int) /\ m \in I /\ R = I \ {m}
  BY <1>1, <1>2
<1>4. SumOver(g, R) \in Int /\ SumOver(g, I) = g[m] + SumOver(g, R)
  <2>. HIDE DEF I, R, m, g
  <2>. QED BY <1>3, SumRest
<1>. QED BY <1>4
=============================================================================
