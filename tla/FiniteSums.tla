----------------------------- MODULE FiniteSums -----------------------------
(***************************************************************************)
(* Induction over naturals and over finite sets, and what follows from it  *)
(* about sums: the community modules compute MapThenSumSet by taking one   *)
(* element after another out of a set, and these lemmas say what comes out *)
(* for every finite set.  The other proof modules rest on them.            *)
(***************************************************************************)
EXTENDS Integers, FiniteSets, FiniteSetsExt, FiniteSetTheorems, WellFoundedInduction,
        TLAPS

\* A set of naturals has a least element
LEMMA LeastNat ==
    ASSUME NEW T \in SUBSET Nat, T # {}
    PROVE  \E m \in T : \A n \in T : m <= n
<1>1. PICK m \in T : \A n \in T : ~(<<n, m>> \in OpToRel(<, Nat))
  BY WFMin, NatLessThanWellFounded
<1>2. ASSUME NEW n \in T
      PROVE  m <= n
  <2>1. <<n, m>> \notin {ss \in Nat \X Nat : ss[1] < ss[2]}
    BY <1>1 DEF OpToRel
  <2> QED
    BY <2>1
<1> QED
  BY <1>2

\* Induction: a set with 0 and the successors of its naturals contains them all
LEMMA AllNaturals ==
    ASSUME NEW T, 0 \in T, \A n \in Nat : n \in T => n + 1 \in T
    PROVE  Nat \subseteq T
<1> SUFFICES ASSUME NEW k \in Nat, k \notin T PROVE FALSE
  OBVIOUS
<1>1. PICK m \in Nat \ T : \A n \in Nat \ T : m <= n
  BY LeastNat
<1>2. m - 1 \in Nat /\ m - 1 \in T
  BY <1>1
<1> QED
  BY <1>1, <1>2

\* Induction over the subsets of a finite set, element by element
LEMMA AllSubsets ==
    ASSUME NEW S, IsFiniteSet(S), NEW T, {} \in T,
           \A R \in SUBSET S : R # {} /\ (\A x \in R : R \ {x} \in T) => R \in T
    PROVE  SUBSET S \subseteq T
<1> DEFINE Q == {n \in Nat : \A R \in SUBSET S : Cardinality(R) = n => R \in T}
<1>1. \A R \in SUBSET S : IsFiniteSet(R) /\ Cardinality(R) \in Nat
  BY FS_Subset, FS_CardinalityType
<1>2. 0 \in Q
  BY <1>1, FS_EmptySet
<1>3. ASSUME NEW n \in Nat, n \in Q
      PROVE  n + 1 \in Q
  <2> SUFFICES ASSUME NEW R \in SUBSET S, Cardinality(R) = n + 1
               PROVE  R \in T
    OBVIOUS
  <2>1. R # {}
    <3>1. Cardinality(R) # 0
      OBVIOUS
    <3> HIDE DEF Q
    <3> QED
      BY <1>1, <3>1, FS_EmptySet
  <2>2. ASSUME NEW x \in R
        PROVE  R \ {x} \in T
    <3>1. Cardinality(R \ {x}) = n
      BY <1>1, FS_RemoveElement
    <3> QED
      BY <1>3, <3>1
  <2> QED
    BY <2>1, <2>2
<1>4. Nat \subseteq Q
  <2> HIDE DEF Q
  <2> QED
    BY <1>2, <1>3, AllNaturals
<1> QED
  BY <1>1, <1>4

\* A finite set has a greatest element in every strict order that compares all
\* its elements: one with the most elements below it
LEMMA GreatestExists ==
    ASSUME NEW S, IsFiniteSet(S), S # {}, NEW Above,
           \A x, y \in S : x # y => <<x, y>> \in Above \/ <<y, x>> \in Above,
           \A x \in S : <<x, x>> \notin Above,
           \A x, y, z \in S : <<x, y>> \in Above /\ <<y, z>> \in Above
                                => <<x, z>> \in Above
    PROVE  \E x \in S : \A y \in S \ {x} : <<x, y>> \in Above
<1> DEFINE Below(x) == {y \in S : <<x, y>> \in Above}
           size == Cardinality(S)
           count == [x \in S |-> Cardinality(Below(x))]
<1>1. \A x \in S : IsFiniteSet(Below(x)) /\ Cardinality(Below(x)) <= size
  BY FS_Subset
<1>2. \A x \in S : count[x] = Cardinality(Below(x))
  OBVIOUS
<1>3. size \in Nat /\ \A x \in S : count[x] \in Nat /\ size - count[x] \in Nat
  <2>1. size \in Nat
    BY FS_CardinalityType
  <2>2. \A x \in S : Cardinality(Below(x)) \in Nat
    BY <1>1, FS_CardinalityType
  <2> HIDE DEF size, count, Below
  <2> QED
    BY <1>1, <1>2, <2>1, <2>2
<1>4. \A x, y \in S : y # x /\ <<x, y>> \notin Above => count[x] + 1 <= count[y]
  <2> SUFFICES ASSUME NEW x \in S, NEW y \in S, y # x, <<x, y>> \notin Above
               PROVE  Cardinality(Below(x)) + 1 <= Cardinality(Below(y))
    BY <1>2
  <2>1. Below(x) \cup {x} \subseteq Below(y) /\ x \notin Below(x)
    OBVIOUS
  <2>2. Cardinality(Below(x) \cup {x}) = Cardinality(Below(x)) + 1
    BY <1>1, <2>1, FS_AddElement
  <2>3. Cardinality(Below(x) \cup {x}) <= Cardinality(Below(y))
    BY <1>1, <2>1, FS_Subset
  <2> HIDE DEF Below
  <2> QED
    BY <2>2, <2>3
<1> HIDE DEF size, count
<1>5. PICK x \in S : \A y \in S : count[y] <= count[x]
  <2> DEFINE T == {size - count[x] : x \in S}
  <2>1. T \in SUBSET Nat /\ T # {}
    BY <1>3
  <2>2. PICK m \in T : \A n \in T : m <= n
    <3> HIDE DEF T
    <3> QED
      BY <2>1, LeastNat
  <2>3. PICK x \in S : m = size - count[x]
    OBVIOUS
  <2>4. \A y \in S : m <= size - count[y]
    BY <2>2
  <2> QED
    BY <1>3, <2>3, <2>4
<1> QED
  BY <1>3, <1>4, <1>5

\* The least of two or three naturals
LEMMA LeastOfThree ==
    ASSUME NEW i \in Nat, NEW j \in Nat, NEW U, U = {} \/ \E k \in Nat : U = {k}
    PROVE  Min({i, j} \cup U) \in Nat /\ Min({i, j} \cup U) <= j
<1> DEFINE X == {i, j} \cup U
           Least(x) == x \in X /\ \A y \in X : x <= y
<1>1. \E x \in X : \A y \in X : x <= y
  <2>1. X \in SUBSET Nat /\ X # {}
    OBVIOUS
  <2> HIDE DEF X
  <2> QED
    BY <2>1, LeastNat
<1>2. Min(X) \in X /\ \A y \in X : Min(X) <= y
  <2> HIDE DEF X
  <2> QED
    BY <1>1 DEF Min
<1>3. X \in SUBSET Nat /\ j \in X
  OBVIOUS
<1> QED
  BY <1>2, <1>3

-----------------------------------------------------------------------------
(* Folds *)

\* The function that a fold is computed with: it starts from base, c chooses
\* the element that is taken out of a set, and G adds an element
Folding(f, base, G, c, D) ==
    f = [s \in D |-> IF s = {} THEN base ELSE G[<<f[s \ {c[s]}], c[s]>>]]

\* c takes an element out of every nonempty subset of S
Chooses(c, S) == \A s \in SUBSET S : s # {} => c[s] \in s

\* That function exists on a finite set
LEMMA FoldExists ==
    ASSUME NEW S, NEW base, NEW G, NEW c, IsFiniteSet(S), Chooses(c, S)
    PROVE  \E f : Folding(f, base, G, c, SUBSET S)
<1> DEFINE D(n) == {s \in SUBSET S : Cardinality(s) <= n}
           Folds(f, A) == Folding(f, base, G, c, A)
           Q == {n \in Nat : \E f : Folds(f, D(n))}
<1>1. \A s \in SUBSET S : /\ IsFiniteSet(s) /\ Cardinality(s) \in Nat
                          /\ Cardinality(s) <= Cardinality(S)
                          /\ Cardinality(s) = 0 <=> s = {}
  BY FS_Subset, FS_CardinalityType, FS_EmptySet
<1>2. \A s \in SUBSET S : s # {} =>
        /\ s \ {c[s]} \in SUBSET S
        /\ Cardinality(s \ {c[s]}) = Cardinality(s) - 1
  BY <1>1, FS_RemoveElement DEF Chooses
<1>3. 0 \in Q
  <2> DEFINE f == [s \in D(0) |-> base]
  <2>1. \A s \in D(0) : s = {}
    BY <1>1
  <2>2. Folds(f, D(0))
    BY <2>1 DEF Folding
  <2> HIDE DEF f, Folds
  <2> QED
    BY <2>2
<1>4. ASSUME NEW n \in Nat, n \in Q
      PROVE  n + 1 \in Q
  <2>1. PICK f : Folds(f, D(n))
    BY <1>4
  <2> DEFINE g == [s \in D(n + 1) |-> IF s = {} THEN base
                                      ELSE G[<<f[s \ {c[s]}], c[s]>>]]
  <2>2. \A s \in D(n) : s \in D(n + 1)
    BY <1>1
  <2>3. \A s \in D(n) : g[s] = f[s]
    BY <2>1, <2>2 DEF Folding
  <2>4. \A s \in D(n + 1) : s # {} => s \ {c[s]} \in D(n)
    BY <1>1, <1>2
  <2>5. \A s \in D(n + 1) : g[s] = IF s = {} THEN base
                                   ELSE G[<<g[s \ {c[s]}], c[s]>>]
    BY <2>3, <2>4
  <2>6. g = [s \in D(n + 1) |-> g[s]]
    OBVIOUS
  <2> HIDE DEF g
  <2>7. Folds(g, D(n + 1))
    BY <2>5, <2>6 DEF Folding
  <2> HIDE DEF D, Folds
  <2> QED
    BY <2>7
<1>5. Nat \subseteq Q
  <2> HIDE DEF Q
  <2> QED
    BY <1>3, <1>4, AllNaturals
<1>6. D(Cardinality(S)) = SUBSET S
  BY <1>1
<1>7. Cardinality(S) \in Nat
  BY FS_CardinalityType
<1>8. PICK f : Folds(f, D(Cardinality(S)))
  BY <1>5, <1>7
<1> QED
  BY <1>6, <1>8

-----------------------------------------------------------------------------
(* Sums *)

\* The element that a fold takes out of a set
First(s) == CHOOSE x \in s : TRUE

\* The function that a sum is computed with
Partial(f, F, D) ==
    f = [s \in D |-> IF s = {} THEN 0 ELSE F[First(s)] + f[s \ {First(s)}]]

\* The sum of the values that the function F has on the finite set S
SumOf(F, S) == (CHOOSE f : Partial(f, F, SUBSET S))[S]

\* It is what the community modules compute
LEMMA FoldIsSum ==
    ASSUME NEW F, NEW S
    PROVE  MapThenSumSet(LAMBDA x : F[x], S) = SumOf(F, S)
BY DEF MapThenSumSet, MapThenFoldSet, First, Partial, SumOf

\* That function exists on a finite set
LEMMA PartialExists ==
    ASSUME NEW F, NEW S, IsFiniteSet(S)
    PROVE  \E f : Partial(f, F, SUBSET S)
<1> DEFINE D(n) == {s \in SUBSET S : Cardinality(s) <= n}
           Q == {n \in Nat : \E f : Partial(f, F, D(n))}
<1>1. \A s \in SUBSET S : /\ IsFiniteSet(s) /\ Cardinality(s) \in Nat
                          /\ Cardinality(s) <= Cardinality(S)
                          /\ Cardinality(s) = 0 <=> s = {}
  BY FS_Subset, FS_CardinalityType, FS_EmptySet
<1>2. \A s \in SUBSET S : s # {} =>
        /\ First(s) \in s
        /\ s \ {First(s)} \in SUBSET S
        /\ Cardinality(s \ {First(s)}) = Cardinality(s) - 1
  BY <1>1, FS_RemoveElement DEF First
<1>3. 0 \in Q
  <2> DEFINE f == [s \in D(0) |-> 0]
  <2>1. \A s \in D(0) : s = {}
    BY <1>1
  <2>2. f = [s \in D(0) |-> IF s = {} THEN 0 ELSE F[First(s)] + f[s \ {First(s)}]]
    BY <2>1
  <2> HIDE DEF f
  <2> QED
    BY <2>2 DEF Partial
<1>4. ASSUME NEW n \in Nat, n \in Q
      PROVE  n + 1 \in Q
  <2>1. PICK f : Partial(f, F, D(n))
    BY <1>4
  <2> DEFINE g == [s \in D(n + 1) |-> IF s = {} THEN 0
                                      ELSE F[First(s)] + f[s \ {First(s)}]]
  <2>2. \A s \in D(n) : s \in D(n + 1)
    BY <1>1
  <2>3. \A s \in D(n) : g[s] = f[s]
    BY <2>1, <2>2 DEF Partial
  <2>4. \A s \in D(n + 1) : s # {} => s \ {First(s)} \in D(n)
    BY <1>1, <1>2
  <2>5. \A s \in D(n + 1) : g[s] = IF s = {} THEN 0
                                   ELSE F[First(s)] + g[s \ {First(s)}]
    BY <2>3, <2>4
  <2>6. g = [s \in D(n + 1) |-> g[s]]
    OBVIOUS
  <2> HIDE DEF g
  <2>7. Partial(g, F, D(n + 1))
    BY <2>5, <2>6 DEF Partial
  <2> HIDE DEF D
  <2> QED
    BY <2>7
<1>5. Nat \subseteq Q
  <2> HIDE DEF Q
  <2> QED
    BY <1>3, <1>4, AllNaturals
<1>6. D(Cardinality(S)) = SUBSET S
  BY <1>1
<1>7. Cardinality(S) \in Nat
  BY FS_CardinalityType
<1> QED
  BY <1>5, <1>6, <1>7

\* What the function of a sum says about one set
LEMMA PartialValue ==
    ASSUME NEW F, NEW S, NEW R \in SUBSET S, NEW f, Partial(f, F, SUBSET S)
    PROVE  f[R] = IF R = {} THEN 0 ELSE F[First(R)] + f[R \ {First(R)}]
BY DEF Partial

\* Two functions that compute sums agree
LEMMA PartialUnique ==
    ASSUME NEW F, NEW S, NEW P \in SUBSET S, NEW f, NEW g,
           IsFiniteSet(S), Partial(f, F, SUBSET S), Partial(g, F, SUBSET P)
    PROVE  \A R \in SUBSET P : f[R] = g[R]
<1> DEFINE T == {R \in SUBSET P : f[R] = g[R]}
<1>1. IsFiniteSet(P)
  BY FS_Subset
<1>2. {} \in T
  BY PartialValue
<1>3. ASSUME NEW R \in SUBSET P, R # {}, \A x \in R : R \ {x} \in T
      PROVE  R \in T
  <2>1. First(R) \in R
    BY <1>3 DEF First
  <2>2. f[R \ {First(R)}] = g[R \ {First(R)}]
    BY <1>3, <2>1
  <2>3. f[R] = F[First(R)] + f[R \ {First(R)}]
    BY <1>3, PartialValue
  <2>4. g[R] = F[First(R)] + g[R \ {First(R)}]
    BY <1>3, PartialValue
  <2> QED
    BY <2>2, <2>3, <2>4
<1>4. SUBSET P \subseteq T
  <2> HIDE DEF T
  <2> QED
    BY <1>1, <1>2, <1>3, AllSubsets
<1> QED
  BY <1>4

\* A sum, taken from its function
LEMMA SumIs ==
    ASSUME NEW F, NEW S, NEW R \in SUBSET S, NEW f,
           IsFiniteSet(S), Partial(f, F, SUBSET S)
    PROVE  SumOf(F, R) = f[R]
<1>1. IsFiniteSet(R)
  BY FS_Subset
<1>2. PICK g : Partial(g, F, SUBSET R)
  BY <1>1, PartialExists
<1>3. PICK h : Partial(h, F, SUBSET R) /\ SumOf(F, R) = h[R]
  <2>1. Partial(CHOOSE h : Partial(h, F, SUBSET R), F, SUBSET R)
    BY <1>2, Zenon
  <2> QED
    BY <2>1, Zenon DEF SumOf
<1>4. f[R] = h[R]
  BY <1>3, PartialUnique, SMT
<1> QED
  BY <1>3, <1>4

\* A sum of integers is taken apart at any element, in whatever order it is
\* computed
Splits(F, S) ==
    /\ SumOf(F, {}) = 0
    /\ \A R \in SUBSET S : SumOf(F, R) \in Int
    /\ \A R \in SUBSET S : \A x \in R : SumOf(F, R) = F[x] + SumOf(F, R \ {x})

\* Every finite set of integers can be summed that way
LEMMA SumSplitsOff ==
    ASSUME NEW S, NEW F, IsFiniteSet(S), \A x \in S : F[x] \in Int
    PROVE  Splits(F, S)
<1>1. PICK f : Partial(f, F, SUBSET S)
  BY PartialExists
<1>2. \A R \in SUBSET S : SumOf(F, R) = f[R]
  BY <1>1, SumIs
<1>3. \A R \in SUBSET S : f[R] = IF R = {} THEN 0
                                 ELSE F[First(R)] + f[R \ {First(R)}]
  BY <1>1 DEF Partial
<1>4. \A R \in SUBSET S : R # {} => First(R) \in R /\ F[First(R)] \in Int
  BY DEF First
<1> DEFINE I == {R \in SUBSET S : f[R] \in Int}
           T == {R \in SUBSET S : \A x \in R : f[R] = F[x] + f[R \ {x}]}
<1>5. \A R \in SUBSET S : f[R] \in Int
  <2>1. {} \in I
    <3>1. {} \in SUBSET S /\ f[{}] = 0
      BY <1>3
    <3> QED
      BY <3>1
  <2>2. ASSUME NEW R \in SUBSET S, R # {}, \A x \in R : R \ {x} \in I
        PROVE  R \in I
    <3>1. PICK y \in R : y = First(R)
      BY <1>4, <2>2
    <3>2. f[R] = F[y] + f[R \ {y}]
      BY <1>3, <2>2, <3>1
    <3>3. F[y] \in Int /\ f[R \ {y}] \in Int
      BY <2>2
    <3> HIDE DEF I
    <3>4. f[R] \in Int
      BY <3>2, <3>3
    <3> QED
      BY <3>4 DEF I
  <2>3. SUBSET S \subseteq I
    <3> HIDE DEF I
    <3> QED
      BY <2>1, <2>2, AllSubsets
  <2> QED
    BY <2>3
<1>6. SUBSET S \subseteq T
  <2>1. {} \in T
    OBVIOUS
  <2>2. ASSUME NEW R \in SUBSET S, R # {}, \A x \in R : R \ {x} \in T
        PROVE  R \in T
    <3>1. PICK y \in R : y = First(R)
      BY <1>4, <2>2
    <3>2. f[R] = F[y] + f[R \ {y}]
      BY <1>3, <2>2, <3>1
    <3>3. ASSUME NEW x \in R, x # y
          PROVE  f[R] = F[x] + f[R \ {x}]
      <4>1. x \in R \ {y} /\ y \in R \ {x}
        BY <3>3
      <4>2. (R \ {y}) \ {x} = (R \ {x}) \ {y}
        OBVIOUS
      <4>3. f[R \ {y}] = F[x] + f[(R \ {y}) \ {x}]
        BY <2>2, <4>1
      <4>4. f[R \ {x}] = F[y] + f[(R \ {x}) \ {y}]
        BY <2>2, <4>1
      <4>5. f[(R \ {x}) \ {y}] \in Int /\ F[x] \in Int /\ F[y] \in Int
        <5>1. (R \ {x}) \ {y} \in SUBSET S
          OBVIOUS
        <5> QED
          BY <5>1, <1>5
      <4>6. PICK a \in Int, b \in Int, w \in Int :
              a = F[x] /\ b = F[y] /\ w = f[(R \ {x}) \ {y}]
        BY <4>5
      <4>7. f[R \ {y}] = a + w /\ f[R \ {x}] = b + w
        BY <4>2, <4>3, <4>4, <4>6
      <4>8. f[R] = b + (a + w)
        BY <3>2, <4>6, <4>7
      <4>9. b + (a + w) = a + (b + w)
        OBVIOUS
      <4> QED
        BY <4>6, <4>7, <4>8, <4>9
    <3>4. \A x \in R : f[R] = F[x] + f[R \ {x}]
      BY <3>2, <3>3
    <3> QED
      BY <3>4
  <2>3. SUBSET S \subseteq T
    <3> HIDE DEF T
    <3> QED
      BY <2>1, <2>2, AllSubsets
  <2> QED
    BY <2>3
<1>7. \A R \in SUBSET S : \A x \in R : f[R] = F[x] + f[R \ {x}]
  BY <1>6
<1>8. SumOf(F, {}) = 0
  BY <1>2, <1>3
<1>9. \A R \in SUBSET S : \A x \in R : SumOf(F, R) = F[x] + SumOf(F, R \ {x})
  BY <1>2, <1>7
<1> QED
  BY <1>2, <1>5, <1>8, <1>9 DEF Splits

\* Only the values on the set matter
LEMMA SumExtensional ==
    ASSUME NEW S, NEW F, NEW G, IsFiniteSet(S), \A x \in S : F[x] = G[x]
    PROVE  SumOf(F, S) = SumOf(G, S)
<1>1. PICK f : Partial(f, F, SUBSET S)
  BY PartialExists
<1>2. \A s \in SUBSET S : s # {} => F[First(s)] = G[First(s)]
  BY DEF First
<1>3. Partial(f, G, SUBSET S)
  BY <1>1, <1>2 DEF Partial
<1>4. SumOf(F, S) = f[S]
  BY <1>1, SumIs, SMT
<1>5. SumOf(G, S) = f[S]
  BY <1>3, SumIs, SMT
<1> QED
  BY <1>4, <1>5

\* A sum of integers is one
LEMMA SumInteger ==
    ASSUME NEW S, NEW F, IsFiniteSet(S), \A x \in S : F[x] \in Int
    PROVE  SumOf(F, S) \in Int
BY SumSplitsOff DEF Splits

\* A sum grows with its terms
LEMMA SumMonotone ==
    ASSUME NEW S, NEW F, NEW G, IsFiniteSet(S),
           \A x \in S : F[x] \in Int /\ G[x] \in Int /\ F[x] <= G[x]
    PROVE  SumOf(F, S) <= SumOf(G, S)
<1> DEFINE T == {R \in SUBSET S : SumOf(F, R) <= SumOf(G, R)}
<1>1. Splits(F, S)
  BY SumSplitsOff
<1>2. Splits(G, S)
  BY SumSplitsOff
<1>3. {} \in T
  BY <1>1, <1>2 DEF Splits
<1>4. ASSUME NEW R \in SUBSET S, R # {}, \A x \in R : R \ {x} \in T
      PROVE  R \in T
  <2>1. PICK x \in R : SumOf(F, R \ {x}) <= SumOf(G, R \ {x})
    BY <1>4
  <2>2. R \ {x} \in SUBSET S
    OBVIOUS
  <2>3. /\ SumOf(F, R) = F[x] + SumOf(F, R \ {x}) /\ SumOf(F, R \ {x}) \in Int
        /\ SumOf(G, R) = G[x] + SumOf(G, R \ {x}) /\ SumOf(G, R \ {x}) \in Int
    BY <1>1, <1>2, <2>2 DEF Splits
  <2>4. SumOf(F, R) <= SumOf(G, R)
    BY <2>1, <2>3
  <2> QED
    BY <2>4
<1>5. SUBSET S \subseteq T
  <2> HIDE DEF T
  <2> QED
    BY <1>3, <1>4, AllSubsets
<1> QED
  BY <1>5

\* The sum of a * F[x] + b * G[x] + c over S
LEMMA SumLinear ==
    ASSUME NEW S, NEW F, NEW G, NEW H, NEW a \in Int, NEW b \in Int, NEW c \in Int,
           IsFiniteSet(S),
           \A x \in S : F[x] \in Int /\ G[x] \in Int,
           \A x \in S : H[x] = a * F[x] + b * G[x] + c
    PROVE  SumOf(H, S) = a * SumOf(F, S) + b * SumOf(G, S) + c * Cardinality(S)
<1> DEFINE n(R) == Cardinality(R)
           T == {R \in SUBSET S :
                   SumOf(H, R) = a * SumOf(F, R) + b * SumOf(G, R) + c * n(R)}
<1>1. Splits(F, S)
  BY SumSplitsOff
<1>2. Splits(G, S)
  BY SumSplitsOff
<1>3. \A x \in S : H[x] \in Int
  OBVIOUS
<1>4. Splits(H, S)
  BY <1>3, SumSplitsOff
<1>5. /\ n({}) = 0
      /\ \A R \in SUBSET S : n(R) \in Int /\ \A x \in R : n(R) = n(R \ {x}) + 1
  <2>1. \A R \in SUBSET S : IsFiniteSet(R)
    BY FS_Subset
  <2>2. \A R \in SUBSET S : n(R) \in Nat
    BY <2>1, FS_CardinalityType
  <2>3. ASSUME NEW R \in SUBSET S, NEW x \in R
        PROVE  n(R) = n(R \ {x}) + 1
    <3>1. n(R \ {x}) = n(R) - 1
      BY <2>1, FS_RemoveElement
    <3> HIDE DEF n
    <3> QED
      BY <2>2, <3>1
  <2> QED
    BY <2>2, <2>3, FS_EmptySet
<1> HIDE DEF n
<1>6. {} \in T
  BY <1>1, <1>2, <1>4, <1>5 DEF Splits
<1>7. ASSUME NEW R \in SUBSET S, R # {}, \A x \in R : R \ {x} \in T
      PROVE  R \in T
  <2>1. PICK x \in R : TRUE
    BY <1>7
  <2>2. R \ {x} \in SUBSET S /\ R \ {x} \in T
    BY <1>7
  <2> DEFINE Q == R \ {x}
  <2> HIDE DEF Q
  <2>3. PICK f, g, k, sf, sg \in Int :
          /\ f = F[x] /\ g = G[x] /\ k = n(Q)
          /\ sf = SumOf(F, Q) /\ sg = SumOf(G, Q)
    BY <1>1, <1>2, <1>5, <2>2 DEF Q, Splits
  <2>4. /\ SumOf(F, R) = f + sf
        /\ SumOf(G, R) = g + sg
        /\ n(R) = k + 1
        /\ SumOf(H, R) = H[x] + SumOf(H, Q)
    BY <1>1, <1>2, <1>4, <1>5, <2>3 DEF Q, Splits
  <2>5. SumOf(H, Q) = a * sf + b * sg + c * k
    BY <2>2, <2>3 DEF Q
  <2>6. H[x] = a * f + b * g + c
    BY <2>3
  <2>7. SumOf(H, R) = (a * f + b * g + c) + (a * sf + b * sg + c * k)
    BY <2>4, <2>5, <2>6
  <2>8. (a * f + b * g + c) + (a * sf + b * sg + c * k)
          = a * (f + sf) + b * (g + sg) + c * (k + 1)
    OBVIOUS
  <2>9. SumOf(H, R) = a * SumOf(F, R) + b * SumOf(G, R) + c * n(R)
    BY <2>4, <2>7, <2>8
  <2> QED
    BY <2>9
<1>8. SUBSET S \subseteq T
  <2> HIDE DEF T
  <2> QED
    BY <1>6, <1>7, AllSubsets
<1>9. S \in T
  BY <1>8
<1> QED
  BY <1>9 DEF n

\* A sum of zeros
LEMMA SumOfZeros ==
    ASSUME NEW S, NEW F, IsFiniteSet(S), \A x \in S : F[x] = 0
    PROVE  SumOf(F, S) = 0
<1>1. \A x \in S : F[x] \in Int
  OBVIOUS
<1>2. \A x \in S : F[x] = 0 * F[x] + 0 * F[x] + 0
  OBVIOUS
<1>3. SumOf(F, S) = 0 * SumOf(F, S) + 0 * SumOf(F, S) + 0 * Cardinality(S)
  BY <1>1, <1>2, SumLinear, SMT
<1>4. SumOf(F, S) \in Int /\ Cardinality(S) \in Int
  BY <1>1, SumInteger, FS_CardinalityType
<1> QED
  BY <1>3, <1>4

\* The sum over two sets that have nothing in common
LEMMA SumUnion ==
    ASSUME NEW A, NEW B, NEW F, IsFiniteSet(A), IsFiniteSet(B), A \cap B = {},
           \A x \in A \cup B : F[x] \in Int
    PROVE  SumOf(F, A \cup B) = SumOf(F, A) + SumOf(F, B)
<1> DEFINE S == A \cup B
           T == {R \in SUBSET A : SumOf(F, R \cup B) = SumOf(F, R) + SumOf(F, B)}
<1>1. IsFiniteSet(S)
  BY FS_Union
<1>2. Splits(F, S)
  <2>1. \A x \in S : F[x] \in Int
    OBVIOUS
  <2> HIDE DEF S
  <2> QED
    BY <1>1, <2>1, SumSplitsOff
<1>3. {} \in T
  <2>1. {} \cup B = B /\ SumOf(F, B) \in Int
    BY <1>2 DEF Splits
  <2>2. SumOf(F, {} \cup B) = SumOf(F, {}) + SumOf(F, B)
    BY <1>2, <2>1 DEF Splits
  <2> QED
    BY <2>2
<1>4. ASSUME NEW R \in SUBSET A, R # {}, \A x \in R : R \ {x} \in T
      PROVE  R \in T
  <2>1. PICK x \in R : TRUE
    BY <1>4
  <2>2. SumOf(F, (R \ {x}) \cup B) = SumOf(F, R \ {x}) + SumOf(F, B)
    BY <1>4
  <2>3. (R \cup B) \ {x} = (R \ {x}) \cup B
    OBVIOUS
  <2>4. /\ SumOf(F, R \cup B) = F[x] + SumOf(F, (R \cup B) \ {x})
        /\ SumOf(F, R) = F[x] + SumOf(F, R \ {x})
        /\ SumOf(F, R \ {x}) \in Int /\ SumOf(F, B) \in Int /\ F[x] \in Int
    <3>1. /\ R \cup B \in SUBSET S /\ R \in SUBSET S /\ B \in SUBSET S
          /\ R \ {x} \in SUBSET S /\ x \in R \cup B
      OBVIOUS
    <3> QED
      BY <1>2, <3>1 DEF Splits
  <2>5. SumOf(F, R \cup B) = SumOf(F, R) + SumOf(F, B)
    <3>1. SumOf(F, R \cup B) = F[x] + (SumOf(F, R \ {x}) + SumOf(F, B))
      BY <2>2, <2>3, <2>4
    <3> QED
      BY <2>4, <3>1
  <2> QED
    BY <2>5
<1>5. SUBSET A \subseteq T
  <2> HIDE DEF T
  <2> QED
    BY <1>3, <1>4, AllSubsets
<1> QED
  BY <1>5

\* A sum of naturals is one, and none of its terms exceeds it
LEMMA SumOfNaturals ==
    ASSUME NEW S, NEW F, IsFiniteSet(S), \A x \in S : F[x] \in Nat
    PROVE  SumOf(F, S) \in Nat /\ \A x \in S : F[x] <= SumOf(F, S)
<1> DEFINE Z == [x \in S |-> 0]
<1>1. \A x \in S : F[x] \in Int /\ Z[x] \in Int /\ Z[x] <= F[x]
  OBVIOUS
<1>2. \A R \in SUBSET S : 0 <= SumOf(F, R)
  <2> DEFINE T == {R \in SUBSET S : 0 <= SumOf(F, R)}
  <2>1. Splits(F, S)
    BY <1>1, SumSplitsOff
  <2>2. {} \in T
    BY <2>1 DEF Splits
  <2>3. ASSUME NEW R \in SUBSET S, R # {}, \A x \in R : R \ {x} \in T
        PROVE  R \in T
    <3>1. PICK x \in R : 0 <= SumOf(F, R \ {x})
      BY <2>3
    <3>2. R \ {x} \in SUBSET S
      OBVIOUS
    <3>3. SumOf(F, R) = F[x] + SumOf(F, R \ {x}) /\ SumOf(F, R \ {x}) \in Int
          /\ F[x] \in Nat
      BY <2>1, <3>2 DEF Splits
    <3>4. 0 <= SumOf(F, R)
      BY <3>1, <3>3
    <3> QED
      BY <3>4
  <2>4. SUBSET S \subseteq T
    <3> HIDE DEF T
    <3> QED
      BY <2>2, <2>3, AllSubsets
  <2> QED
    BY <2>4
<1>3. SumOf(F, S) \in Int
  BY <1>1, SumInteger
<1>4. ASSUME NEW x \in S
      PROVE  F[x] <= SumOf(F, S)
  <2>1. SumOf(F, S) = F[x] + SumOf(F, S \ {x}) /\ SumOf(F, S \ {x}) \in Int
    <3>1. Splits(F, S)
      BY <1>1, SumSplitsOff
    <3> QED
      BY <3>1 DEF Splits
  <2>2. 0 <= SumOf(F, S \ {x})
    BY <1>2
  <2> QED
    BY <1>1, <2>1, <2>2
<1> QED
  BY <1>2, <1>3, <1>4

\* Changing one term
LEMMA SumChanged ==
    ASSUME NEW S, NEW F, NEW G, NEW y \in S, IsFiniteSet(S),
           \A x \in S : F[x] \in Int /\ G[x] \in Int,
           \A x \in S \ {y} : G[x] = F[x]
    PROVE  SumOf(G, S) = SumOf(F, S) - F[y] + G[y]
<1>1. /\ SumOf(F, S) = F[y] + SumOf(F, S \ {y})
      /\ SumOf(F, S \ {y}) \in Int
  BY SumSplitsOff DEF Splits
<1>2. /\ SumOf(G, S) = G[y] + SumOf(G, S \ {y})
      /\ SumOf(G, S \ {y}) \in Int
  BY SumSplitsOff DEF Splits
<1>3. SumOf(G, S \ {y}) = SumOf(F, S \ {y})
  <2>1. IsFiniteSet(S \ {y})
    BY FS_Subset
  <2> QED
    BY <2>1, SumExtensional
<1> QED
  BY <1>1, <1>2, <1>3

\* C has the sums of the columns of the table A with the rows S
ColumnSums(C, A, S, M) == \A m \in M : C[m] = SumOf([p \in S |-> A[p][m]], S)

\* Rows with sums of at most k: so many rows have a total of at most k times
\* their number, when the columns are summed first
LEMMA SumByColumns ==
    ASSUME NEW S, NEW M, NEW A, NEW C, NEW k \in Int, IsFiniteSet(S), IsFiniteSet(M),
           \A p \in S : \A m \in M : A[p][m] \in Int,
           \A p \in S : SumOf(A[p], M) <= k,
           ColumnSums(C, A, S, M)
    PROVE  SumOf(C, M) <= k * Cardinality(S)
<1> DEFINE col(R, m) == SumOf([p \in S |-> A[p][m]], R)
           tot(R) == SumOf([m \in M |-> col(R, m)], M)
           n(R) == Cardinality(R)
           T == {R \in SUBSET S : tot(R) <= k * n(R)}
<1>1. ASSUME NEW m \in M
      PROVE  /\ col({}, m) = 0
             /\ \A R \in SUBSET S : col(R, m) \in Int
             /\ \A R \in SUBSET S : \A p \in R :
                  col(R, m) = A[p][m] + col(R \ {p}, m)
  <2> DEFINE F == [p \in S |-> A[p][m]]
  <2>1. \A p \in S : F[p] = A[p][m] /\ F[p] \in Int
    OBVIOUS
  <2> HIDE DEF F
  <2>2. Splits(F, S)
    BY <2>1, SumSplitsOff
  <2>3. \A R \in SUBSET S : \A p \in R : SumOf(F, R) = A[p][m] + SumOf(F, R \ {p})
    BY <2>1, <2>2 DEF Splits
  <2> QED
    BY <2>2, <2>3 DEF F, Splits
<1> HIDE DEF col
<1>2. \A R \in SUBSET S : n(R) \in Nat /\ \A p \in R : n(R) = n(R \ {p}) + 1
  <2>1. \A R \in SUBSET S : IsFiniteSet(R)
    BY FS_Subset
  <2>2. \A R \in SUBSET S : n(R) \in Nat
    BY <2>1, FS_CardinalityType
  <2>3. ASSUME NEW R \in SUBSET S, NEW x \in R
        PROVE  n(R) = n(R \ {x}) + 1
    <3>1. n(R \ {x}) = n(R) - 1
      BY <2>1, FS_RemoveElement
    <3> HIDE DEF n
    <3> QED
      BY <2>2, <3>1
  <2> QED
    BY <2>2, <2>3
<1>3. n({}) = 0
  BY FS_EmptySet
<1> HIDE DEF n
<1>4. \A R \in SUBSET S : tot(R) \in Int
  <2> SUFFICES ASSUME NEW R \in SUBSET S
               PROVE  tot(R) \in Int
    OBVIOUS
  <2> DEFINE G == [m \in M |-> col(R, m)]
  <2>1. \A m \in M : G[m] \in Int
    BY <1>1
  <2> HIDE DEF G
  <2>2. SumOf(G, M) \in Int
    BY <2>1, SumInteger
  <2> QED
    BY <2>2 DEF G
<1>5. {} \in T
  <2> DEFINE G == [m \in M |-> col({}, m)]
  <2>1. \A m \in M : G[m] = 0
    BY <1>1
  <2> HIDE DEF G
  <2>2. \A m \in M : G[m] \in Int /\ G[m] = 0 * G[m] + 0 * G[m] + 0
    BY <2>1
  <2>3. SumOf(G, M) = 0 * SumOf(G, M) + 0 * SumOf(G, M) + 0 * Cardinality(M)
    BY <2>2, SumLinear, SMT
  <2>4. SumOf(G, M) \in Int /\ Cardinality(M) \in Int
    BY <2>2, SumInteger, FS_CardinalityType
  <2>5. SumOf(G, M) = 0
    BY <2>3, <2>4
  <2>6. tot({}) = 0
    BY <2>5 DEF G
  <2> HIDE DEF tot
  <2> QED
    BY <1>3, <2>6
<1>6. ASSUME NEW R \in SUBSET S, R # {}, \A x \in R : R \ {x} \in T
      PROVE  R \in T
  <2>1. PICK p \in R : tot(R \ {p}) <= k * n(R \ {p})
    BY <1>6
  <2>2. tot(R) = SumOf(A[p], M) + tot(R \ {p})
    <3> DEFINE G == [m \in M |-> col(R \ {p}, m)]
               H == [m \in M |-> col(R, m)]
               B == A[p]
    <3>1. R \ {p} \in SUBSET S
      OBVIOUS
    <3>2. \A m \in M : B[m] \in Int /\ G[m] \in Int /\ H[m] = B[m] + G[m]
      BY <1>1, <3>1
    <3> HIDE DEF B, G, H
    <3>3. \A m \in M : B[m] \in Int /\ G[m] \in Int
      BY <3>2
    <3>4. \A m \in M : H[m] = 1 * B[m] + 1 * G[m] + 0
      BY <3>2
    <3>5. SumOf(H, M) = 1 * SumOf(B, M) + 1 * SumOf(G, M) + 0 * Cardinality(M)
      BY <3>3, <3>4, SumLinear, SMT
    <3>6. SumOf(B, M) \in Int /\ SumOf(G, M) \in Int /\ Cardinality(M) \in Int
      BY <3>3, SumInteger, FS_CardinalityType
    <3>7. SumOf(H, M) = SumOf(B, M) + SumOf(G, M)
      BY <3>5, <3>6
    <3> QED
      BY <3>7 DEF B, G, H
  <2>3. SumOf(A[p], M) \in Int
    BY SumInteger
  <2>4. R \ {p} \in SUBSET S
    OBVIOUS
  <2> HIDE DEF tot
  <2>5. PICK i, j \in Int : i = tot(R \ {p}) /\ j = n(R \ {p})
    BY <1>2, <1>4, <2>4
  <2>6. tot(R) = SumOf(A[p], M) + i /\ n(R) = j + 1 /\ i <= k * j
    BY <1>2, <2>1, <2>2, <2>5
  <2>7. SumOf(A[p], M) <= k
    OBVIOUS
  <2>8. tot(R) <= k * j + k
    BY <2>3, <2>6, <2>7
  <2>9. k * j + k = k * (j + 1)
    OBVIOUS
  <2>10. tot(R) <= k * n(R)
    BY <2>6, <2>8, <2>9
  <2> QED
    BY <2>10
<1>7. SUBSET S \subseteq T
  <2> HIDE DEF T
  <2> QED
    BY <1>5, <1>6, AllSubsets
<1>8. tot(S) <= k * n(S)
  BY <1>7
<1>9. SumOf(C, M) = tot(S)
  <2> DEFINE G == [m \in M |-> col(S, m)]
  <2>1. \A m \in M : C[m] = G[m]
    BY DEF col, ColumnSums
  <2> HIDE DEF G
  <2>2. SumOf(C, M) = SumOf(G, M)
    BY <2>1, SumExtensional
  <2> QED
    BY <2>2 DEF G
<1> HIDE DEF tot
<1> QED
  BY <1>8, <1>9 DEF n
=============================================================================
