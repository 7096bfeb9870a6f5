--------------------------------- MODULE Sums ---------------------------------
(***************************************************************************)
(* Sums over finite sets, as FoldFunctionOnSet and MapThenSumSet compute   *)
(* them: what the proofs about totals rest on.  Induction is stated with a *)
(* set in place of a predicate.                                            *)
(***************************************************************************)
EXTENDS Integers, FiniteSets, Functions, FiniteSetTheorems, WellFoundedInduction, TLAPS

-----------------------------------------------------------------------------
(* Induction *)

LEMMA LeastNumber ==
  ASSUME NEW T \in SUBSET Nat, T # {}
  PROVE  \E n \in T : \A m \in T : n <= m
<1>1. PICK n \in T : \A m \in T : ~(<<m, n>> \in OpToRel(<, Nat))
  BY NatLessThanWellFounded, WFMin
<1>2. \A m \in T : ~(m < n)
  BY <1>1 DEF OpToRel
<1> QED
  BY <1>2

(* What holds of 0 and of the successor of each number it holds of *)
LEMMA SetOfNaturals ==
  ASSUME NEW C, 0 \in C, \A n \in Nat : n \in C => n + 1 \in C
  PROVE  Nat \subseteq C
<1> DEFINE T == Nat \ C
<1>1. SUFFICES ASSUME T # {} PROVE FALSE
  OBVIOUS
<1>2. PICK n \in T : \A m \in T : n <= m
  <2> HIDE DEF T
  <2>1. T \subseteq Nat
    BY DEF T
  <2> QED
    BY <1>1, <2>1, LeastNumber
<1>3. n # 0 /\ n - 1 \in Nat /\ n - 1 \notin T
  BY <1>2
<1>4. n - 1 \in C /\ (n - 1) + 1 = n
  BY <1>3
<1> QED
  BY <1>2, <1>3, <1>4

(* What holds of the empty set and of each set that it holds of without one of
   its elements *)
LEMMA SubsetInduction ==
  ASSUME NEW S, IsFiniteSet(S), NEW C, {} \in C,
         \A T \in SUBSET S : \A y \in T : T \ {y} \in C => T \in C
  PROVE  S \in C
<1> DEFINE N == {n \in Nat : \A T \in SUBSET S : Cardinality(T) <= n => T \in C}
<1>1. \A T \in SUBSET S : IsFiniteSet(T) /\ Cardinality(T) \in Nat
  BY FS_Subset, FS_CardinalityType
<1>2. 0 \in N
  <2>1. \A T \in SUBSET S : Cardinality(T) <= 0 => T = {}
    BY <1>1, FS_EmptySet
  <2> QED
    BY <2>1
<1>3. ASSUME NEW n \in Nat, n \in N PROVE n + 1 \in N
  <2>1. ASSUME NEW T \in SUBSET S, Cardinality(T) <= n + 1, NEW y \in T PROVE T \in C
    <3>1. T \ {y} \in SUBSET S /\ Cardinality(T \ {y}) <= n
      <4>1. IsFiniteSet(T) /\ Cardinality(T) \in Nat
        BY <1>1
      <4>2. Cardinality(T \ {y}) = Cardinality(T) - 1
        BY <4>1, FS_RemoveElement
      <4> QED
        BY <2>1, <4>1, <4>2
    <3>2. T \ {y} \in C
      BY <1>3, <3>1
    <3> QED
      BY <3>2
  <2>2. ASSUME NEW T \in SUBSET S, Cardinality(T) <= n + 1 PROVE T \in C
    BY <2>1, <2>2
  <2> QED
    BY <2>2
<1>4. Cardinality(S) \in N
  <2> HIDE DEF N
  <2> QED
    BY <1>1, <1>2, <1>3, SetOfNaturals
<1> QED
  BY <1>1, <1>4

-----------------------------------------------------------------------------
(* The function that folds subsets of S: c picks the next element. *)
Picks(c, S) == \A T \in SUBSET S : T # {} => c[T] \in T

FoldsBy(g, f, c, S) ==
  g = [T \in SUBSET S |-> IF T = {} THEN 0 ELSE f[c[T]] + g[T \ {c[T]}]]

LEMMA FoldExists ==
  ASSUME NEW S, IsFiniteSet(S), NEW f, NEW c, Picks(c, S)
  PROVE  \E g : FoldsBy(g, f, c, S)
<1> DEFINE Upto(n) == {T \in SUBSET S : Cardinality(T) <= n}
           Part(g, n) == \A T \in Upto(n) :
                           g[T] = IF T = {} THEN 0 ELSE f[c[T]] + g[T \ {c[T]}]
           C == {n \in Nat : \E g : Part(g, n)}
<1>1. \A T \in SUBSET S : IsFiniteSet(T) /\ Cardinality(T) \in Nat
  BY FS_Subset, FS_CardinalityType
<1>2. 0 \in C
  <2> DEFINE g0 == [T \in SUBSET S |-> 0]
  <2>1. \A T \in Upto(0) : T = {}
    BY <1>1, FS_EmptySet
  <2>2. Part(g0, 0)
    BY <2>1
  <2> QED
    BY <2>2
<1>3. ASSUME NEW n \in Nat, n \in C PROVE n + 1 \in C
  <2>1. PICK g : Part(g, n)
    BY <1>3
  <2> DEFINE k == [T \in SUBSET S |-> IF Cardinality(T) <= n THEN g[T]
                                     ELSE f[c[T]] + g[T \ {c[T]}]]
  <2>2. ASSUME NEW T \in Upto(n + 1), T # {}
        PROVE  k[T] = f[c[T]] + k[T \ {c[T]}]
    <3>1. c[T] \in T
      BY <2>2 DEF Picks
    <3>2. /\ T \ {c[T]} \in SUBSET S /\ Cardinality(T \ {c[T]}) = Cardinality(T) - 1
          /\ Cardinality(T) \in Nat
      BY <1>1, <3>1, FS_RemoveElement
    <3>3. k[T \ {c[T]}] = g[T \ {c[T]}]
      BY <3>2
    <3>4. CASE Cardinality(T) <= n
      BY <2>1, <2>2, <3>3, <3>4
    <3>5. CASE ~(Cardinality(T) <= n)
      BY <3>3, <3>5
    <3> QED
      BY <3>4, <3>5
  <2>3. ASSUME NEW T \in Upto(n + 1), T = {}
        PROVE  k[T] = 0
    <3>1. Cardinality(T) = 0
      BY <2>3, FS_EmptySet
    <3> QED
      BY <2>1, <2>3, <3>1
  <2>4. Part(k, n + 1)
    <3> HIDE DEF k
    <3> QED
      BY <2>2, <2>3
  <2>5. \E h : Part(h, n + 1)
    <3> HIDE DEF k, Part
    <3> QED
      BY <2>4
  <2> HIDE DEF Part
  <2> QED
    BY <2>5
<1>4. Cardinality(S) \in C
  <2> HIDE DEF C
  <2> QED
    BY <1>1, <1>2, <1>3, SetOfNaturals
<1>5. PICK g : Part(g, Cardinality(S))
  BY <1>4
<1>6. \A T \in SUBSET S : T \in Upto(Cardinality(S))
  BY FS_Subset
<1> DEFINE k == [T \in SUBSET S |-> g[T]]
<1>7. \A T \in SUBSET S : k[T] = IF T = {} THEN 0 ELSE f[c[T]] + k[T \ {c[T]}]
  BY <1>5, <1>6
<1>8. k = [T \in SUBSET S |-> IF T = {} THEN 0 ELSE f[c[T]] + k[T \ {c[T]}]]
  <2>1. k = [T \in SUBSET S |-> k[T]]
    OBVIOUS
  <2> HIDE DEF k
  <2> QED
    BY <1>7, <2>1
<1> QED
  BY <1>8 DEF FoldsBy

(* The order does not matter. *)
AnyOrder(g, f, S) ==
  \A T \in SUBSET S : /\ g[T] \in Int /\ g[{}] = 0
                     /\ \A x \in T : g[T] = f[x] + g[T \ {x}]

LEMMA FoldTakesAny ==
  ASSUME NEW S, IsFiniteSet(S), NEW f, \A x \in S : f[x] \in Int,
         NEW c, Picks(c, S), NEW g, FoldsBy(g, f, c, S)
  PROVE  AnyOrder(g, f, S)
<1> DEFINE Fine(T) == g[T] \in Int /\ \A x \in T : g[T] = f[x] + g[T \ {x}]
           C == {n \in Nat : \A T \in SUBSET S : Cardinality(T) <= n => Fine(T)}
<1>1. \A T \in SUBSET S : IsFiniteSet(T) /\ Cardinality(T) \in Nat
  BY FS_Subset, FS_CardinalityType
<1>2. \A T \in SUBSET S : g[T] = IF T = {} THEN 0 ELSE f[c[T]] + g[T \ {c[T]}]
  BY DEF FoldsBy
<1>3. g[{}] = 0
  BY <1>2
<1>4. 0 \in C
  <2>1. \A T \in SUBSET S : Cardinality(T) <= 0 => T = {}
    BY <1>1, FS_EmptySet
  <2>2. Fine({})
    BY <1>3
  <2> QED
    BY <2>1, <2>2
<1>5. ASSUME NEW n \in Nat, n \in C PROVE n + 1 \in C
  <2>1. ASSUME NEW T \in SUBSET S, Cardinality(T) = n + 1 PROVE Fine(T)
    <3> DEFINE y == c[T]
    <3>1. T # {} /\ y \in T
      BY <1>1, <2>1, FS_EmptySet DEF Picks
    <3>2. \A x \in T : T \ {x} \in SUBSET S /\ Cardinality(T \ {x}) <= n
      BY <1>1, <2>1, FS_RemoveElement
    <3>3. \A x \in T : Fine(T \ {x})
      BY <1>5, <3>2
    <3>4. g[T] = f[y] + g[T \ {y}]
      BY <1>2, <3>1
    <3>5. f[y] \in Int /\ g[T \ {y}] \in Int
      BY <3>1, <3>3
    <3> HIDE DEF y
    <3>6. ASSUME NEW x \in T PROVE g[T] = f[x] + g[T \ {x}]
      <4>1. CASE x = y
        BY <3>4, <4>1
      <4>2. CASE x # y
        <5>1. x \in T \ {y} /\ y \in T \ {x}
          BY <3>1, <4>2
        <5> DEFINE U == (T \ {y}) \ {x}
        <5>2. g[T \ {y}] = f[x] + g[U]
          BY <3>1, <3>3, <5>1
        <5>3. g[T \ {x}] = f[y] + g[U]
          <6>1. U = (T \ {x}) \ {y}
            OBVIOUS
          <6> QED
            BY <3>3, <5>1, <6>1
        <5>4. f[x] \in Int /\ f[y] \in Int
          BY <3>1
        <5>5. U \in SUBSET S /\ Cardinality(U) <= n
          <6>1. T \ {y} \in SUBSET S /\ Cardinality(T \ {y}) <= n
            BY <3>1, <3>2
          <6>2. IsFiniteSet(T \ {y}) /\ Cardinality(T \ {y}) \in Nat
            BY <1>1, <6>1
          <6> QED
            <7>1. Cardinality(U) = Cardinality(T \ {y}) - 1
              BY <5>1, <6>2, FS_RemoveElement
            <7>2. U \in SUBSET S
              BY <6>1
            <7> HIDE DEF U
            <7> QED
              BY <6>1, <6>2, <7>1, <7>2
        <5>6. g[U] \in Int
          BY <1>5, <5>5
        <5> HIDE DEF U
        <5> QED
          BY <3>4, <5>2, <5>3, <5>4, <5>6
      <4> QED
        BY <4>1, <4>2
    <3>7. g[T] \in Int
      BY <3>4, <3>5
    <3> QED
      BY <3>6, <3>7
  <2>2. ASSUME NEW T \in SUBSET S, Cardinality(T) <= n + 1 PROVE Fine(T)
    <3>1. Cardinality(T) <= n \/ Cardinality(T) = n + 1
      BY <1>1, <2>2
    <3> HIDE DEF Fine
    <3> QED
      BY <1>5, <2>1, <3>1
  <2> QED
    BY <2>2
<1>6. \A T \in SUBSET S : Fine(T)
  <2> HIDE DEF C, Fine
  <2>1. Nat \subseteq C
    BY <1>4, <1>5, SetOfNaturals
  <2> QED
    BY <1>1, <2>1 DEF C
<1> QED
  BY <1>3, <1>6 DEF AnyOrder

(* Two folds agree where their functions do. *)
LEMMA FoldsAgree ==
  ASSUME NEW S, IsFiniteSet(S), NEW R, S \subseteq R, NEW f, NEW g,
         \A x \in S : g[x] = f[x],
         NEW k, AnyOrder(k, f, S), NEW m, AnyOrder(m, g, R)
  PROVE  k[S] = m[S]
<1> DEFINE C == {T \in SUBSET S : k[T] = m[T]}
<1>1. {} \in C
  BY DEF AnyOrder
<1>2. ASSUME NEW T \in SUBSET S, NEW y \in T, T \ {y} \in C
      PROVE  T \in C
  BY <1>2 DEF AnyOrder
<1>3. S \in C
  <2> HIDE DEF C
  <2> QED
    BY <1>1, <1>2, SubsetInduction
<1> QED
  BY <1>3

-----------------------------------------------------------------------------
(* The sum of f over S *)
Pick(S) == [T \in SUBSET S |-> CHOOSE x \in T : TRUE]

LEMMA PickPicks == \A S : Picks(Pick(S), S)
  BY DEF Pick, Picks

LEMMA SumFolds ==
  ASSUME NEW S, IsFiniteSet(S), NEW f
  PROVE  \E g : FoldsBy(g, f, Pick(S), S) /\ SumFunctionOnSet(f, S) = g[S]
<1> DEFINE it == CHOOSE iter : iter = [s \in SUBSET S |-> IF s = {} THEN 0
                      ELSE f[CHOOSE x \in s : TRUE] + iter[s \ {CHOOSE x \in s : TRUE}]]
<1>1. SumFunctionOnSet(f, S) = it[S]
  BY DEF SumFunctionOnSet, FoldFunctionOnSet, MapThenFoldSet
<1>2. Picks(Pick(S), S)
  BY PickPicks
<1>3. PICK g : FoldsBy(g, f, Pick(S), S)
  BY <1>2, FoldExists
<1>4. g = [s \in SUBSET S |-> IF s = {} THEN 0
                      ELSE f[CHOOSE x \in s : TRUE] + g[s \ {CHOOSE x \in s : TRUE}]]
  BY <1>3 DEF FoldsBy, Pick
<1>5. it = [s \in SUBSET S |-> IF s = {} THEN 0
                      ELSE f[CHOOSE x \in s : TRUE] + it[s \ {CHOOSE x \in s : TRUE}]]
  BY <1>4
<1> HIDE DEF it
<1>6. FoldsBy(it, f, Pick(S), S)
  BY <1>5 DEF FoldsBy, Pick
<1> QED
  BY <1>1, <1>6

LEMMA SumEmpty == \A f : SumFunctionOnSet(f, {}) = 0
<1> SUFFICES ASSUME NEW f PROVE SumFunctionOnSet(f, {}) = 0
  OBVIOUS
<1>1. PICK g : FoldsBy(g, f, Pick({}), {}) /\ SumFunctionOnSet(f, {}) = g[{}]
  BY SumFolds, FS_EmptySet
<1> QED
  BY <1>1 DEF FoldsBy

LEMMA SumAnyOrder ==
  ASSUME NEW S, IsFiniteSet(S), NEW f, \A x \in S : f[x] \in Int
  PROVE  \E g : AnyOrder(g, f, S) /\ SumFunctionOnSet(f, S) = g[S]
<1>1. PICK g : FoldsBy(g, f, Pick(S), S) /\ SumFunctionOnSet(f, S) = g[S]
  BY SumFolds
<1>2. Picks(Pick(S), S)
  BY PickPicks
<1>3. AnyOrder(g, f, S)
  BY <1>1, <1>2, FoldTakesAny
<1> QED
  BY <1>1, <1>3

LEMMA SumType ==
  ASSUME NEW S, IsFiniteSet(S), NEW f, \A x \in S : f[x] \in Int
  PROVE  SumFunctionOnSet(f, S) \in Int
<1>1. PICK g : AnyOrder(g, f, S) /\ SumFunctionOnSet(f, S) = g[S]
  BY SumAnyOrder
<1> QED
  BY <1>1 DEF AnyOrder

(* Any element may be taken out. *)
LEMMA SumRemove ==
  ASSUME NEW S, IsFiniteSet(S), NEW f, \A x \in S : f[x] \in Int, NEW y \in S
  PROVE  SumFunctionOnSet(f, S) = f[y] + SumFunctionOnSet(f, S \ {y})
<1> DEFINE R == S \ {y}
<1>1. R \subseteq S /\ IsFiniteSet(R)
  BY FS_RemoveElement
<1>2. PICK g : AnyOrder(g, f, S) /\ SumFunctionOnSet(f, S) = g[S]
  BY SumAnyOrder
<1>3. \A x \in R : f[x] \in Int
  OBVIOUS
<1>4. PICK k : AnyOrder(k, f, R) /\ SumFunctionOnSet(f, R) = k[R]
  <2> HIDE DEF R
  <2> QED
    BY <1>1, <1>3, SumAnyOrder
<1>5. k[R] = g[R]
  <2> HIDE DEF R
  <2>1. \A x \in R : f[x] = f[x]
    OBVIOUS
  <2> QED
    BY <1>1, <1>2, <1>4, <2>1, FoldsAgree
<1>6. g[S] = f[y] + g[R]
  BY <1>2 DEF AnyOrder
<1> QED
  BY <1>2, <1>4, <1>5, <1>6

LEMMA SumsAgree ==
  ASSUME NEW S, IsFiniteSet(S), NEW f, NEW g,
         \A x \in S : f[x] \in Int, \A x \in S : g[x] = f[x]
  PROVE  SumFunctionOnSet(f, S) = SumFunctionOnSet(g, S)
<1>1. PICK k : AnyOrder(k, f, S) /\ SumFunctionOnSet(f, S) = k[S]
  BY SumAnyOrder
<1>2. \A x \in S : g[x] \in Int
  OBVIOUS
<1>3. PICK m : AnyOrder(m, g, S) /\ SumFunctionOnSet(g, S) = m[S]
  BY <1>2, SumAnyOrder
<1> QED
  BY <1>1, <1>3, FoldsAgree

(* One summand changes. *)
LEMMA SumChanges ==
  ASSUME NEW S, IsFiniteSet(S), NEW y \in S, NEW f, NEW g,
         \A x \in S : f[x] \in Int, \A x \in S : g[x] \in Int,
         \A x \in S \ {y} : g[x] = f[x]
  PROVE  SumFunctionOnSet(g, S) = SumFunctionOnSet(f, S) - f[y] + g[y]
<1> DEFINE R == S \ {y}
<1>1. IsFiniteSet(R)
  BY FS_RemoveElement
<1>2. (\A x \in R : f[x] \in Int) /\ (\A x \in R : g[x] = f[x])
  OBVIOUS
<1>3. /\ SumFunctionOnSet(f, R) = SumFunctionOnSet(g, R)
      /\ SumFunctionOnSet(f, R) \in Int
  <2> HIDE DEF R
  <2> QED
    BY <1>1, <1>2, SumsAgree, SumType
<1>4. SumFunctionOnSet(f, S) = f[y] + SumFunctionOnSet(f, R)
  BY SumRemove
<1>5. SumFunctionOnSet(g, S) = g[y] + SumFunctionOnSet(g, R)
  BY SumRemove
<1>6. f[y] \in Int /\ g[y] \in Int
  OBVIOUS
<1> HIDE DEF R
<1> QED
  BY <1>3, <1>4, <1>5, <1>6

(* A greater function, by B at most where it is not less *)
LEMMA SumAtMost ==
  ASSUME NEW S, IsFiniteSet(S), NEW f, NEW g, NEW D, NEW B \in Nat,
         \A x \in S : f[x] \in Int, \A x \in S : g[x] \in Int,
         \A x \in S : f[x] <= g[x] + (IF x \in D THEN B ELSE 0)
  PROVE  /\ SumFunctionOnSet(f, S) \in Int /\ SumFunctionOnSet(g, S) \in Int
         /\ Cardinality(S \cap D) \in Nat
         /\ SumFunctionOnSet(f, S) <= SumFunctionOnSet(g, S) + Cardinality(S \cap D) * B
<1> DEFINE C == {T \in SUBSET S : SumFunctionOnSet(f, T)
                    <= SumFunctionOnSet(g, T) + Cardinality(T \cap D) * B}
<1>1. \A T \in SUBSET S : /\ IsFiniteSet(T)
                          /\ IsFiniteSet(T \cap D) /\ Cardinality(T \cap D) \in Nat
                          /\ SumFunctionOnSet(f, T) \in Int
                          /\ SumFunctionOnSet(g, T) \in Int
  <2> SUFFICES ASSUME NEW T \in SUBSET S
               PROVE  /\ IsFiniteSet(T)
                      /\ IsFiniteSet(T \cap D) /\ Cardinality(T \cap D) \in Nat
                      /\ SumFunctionOnSet(f, T) \in Int
                      /\ SumFunctionOnSet(g, T) \in Int
    OBVIOUS
  <2>1. IsFiniteSet(T) /\ IsFiniteSet(T \cap D)
    BY FS_Subset
  <2>2. (\A x \in T : f[x] \in Int) /\ (\A x \in T : g[x] \in Int)
    OBVIOUS
  <2> QED
    BY <2>1, <2>2, SumType, FS_CardinalityType
<1>2. {} \in C
  <2>1. Cardinality({} \cap D) = 0
    BY FS_EmptySet
  <2>2. SumFunctionOnSet(f, {}) = 0 /\ SumFunctionOnSet(g, {}) = 0
    BY SumEmpty
  <2>3. 0 <= 0 + 0 * B
    OBVIOUS
  <2> QED
    BY <2>1, <2>2, <2>3
<1>3. ASSUME NEW T \in SUBSET S, NEW y \in T, T \ {y} \in C PROVE T \in C
  <2> DEFINE U == T \ {y}
  <2>1. /\ SumFunctionOnSet(f, T) = f[y] + SumFunctionOnSet(f, U)
        /\ SumFunctionOnSet(g, T) = g[y] + SumFunctionOnSet(g, U)
    <3>1. (\A x \in T : f[x] \in Int) /\ (\A x \in T : g[x] \in Int)
      OBVIOUS
    <3>2. IsFiniteSet(T)
      BY <1>1
    <3> QED
      BY <3>1, <3>2, SumRemove
  <2>2. Cardinality(T \cap D) = Cardinality(U \cap D) + (IF y \in D THEN 1 ELSE 0)
    <3>1. U \cap D = (T \cap D) \ {y}
      OBVIOUS
    <3>2. IsFiniteSet(T \cap D) /\ Cardinality(T \cap D) \in Nat
      BY <1>1
    <3>3. CASE y \in D
      <4>1. Cardinality((T \cap D) \ {y}) = Cardinality(T \cap D) - 1
        BY <3>2, <3>3, FS_RemoveElement
      <4> QED
        BY <3>1, <3>2, <3>3, <4>1
    <3>4. CASE y \notin D
      <4>1. U \cap D = T \cap D
        BY <3>4
      <4> QED
        BY <3>2, <3>4, <4>1
    <3> QED
      BY <3>3, <3>4
  <2>3. /\ Cardinality(U \cap D) \in Nat
        /\ SumFunctionOnSet(f, U) \in Int /\ SumFunctionOnSet(g, U) \in Int
    BY <1>1
  <2>4. f[y] \in Int /\ g[y] \in Int /\ f[y] <= g[y] + (IF y \in D THEN B ELSE 0)
    OBVIOUS
  <2>5. SumFunctionOnSet(f, U) <= SumFunctionOnSet(g, U) + Cardinality(U \cap D) * B
    BY <1>3
  <2> HIDE DEF U
  <2>6. Cardinality(T \cap D) * B
          = Cardinality(U \cap D) * B + (IF y \in D THEN B ELSE 0)
    BY <2>2, <2>3
  <2>7. Cardinality(U \cap D) * B \in Int
    BY <2>3
  <2> QED
    BY <2>1, <2>3, <2>4, <2>5, <2>6, <2>7
<1>4. S \in C
  <2> HIDE DEF C
  <2> QED
    BY <1>2, <1>3, SubsetInduction
<1> QED
  BY <1>1, <1>4

(* Summands that are not negative, or all 0 *)
LEMMA SumNat ==
  ASSUME NEW S, IsFiniteSet(S), NEW f, \A x \in S : f[x] \in Nat
  PROVE  SumFunctionOnSet(f, S) \in Nat
<1> DEFINE C == {T \in SUBSET S : SumFunctionOnSet(f, T) \in Nat}
<1>1. {} \in C
  BY SumEmpty
<1>2. ASSUME NEW T \in SUBSET S, NEW y \in T, T \ {y} \in C PROVE T \in C
  <2>1. IsFiniteSet(T)
    BY FS_Subset
  <2>2. \A x \in T : f[x] \in Int
    OBVIOUS
  <2>3. SumFunctionOnSet(f, T) = f[y] + SumFunctionOnSet(f, T \ {y})
    BY <2>1, <2>2, SumRemove
  <2> QED
    BY <1>2, <2>3
<1>3. S \in C
  <2> HIDE DEF C
  <2> QED
    BY <1>1, <1>2, SubsetInduction
<1> QED
  BY <1>3

LEMMA SumZero ==
  ASSUME NEW S, IsFiniteSet(S), NEW f, \A x \in S : f[x] = 0
  PROVE  SumFunctionOnSet(f, S) = 0
<1> DEFINE C == {T \in SUBSET S : SumFunctionOnSet(f, T) = 0}
<1>1. {} \in C
  BY SumEmpty
<1>2. ASSUME NEW T \in SUBSET S, NEW y \in T, T \ {y} \in C PROVE T \in C
  <2>1. IsFiniteSet(T)
    BY FS_Subset
  <2>2. \A x \in T : f[x] \in Int
    OBVIOUS
  <2>3. SumFunctionOnSet(f, T) = f[y] + SumFunctionOnSet(f, T \ {y})
    BY <2>1, <2>2, SumRemove
  <2> QED
    BY <1>2, <2>3
<1>3. S \in C
  <2> HIDE DEF C
  <2> QED
    BY <1>1, <1>2, SubsetInduction
<1> QED
  BY <1>3

(* The sum over a sequence, but for its first element *)
LEMMA SumBehindFirst ==
  ASSUME NEW n \in Nat, n > 0, NEW f, NEW g, \A i \in 1 .. n : f[i] \in Int,
         \A i \in 1 .. n - 1 : g[i] = f[i + 1]
  PROVE  SumFunctionOnSet(f, 1 .. n) = f[1] + SumFunctionOnSet(g, 1 .. n - 1)
<1> DEFINE C == {m \in Nat : m + 1 <= n =>
                   SumFunctionOnSet(f, 1 .. m + 1) = f[1] + SumFunctionOnSet(g, 1 .. m)}
<1>1. 0 \in C
  <2>1. 1 .. 0 = {} /\ 1 .. 0 + 1 = {1} /\ {1} \ {1} = {} /\ f[1] \in Int
    OBVIOUS
  <2>2. SumFunctionOnSet(f, {1}) = f[1] + SumFunctionOnSet(f, {1} \ {1})
    <3>1. IsFiniteSet({1}) /\ 1 \in {1} /\ \A x \in {1} : f[x] \in Int
      BY <2>1, FS_Singleton
    <3> QED
      BY <3>1, SumRemove
  <2>3. SumFunctionOnSet(f, {1} \ {1}) = 0 /\ SumFunctionOnSet(g, 1 .. 0) = 0
    BY <2>1, SumEmpty
  <2> QED
    BY <2>1, <2>2, <2>3
<1>2. ASSUME NEW m \in Nat, m \in C PROVE m + 1 \in C
  <2>1. SUFFICES ASSUME m + 2 <= n
                 PROVE  SumFunctionOnSet(f, 1 .. m + 2) = f[1] + SumFunctionOnSet(g, 1 .. m + 1)
    <3>1. (m + 1) + 1 = m + 2
      OBVIOUS
    <3> QED
      BY <2>1, <3>1
  <2> DEFINE A == 1 .. m + 2
             B == 1 .. m + 1
  <2>2. /\ IsFiniteSet(A) /\ IsFiniteSet(B) /\ m + 2 \in A /\ m + 1 \in B
        /\ A \ {m + 2} = B /\ B \ {m + 1} = 1 .. m
    <3>1. IsFiniteSet(A) /\ IsFiniteSet(B)
      <4>1. 1 \in Int /\ m + 2 \in Int /\ m + 1 \in Int
        OBVIOUS
      <4> QED
        BY <4>1, FS_Interval
    <3>2. m + 2 \in A /\ m + 1 \in B
      OBVIOUS
    <3>3. A \ {m + 2} = B /\ B \ {m + 1} = 1 .. m
      OBVIOUS
    <3> QED
      BY <3>1, <3>2, <3>3
  <2>3. (\A i \in A : f[i] \in Int) /\ \A i \in B : i \in 1 .. n - 1 /\ i + 1 \in A
    BY <2>1
  <2>4. (\A i \in B : g[i] \in Int) /\ g[m + 1] = f[(m + 1) + 1]
    BY <2>2, <2>3
  <2>5. SumFunctionOnSet(f, B) = f[1] + SumFunctionOnSet(g, 1 .. m)
    BY <1>2, <2>1
  <2> HIDE DEF A, B
  <2>6. SumFunctionOnSet(f, A) = f[m + 2] + SumFunctionOnSet(f, A \ {m + 2})
    BY <2>2, <2>3, SumRemove
  <2>7. SumFunctionOnSet(g, B) = g[m + 1] + SumFunctionOnSet(g, B \ {m + 1})
    BY <2>2, <2>4, SumRemove
  <2>8. SumFunctionOnSet(f, A) = f[m + 2] + (f[1] + SumFunctionOnSet(g, 1 .. m))
    BY <2>2, <2>5, <2>6
  <2>9. SumFunctionOnSet(g, B) = f[m + 2] + SumFunctionOnSet(g, 1 .. m)
    <3>1. (m + 1) + 1 = m + 2
      OBVIOUS
    <3>2. g[m + 1] = f[m + 2]
      BY <2>4, <3>1
    <3> QED
      BY <2>2, <2>7, <3>2
  <2>10. SumFunctionOnSet(g, 1 .. m) \in Int
    <3>1. IsFiniteSet(1 .. m) /\ \A i \in 1 .. m : g[i] \in Int
      BY <2>4, FS_Interval DEF B
    <3> QED
      BY <3>1, SumType
  <2>11. f[m + 2] \in Int /\ f[1] \in Int
    BY <2>2, <2>3 DEF A
  <2> QED
    BY <2>8, <2>9, <2>10, <2>11 DEF A, B
<1>3. n - 1 \in C
  <2> HIDE DEF C
  <2> QED
    BY <1>1, <1>2, SetOfNaturals
<1>4. (n - 1) + 1 = n
  OBVIOUS
<1> QED
  BY <1>3, <1>4
===============================================================================
