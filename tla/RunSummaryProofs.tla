------------------------- MODULE RunSummaryProofs -------------------------
(***************************************************************************)
(* Theorems about RunSummary for any number of seconds, phases, workers    *)
(* and latencies, any order of arrival and any moment of completion: the   *)
(* two scorecards agree where they can, the report is the one of its file, *)
(* and the percentiles of a second have the ranks they are named for.      *)
(***************************************************************************)
EXTENDS RunSummary, FiniteSetTheorems, FunctionTheorems, SequenceTheorems,
        NaturalsInduction, WellFoundedInduction, TLAPS

-----------------------------------------------------------------------------
(* Numbers and finite sets *)

LEMMA LeastNumber ==
    ASSUME NEW T, T \subseteq Nat, T # {}
    PROVE  \E n \in T : \A m \in T : n <= m
<1> DEFINE Less == OpToRel(<, Nat)
<1>1. IsWellFoundedOn(Less, Nat)
  BY NatLessThanWellFounded
<1>2. \A m, n \in Nat : m < n => <<m, n>> \in Less
  <2>1. Less = {ss \in Nat \X Nat : ss[1] < ss[2]}
    BY Zenon DEF OpToRel
  <2> HIDE DEF Less
  <2>2. QED
    BY <2>1
<1> HIDE DEF Less
<1>3. PICK n \in T : \A m \in T : <<m, n>> \notin Less
  BY <1>1, WFMin
<1>4. \A m \in T : ~(m < n)
  BY <1>2, <1>3
<1>5. QED
  BY <1>4

\* Induction for a set of numbers.
LEMMA NumbersFrom ==
    ASSUME NEW T, 0 \in T, \A n \in Nat : n \in T => n + 1 \in T
    PROVE  \A n \in Nat : n \in T
<1> SUFFICES ASSUME Nat \ T # {}
             PROVE  FALSE
  OBVIOUS
<1>1. PICK n \in Nat \ T : \A m \in Nat \ T : n <= m
  BY LeastNumber
<1>2. n # 0 /\ n - 1 \in Nat /\ n - 1 \notin Nat \ T
  BY <1>1
<1>3. QED
  BY <1>1, <1>2

\* Induction for a set of subsets of a finite set.
LEMMA SubsetsFrom ==
    ASSUME NEW S, IsFiniteSet(S), NEW T, {} \in T,
           \A R \in SUBSET S : \A x \in S \ R : R \in T => R \cup {x} \in T
    PROVE  S \in T
<1> DEFINE Sizes == {n \in Nat : \A R \in SUBSET S : Cardinality(R) = n => R \in T}
<1>1. 0 \in Sizes
  BY FS_Subset, FS_EmptySet
<1>2. ASSUME NEW n \in Nat, n \in Sizes
      PROVE  n + 1 \in Sizes
  <2> SUFFICES ASSUME NEW R \in SUBSET S, Cardinality(R) = n + 1
               PROVE  R \in T
    OBVIOUS
  <2>1. IsFiniteSet(R)
    BY FS_Subset
  <2>2. PICK x \in R : TRUE
    <3>1. n + 1 # 0 /\ Cardinality({}) = 0
      BY FS_EmptySet
    <3>2. QED
      BY <3>1
  <2>3. Cardinality(R \ {x}) = n
    <3>1. Cardinality(R \ {x}) = Cardinality(R) - 1
      BY <2>1, FS_RemoveElement
    <3>2. QED
      BY <3>1
  <2>4. R \ {x} \in T
    BY <1>2, <2>3
  <2>5. R = (R \ {x}) \cup {x}
    OBVIOUS
  <2>6. x \in S \ (R \ {x})
    OBVIOUS
  <2>7. QED
    BY <2>4, <2>5, <2>6
<1> HIDE DEF Sizes
<1>3. \A n \in Nat : n \in Sizes
  BY <1>1, <1>2, NumbersFrom
<1>4. Cardinality(S) \in Nat
  BY FS_CardinalityType
<1>5. QED
  BY <1>3, <1>4 DEF Sizes

-----------------------------------------------------------------------------
(* Sums *)

\* The sums over the subsets of S of up to a number of elements.
AreSums(sum, f, sets) ==
    sum = [R \in sets |-> IF R = {} THEN 0
                          ELSE LET x == CHOOSE x \in R : TRUE IN f[x] + sum[R \ {x}]]

LEMMA SumIsChosen ==
    ASSUME NEW f, NEW S
    PROVE  SumFunctionOnSet(f, S) = (CHOOSE sum : AreSums(sum, f, SUBSET S))[S]
BY DEF SumFunctionOnSet, FoldFunctionOnSet, MapThenFoldSet, AreSums

LEMMA SumsExist ==
    ASSUME NEW f, NEW S, IsFiniteSet(S)
    PROVE  \E sum : AreSums(sum, f, SUBSET S)
<1> DEFINE UpTo(n) == {R \in SUBSET S : Cardinality(R) <= n}
           Sizes == {n \in Nat : \E sum : AreSums(sum, f, UpTo(n))}
<1>1. \A R \in SUBSET S : IsFiniteSet(R) /\ Cardinality(R) \in Nat
  BY FS_Subset, FS_CardinalityType
<1>2. 0 \in Sizes
  <2> DEFINE sum == [R \in UpTo(0) |-> 0]
  <2>1. \A R \in UpTo(0) : R = {}
    BY <1>1, FS_EmptySet
  <2>2. AreSums(sum, f, UpTo(0))
    BY <2>1 DEF AreSums
  <2>3. QED
    BY <2>2
<1>3. ASSUME NEW n \in Nat, n \in Sizes
      PROVE  n + 1 \in Sizes
  <2>1. PICK sum : AreSums(sum, f, UpTo(n))
    BY <1>3
  <2> DEFINE F(R) == IF R = {} THEN 0
                     ELSE LET x == CHOOSE x \in R : TRUE IN f[x] + sum[R \ {x}]
             next == [R \in UpTo(n + 1) |-> F(R)]
  <2>2. \A R \in UpTo(n) : R \in UpTo(n + 1) /\ next[R] = sum[R]
    <3> SUFFICES ASSUME NEW R \in UpTo(n)
                 PROVE  R \in UpTo(n + 1) /\ next[R] = sum[R]
      OBVIOUS
    <3>1. R \in UpTo(n + 1)
      BY <1>1
    <3>2. sum[R] = F(R)
      BY <2>1 DEF AreSums
    <3>3. QED
      BY <3>1, <3>2
  <2>3. \A R \in UpTo(n + 1) : R # {} =>
            LET x == CHOOSE x \in R : TRUE IN R \ {x} \in UpTo(n)
    <3> SUFFICES ASSUME NEW R \in UpTo(n + 1), R # {}, NEW x \in R
                 PROVE  R \ {x} \in UpTo(n)
      OBVIOUS
    <3>1. Cardinality(R \ {x}) = Cardinality(R) - 1
      BY <1>1, FS_RemoveElement
    <3>2. QED
      BY <1>1, <3>1
  <2>4. \A R \in UpTo(n + 1) :
            next[R] = IF R = {} THEN 0
                      ELSE LET x == CHOOSE x \in R : TRUE IN f[x] + next[R \ {x}]
    <3> SUFFICES ASSUME NEW R \in UpTo(n + 1), R # {}
                 PROVE  next[R] = LET x == CHOOSE x \in R : TRUE IN f[x] + next[R \ {x}]
      OBVIOUS
    <3> DEFINE c == CHOOSE x \in R : TRUE
    <3>1. R \ {c} \in UpTo(n)
      BY <2>3
    <3>2. next[R \ {c}] = sum[R \ {c}]
      BY <2>2, <3>1
    <3>3. next[R] = f[c] + sum[R \ {c}]
      OBVIOUS
    <3>4. QED
      BY <3>2, <3>3
  <2>5. next = [R \in UpTo(n + 1) |->
                   IF R = {} THEN 0
                   ELSE LET x == CHOOSE x \in R : TRUE IN f[x] + next[R \ {x}]]
    <3> HIDE DEF UpTo
    <3>1. QED
      BY <2>4
  <2>6. AreSums(next, f, UpTo(n + 1))
    <3> HIDE DEF next, UpTo
    <3>2. QED
      BY <2>5 DEF AreSums
  <2> HIDE DEF next, UpTo
  <2>7. QED
    BY <2>6
<1> HIDE DEF Sizes
<1>4. \A n \in Nat : n \in Sizes
  BY <1>2, <1>3, NumbersFrom
<1>5. PICK sum : AreSums(sum, f, UpTo(Cardinality(S)))
  BY <1>1, <1>4 DEF Sizes
<1>6. UpTo(Cardinality(S)) = SUBSET S
  BY <1>1, FS_Subset
<1>7. QED
  BY <1>5, <1>6

LEMMA SumsAgree ==
    ASSUME NEW f, NEW A, NEW B, IsFiniteSet(A), NEW g, NEW h,
           AreSums(g, f, SUBSET A), AreSums(h, f, SUBSET B)
    PROVE  \A R \in SUBSET A : R \in SUBSET B => g[R] = h[R]
<1> DEFINE Sizes == {n \in Nat : \A R \in (SUBSET A) \cap (SUBSET B) :
                         Cardinality(R) = n => g[R] = h[R]}
<1>1. \A R \in SUBSET A : IsFiniteSet(R) /\ Cardinality(R) \in Nat
  BY FS_Subset, FS_CardinalityType
<1>2. \A R \in SUBSET A :
          g[R] = IF R = {} THEN 0 ELSE LET x == CHOOSE x \in R : TRUE IN f[x] + g[R \ {x}]
  BY DEF AreSums
<1>3. \A R \in SUBSET B :
          h[R] = IF R = {} THEN 0 ELSE LET x == CHOOSE x \in R : TRUE IN f[x] + h[R \ {x}]
  BY DEF AreSums
<1>4. 0 \in Sizes
  <2>1. \A R \in SUBSET A : Cardinality(R) = 0 => R = {}
    BY <1>1, FS_EmptySet
  <2>2. QED
    BY <1>2, <1>3, <2>1
<1>5. ASSUME NEW n \in Nat, n \in Sizes
      PROVE  n + 1 \in Sizes
  <2> SUFFICES ASSUME NEW R \in (SUBSET A) \cap (SUBSET B), Cardinality(R) = n + 1
               PROVE  g[R] = h[R]
    OBVIOUS
  <2>1. R # {}
    <3>1. n + 1 # 0 /\ Cardinality({}) = 0
      BY FS_EmptySet
    <3>2. QED
      BY <3>1
  <2> DEFINE c == CHOOSE x \in R : TRUE
  <2>2. c \in R
    BY <2>1
  <2>3. g[R] = f[c] + g[R \ {c}]
    BY <1>2, <2>1
  <2>4. h[R] = f[c] + h[R \ {c}]
    BY <1>3, <2>1
  <2> HIDE DEF c
  <2>5. Cardinality(R \ {c}) = n
    <3>1. Cardinality(R \ {c}) = Cardinality(R) - 1
      BY <1>1, <2>2, FS_RemoveElement
    <3>2. QED
      BY <3>1
  <2>6. g[R \ {c}] = h[R \ {c}]
    BY <1>5, <2>5
  <2>7. QED
    BY <2>3, <2>4, <2>6
<1> HIDE DEF Sizes
<1>6. \A n \in Nat : n \in Sizes
  BY <1>4, <1>5, NumbersFrom
<1>7. QED
  BY <1>1, <1>6 DEF Sizes

\* The equation behind SumFunctionOnSet.
LEMMA SumStep ==
    ASSUME NEW f, NEW S, IsFiniteSet(S)
    PROVE  SumFunctionOnSet(f, S) =
               IF S = {} THEN 0
               ELSE LET x == CHOOSE x \in S : TRUE
                    IN  f[x] + SumFunctionOnSet(f, S \ {x})
<1> DEFINE g(R) == CHOOSE sum : AreSums(sum, f, SUBSET R)
<1>1. \A R \in SUBSET S : AreSums(g(R), f, SUBSET R) /\ SumFunctionOnSet(f, R) = g(R)[R]
  <2> SUFFICES ASSUME NEW R \in SUBSET S
               PROVE  AreSums(g(R), f, SUBSET R) /\ SumFunctionOnSet(f, R) = g(R)[R]
    OBVIOUS
  <2>1. IsFiniteSet(R)
    BY FS_Subset
  <2>2. \E sum : AreSums(sum, f, SUBSET R)
    BY <2>1, SumsExist
  <2>3. AreSums(g(R), f, SUBSET R)
    BY <2>2
  <2>4. QED
    BY <2>3, SumIsChosen
<1> HIDE DEF g
<1>2. g(S)[S] = IF S = {} THEN 0
                ELSE LET x == CHOOSE x \in S : TRUE IN f[x] + g(S)[S \ {x}]
  BY <1>1 DEF AreSums
<1>3. \A R \in SUBSET S : g(S)[R] = g(R)[R]
  <2> SUFFICES ASSUME NEW R \in SUBSET S
               PROVE  g(S)[R] = g(R)[R]
    OBVIOUS
  <2>1. AreSums(g(R), f, SUBSET R) /\ AreSums(g(S), f, SUBSET S)
    BY <1>1
  <2>2. QED
    BY <2>1, SumsAgree
<1>4. CASE S = {}
  BY <1>1, <1>2, <1>4
<1>5. CASE S # {}
  <2> DEFINE c == CHOOSE x \in S : TRUE
  <2>1. g(S)[S] = f[c] + g(S)[S \ {c}]
    BY <1>2, <1>5
  <2> HIDE DEF c
  <2>2. S \ {c} \in SUBSET S
    OBVIOUS
  <2>3. g(S)[S] = f[c] + SumFunctionOnSet(f, S \ {c})
    BY <1>1, <1>3, <2>1, <2>2
  <2>4. SumFunctionOnSet(f, S) = f[c] + SumFunctionOnSet(f, S \ {c})
    BY <1>1, <2>3
  <2>5. QED
    BY <1>5, <2>4 DEF c
<1>6. QED
  BY <1>4, <1>5

LEMMA SumOfNone == \A f : SumFunctionOnSet(f, {}) = 0
BY SumStep, FS_EmptySet

\* A set that has one element more than the sets of which n is known.
LEMMA OneMore ==
    ASSUME NEW R, IsFiniteSet(R), NEW n \in Nat, Cardinality(R) = n + 1
    PROVE  /\ R # {}
           /\ \A x \in R : Cardinality(R \ {x}) = n /\ IsFiniteSet(R \ {x})
<1>1. n + 1 # 0 /\ Cardinality({}) = 0
  BY FS_EmptySet
<1>2. \A x \in R : Cardinality(R \ {x}) = Cardinality(R) - 1 /\ IsFiniteSet(R \ {x})
  BY FS_RemoveElement
<1>3. QED
  BY <1>1, <1>2

LEMMA SumOfNumbers ==
    ASSUME NEW f, NEW S, IsFiniteSet(S), \A i \in S : f[i] \in Nat
    PROVE  SumFunctionOnSet(f, S) \in Nat
<1> DEFINE Sizes == {n \in Nat : \A R \in SUBSET S :
                         Cardinality(R) = n => SumFunctionOnSet(f, R) \in Nat}
<1>1. \A R \in SUBSET S : IsFiniteSet(R) /\ Cardinality(R) \in Nat
  BY FS_Subset, FS_CardinalityType
<1>2. 0 \in Sizes
  BY <1>1, FS_EmptySet, SumOfNone
<1>3. ASSUME NEW n \in Nat, n \in Sizes
      PROVE  n + 1 \in Sizes
  <2> SUFFICES ASSUME NEW R \in SUBSET S, Cardinality(R) = n + 1
               PROVE  SumFunctionOnSet(f, R) \in Nat
    OBVIOUS
  <2> DEFINE c == CHOOSE x \in R : TRUE
  <2>1. R # {} /\ \A x \in R : Cardinality(R \ {x}) = n
    BY <1>1, OneMore
  <2>2. c \in R
    BY <2>1
  <2>3. SumFunctionOnSet(f, R) = f[c] + SumFunctionOnSet(f, R \ {c})
    BY <1>1, <2>1, SumStep
  <2> HIDE DEF c
  <2>4. SumFunctionOnSet(f, R \ {c}) \in Nat
    BY <1>3, <2>1, <2>2
  <2>5. QED
    BY <2>2, <2>3, <2>4
<1> HIDE DEF Sizes
<1>4. \A n \in Nat : n \in Sizes
  BY <1>2, <1>3, NumbersFrom
<1>5. QED
  BY <1>1, <1>4 DEF Sizes

\* Any element may be taken out first.
LEMMA SumTakingOut ==
    ASSUME NEW f, NEW S, IsFiniteSet(S), \A i \in S : f[i] \in Nat, NEW x \in S
    PROVE  SumFunctionOnSet(f, S) = f[x] + SumFunctionOnSet(f, S \ {x})
<1> DEFINE Sizes == {n \in Nat : \A R \in SUBSET S : Cardinality(R) = n =>
                         \A y \in R : SumFunctionOnSet(f, R) =
                                          f[y] + SumFunctionOnSet(f, R \ {y})}
<1>1. \A R \in SUBSET S : /\ IsFiniteSet(R) /\ Cardinality(R) \in Nat
                          /\ SumFunctionOnSet(f, R) \in Nat
  BY FS_Subset, FS_CardinalityType, SumOfNumbers
<1>2. 0 \in Sizes
  BY <1>1, FS_EmptySet
<1>3. ASSUME NEW n \in Nat, n \in Sizes
      PROVE  n + 1 \in Sizes
  <2> SUFFICES ASSUME NEW R \in SUBSET S, Cardinality(R) = n + 1, NEW y \in R
               PROVE  SumFunctionOnSet(f, R) = f[y] + SumFunctionOnSet(f, R \ {y})
    OBVIOUS
  <2> DEFINE c == CHOOSE z \in R : TRUE
  <2>1. R # {} /\ \A z \in R : Cardinality(R \ {z}) = n
    BY <1>1, OneMore
  <2>2. c \in R
    BY <2>1
  <2>3. SumFunctionOnSet(f, R) = f[c] + SumFunctionOnSet(f, R \ {c})
    BY <1>1, <2>1, SumStep
  <2> HIDE DEF c
  <2>4. CASE y # c
    <3>1. SumFunctionOnSet(f, R \ {c}) = f[y] + SumFunctionOnSet(f, (R \ {c}) \ {y})
      BY <1>3, <2>1, <2>2, <2>4
    <3>2. SumFunctionOnSet(f, R \ {y}) = f[c] + SumFunctionOnSet(f, (R \ {y}) \ {c})
      BY <1>3, <2>1, <2>2, <2>4
    <3>3. (R \ {c}) \ {y} = (R \ {y}) \ {c}
      OBVIOUS
    <3>4. SumFunctionOnSet(f, (R \ {y}) \ {c}) \in Nat
      BY <1>1
    <3>5. f[c] \in Nat /\ f[y] \in Nat
      BY <2>2
    <3>6. QED
      BY <2>3, <3>1, <3>2, <3>3, <3>4, <3>5
  <2>5. QED
    BY <2>3, <2>4
<1> HIDE DEF Sizes
<1>4. \A n \in Nat : n \in Sizes
  BY <1>2, <1>3, NumbersFrom
<1>5. QED
  BY <1>1, <1>4 DEF Sizes

LEMMA SumAdding ==
    ASSUME NEW f, NEW S, IsFiniteSet(S), NEW x, x \notin S, \A i \in S \cup {x} : f[i] \in Nat
    PROVE  SumFunctionOnSet(f, S \cup {x}) = f[x] + SumFunctionOnSet(f, S)
<1>1. IsFiniteSet(S \cup {x})
  BY FS_AddElement
<1>2. (S \cup {x}) \ {x} = S
  OBVIOUS
<1>3. QED
  BY <1>1, <1>2, SumTakingOut

\* A sum is that of the same numbers under other names.
LEMMA SumOfImage ==
    ASSUME NEW J, IsFiniteSet(J), NEW f, NEW g, NEW h,
           \A i, j \in J : h[i] = h[j] => i = j,
           \A j \in J : g[j] = f[h[j]] /\ g[j] \in Nat
    PROVE  SumFunctionOnSet(g, J) = SumFunctionOnSet(f, {h[j] : j \in J})
<1> DEFINE T == {R \in SUBSET J : SumFunctionOnSet(g, R) =
                                      SumFunctionOnSet(f, {h[j] : j \in R})}
<1>1. {} \in T
  <2>1. {h[j] : j \in {}} = {}
    OBVIOUS
  <2>2. QED
    BY <2>1, SumOfNone
<1>2. ASSUME NEW R \in SUBSET J, NEW x \in J \ R, R \in T
      PROVE  R \cup {x} \in T
  <2> DEFINE I == {h[j] : j \in R}
  <2>1. IsFiniteSet(R)
    BY FS_Subset
  <2>2. IsFiniteSet(I)
    <3>1. I \in SUBSET {h[j] : j \in R}
      OBVIOUS
    <3>2. [j \in R |-> h[j]] \in Surjection(R, I)
      BY Fun_IsSurj
    <3>3. QED
      BY <2>1, <3>2, FS_Surjection
  <2>3. h[x] \notin I
    OBVIOUS
  <2>4. {h[j] : j \in R \cup {x}} = I \cup {h[x]}
    OBVIOUS
  <2>5. \A i \in I \cup {h[x]} : f[i] \in Nat
    OBVIOUS
  <2> HIDE DEF I
  <2>6. SumFunctionOnSet(f, I \cup {h[x]}) = f[h[x]] + SumFunctionOnSet(f, I)
    BY <2>2, <2>3, <2>5, SumAdding
  <2>7. SumFunctionOnSet(g, R \cup {x}) = g[x] + SumFunctionOnSet(g, R)
    BY <2>1, SumAdding
  <2>8. SumFunctionOnSet(g, R) = SumFunctionOnSet(f, I)
    BY <1>2 DEF I
  <2>9. QED
    BY <2>4, <2>6, <2>7, <2>8
<1>3. J \in T
  <2> HIDE DEF T
  <2>1. QED
    BY <1>1, <1>2, SubsetsFrom
<1>4. QED
  BY <1>3

LEMMA SumOfSame ==
    ASSUME NEW S, IsFiniteSet(S), NEW f, NEW g, \A i \in S : f[i] = g[i] /\ f[i] \in Nat
    PROVE  SumFunctionOnSet(f, S) = SumFunctionOnSet(g, S)
<1> DEFINE h == [i \in S |-> i]
<1>1. {h[i] : i \in S} = S
  OBVIOUS
<1>2. \A i, j \in S : h[i] = h[j] => i = j
  OBVIOUS
<1>3. \A i \in S : f[i] = g[h[i]]
  OBVIOUS
<1> HIDE DEF h
<1>4. QED
  BY <1>1, <1>2, <1>3, SumOfImage

\* The elements of which something holds are as many, whatever they are called.
LEMMA SizeOfImage ==
    ASSUME NEW J, IsFiniteSet(J), NEW h, \A i, j \in J : h[i] = h[j] => i = j
    PROVE  /\ IsFiniteSet({h[j] : j \in J})
           /\ Cardinality({h[j] : j \in J}) = Cardinality(J)
<1> DEFINE g == [j \in J |-> h[j]]
<1>1. g \in Surjection(J, {h[j] : j \in J})
  BY Fun_IsSurj
<1>2. g \in Injection(J, {h[j] : j \in J})
  BY Fun_IsInj
<1>3. QED
  BY <1>1, <1>2, FS_Surjection

-----------------------------------------------------------------------------
(* Sorting *)

\* The index of the element that comes n-th.
Nth(keys, n) == CHOOSE i \in DOMAIN keys : Place(keys, i) = n

Before(keys, i) == {j \in DOMAIN keys : keys[j] < keys[i] \/ (keys[j] = keys[i] /\ j <= i)}

\* Each place is taken by one element.
LEMMA PlacesTaken ==
    ASSUME NEW keys \in Seq(Nat)
    PROVE  /\ \A i \in DOMAIN keys : Place(keys, i) \in DOMAIN keys
           /\ \A n \in DOMAIN keys : /\ Nth(keys, n) \in DOMAIN keys
                                     /\ Place(keys, Nth(keys, n)) = n
           /\ \A i, j \in DOMAIN keys :
                  (keys[i] < keys[j] \/ (keys[i] = keys[j] /\ i < j)) =>
                      Place(keys, i) < Place(keys, j)
<1> DEFINE D == DOMAIN keys
           P == [i \in D |-> Place(keys, i)]
<1>1. /\ Len(keys) \in Nat /\ D = 1..Len(keys) /\ IsFiniteSet(D) /\ Cardinality(D) = Len(keys)
      /\ \A i \in D : keys[i] \in Nat
  <2>1. Len(keys) \in Nat /\ D = 1..Len(keys) /\ \A i \in D : keys[i] \in Nat
    BY LenProperties, ElementOfSeq
  <2>2. IsFiniteSet(1..Len(keys)) /\ Cardinality(1..Len(keys)) =
            IF 1 > Len(keys) THEN 0 ELSE Len(keys) - 1 + 1
    BY <2>1, FS_Interval
  <2>3. QED
    BY <2>1, <2>2
<1>2. \A i \in D : /\ IsFiniteSet(Before(keys, i)) /\ Cardinality(Before(keys, i)) \in Nat
                   /\ Cardinality(Before(keys, i)) <= Len(keys)
                   /\ i \in Before(keys, i) /\ Place(keys, i) = Cardinality(Before(keys, i))
  <2> SUFFICES ASSUME NEW i \in D
               PROVE  /\ IsFiniteSet(Before(keys, i)) /\ Cardinality(Before(keys, i)) \in Nat
                      /\ Cardinality(Before(keys, i)) <= Len(keys)
                      /\ i \in Before(keys, i)
                      /\ Place(keys, i) = Cardinality(Before(keys, i))
    OBVIOUS
  <2>1. Before(keys, i) \in SUBSET D /\ i \in Before(keys, i)
    BY <1>1 DEF Before
  <2>2. IsFiniteSet(Before(keys, i)) /\ Cardinality(Before(keys, i)) <= Cardinality(D)
    BY <1>1, <2>1, FS_Subset
  <2>3. Cardinality(Before(keys, i)) \in Nat
    BY <2>2, FS_CardinalityType
  <2>4. QED
    BY <1>1, <2>1, <2>2, <2>3 DEF Place, Before
<1>3. \A i \in D : P[i] \in D
  <2> SUFFICES ASSUME NEW i \in D
               PROVE  P[i] \in D
    OBVIOUS
  <2>1. Cardinality(Before(keys, i)) # 0
    BY <1>2, FS_EmptySet
  <2>2. QED
    BY <1>1, <1>2, <2>1
<1>4. \A i, j \in D : (keys[i] < keys[j] \/ (keys[i] = keys[j] /\ i < j)) => P[i] < P[j]
  <2> SUFFICES ASSUME NEW i \in D, NEW j \in D,
                      keys[i] < keys[j] \/ (keys[i] = keys[j] /\ i < j)
               PROVE  P[i] < P[j]
    OBVIOUS
  <2>1. Before(keys, i) \in SUBSET Before(keys, j)
    BY <1>1 DEF Before
  <2>2. j \in Before(keys, j) /\ j \notin Before(keys, i)
    BY <1>1 DEF Before
  <2>3. /\ Cardinality(Before(keys, i)) <= Cardinality(Before(keys, j))
        /\ Cardinality(Before(keys, j)) = Cardinality(Before(keys, i)) =>
               Before(keys, j) = Before(keys, i)
    BY <1>2, <2>1, FS_Subset
  <2>4. QED
    BY <1>2, <2>2, <2>3
<1>5. \A i, j \in D : P[i] = P[j] => i = j
  <2> SUFFICES ASSUME NEW i \in D, NEW j \in D, i # j
               PROVE  P[i] # P[j]
    OBVIOUS
  <2>1. P[i] \in Nat /\ P[j] \in Nat
    BY <1>1, <1>3
  <2>2. i \in Nat /\ j \in Nat /\ keys[i] \in Nat /\ keys[j] \in Nat
    BY <1>1
  <2>3. P[i] < P[j] \/ P[j] < P[i]
    BY <1>4, <2>2
  <2>4. QED
    BY <2>1, <2>3
<1>6. P \in Surjection(D, D)
  <2>1. P \in Injection(D, D)
    <3>1. P \in [D -> D]
      BY <1>3
    <3> HIDE DEF P, D
    <3>2. QED
      BY <1>5, <3>1, Fun_IsInj
  <2>2. QED
    BY <1>1, <2>1, FS_Injection
<1>7. \A n \in D : \E i \in D : P[i] = n
  BY <1>6 DEF Surjection
<1>8. \A n \in D : Nth(keys, n) \in D /\ Place(keys, Nth(keys, n)) = n
  <2> SUFFICES ASSUME NEW n \in D
               PROVE  Nth(keys, n) \in D /\ Place(keys, Nth(keys, n)) = n
    OBVIOUS
  <2>1. \E i \in D : Place(keys, i) = n
    BY <1>7
  <2>2. QED
    BY <2>1 DEF Nth
<1>9. QED
  BY <1>3, <1>4, <1>8

LEMMA OrderOfKeys ==
    ASSUME NEW keys \in Seq(Nat)
    PROVE  /\ {Nth(keys, n) : n \in DOMAIN keys} = DOMAIN keys
           /\ \A m, n \in DOMAIN keys :
                  /\ Nth(keys, m) = Nth(keys, n) => m = n
                  /\ m <= n => keys[Nth(keys, m)] <= keys[Nth(keys, n)]
<1> DEFINE D == DOMAIN keys
<1>1. D = 1..Len(keys) /\ Len(keys) \in Nat /\ \A i \in D : keys[i] \in Nat
  BY LenProperties, ElementOfSeq
<1>2. \A n \in D : Nth(keys, n) \in D /\ Place(keys, Nth(keys, n)) = n
  BY PlacesTaken
<1>3. \A i \in D : Place(keys, i) \in D
  BY PlacesTaken
<1>4. \A i, j \in D : (keys[i] < keys[j] \/ (keys[i] = keys[j] /\ i < j)) =>
                          Place(keys, i) < Place(keys, j)
  BY PlacesTaken
<1>5. \A i \in D : Nth(keys, Place(keys, i)) = i
  <2> SUFFICES ASSUME NEW i \in D
               PROVE  Nth(keys, Place(keys, i)) = i
    OBVIOUS
  <2> DEFINE j == Nth(keys, Place(keys, i))
  <2>1. j \in D /\ Place(keys, j) = Place(keys, i)
    BY <1>2, <1>3
  <2> HIDE DEF j
  <2>2. keys[i] \in Nat /\ keys[j] \in Nat /\ i \in Nat /\ j \in Nat /\ Place(keys, i) \in Nat
    BY <1>1, <1>3, <2>1
  <2>3. ~(keys[i] < keys[j]) /\ ~(keys[j] < keys[i]) /\ ~(i < j) /\ ~(j < i)
    BY <1>4, <2>1, <2>2
  <2>4. QED
    BY <2>2, <2>3 DEF j
<1>6. \A m, n \in D : m <= n => keys[Nth(keys, m)] <= keys[Nth(keys, n)]
  <2> SUFFICES ASSUME NEW m \in D, NEW n \in D, m <= n,
                      keys[Nth(keys, n)] < keys[Nth(keys, m)]
               PROVE  FALSE
    BY <1>1, <1>2
  <2>1. Place(keys, Nth(keys, n)) < Place(keys, Nth(keys, m))
    BY <1>2, <1>4
  <2>2. Place(keys, Nth(keys, n)) = n /\ Place(keys, Nth(keys, m)) = m
    BY <1>2
  <2>3. m \in Nat /\ n \in Nat
    BY <1>1
  <2>4. QED
    BY <2>1, <2>2, <2>3
<1>7. QED
  BY <1>2, <1>3, <1>5, <1>6

LEMMA InOrderAlready ==
    ASSUME NEW keys \in Seq(Nat), \A i, j \in DOMAIN keys : i < j => keys[i] < keys[j]
    PROVE  \A n \in DOMAIN keys : Nth(keys, n) = n
<1>1. Len(keys) \in Nat /\ DOMAIN keys = 1..Len(keys) /\ \A i \in DOMAIN keys : keys[i] \in Nat
  BY LenProperties, ElementOfSeq
<1>2. \A i \in DOMAIN keys : Place(keys, i) = i
  <2> SUFFICES ASSUME NEW i \in DOMAIN keys
               PROVE  Place(keys, i) = i
    OBVIOUS
  <2>1. Before(keys, i) = 1..i
    <3>1. ASSUME NEW j \in DOMAIN keys
          PROVE  keys[j] < keys[i] \/ (keys[j] = keys[i] /\ j <= i) <=> j <= i
      <4>1. i \in Nat /\ j \in Nat /\ keys[i] \in Nat /\ keys[j] \in Nat
        BY <1>1
      <4>2. (i < j => keys[i] < keys[j]) /\ (j < i => keys[j] < keys[i])
        OBVIOUS
      <4>3. QED
        BY <4>1, <4>2
    <3>2. \A j : j \in DOMAIN keys /\ j <= i <=> j \in 1..i
      BY <1>1
    <3>3. QED
      BY <3>1, <3>2 DEF Before
  <2>2. Cardinality(1..i) = i
    <3>1. i \in Nat /\ i >= 1
      BY <1>1
    <3>2. \A k \in Nat : Cardinality(1..k) = IF 1 > k THEN 0 ELSE k - 1 + 1
      BY FS_Interval
    <3>3. QED
      BY <3>1, <3>2
  <2>3. QED
    BY <2>1, <2>2 DEF Place, Before
<1>3. QED
  BY <1>2, PlacesTaken

LEMMA SortedIs ==
    ASSUME NEW seq, NEW keys, DOMAIN seq = DOMAIN keys
    PROVE  SortedBy(seq, keys) = [n \in DOMAIN seq |-> seq[Nth(keys, n)]]
BY DEF SortedBy, Nth

-----------------------------------------------------------------------------
(* Points in another order *)

Summaries == [p50 : Nat, p95 : Nat, p99 : Nat, max : Nat, count : Nat]

Point == [second : Nat \ {0}, phase : STRING, latency : Summaries, executed : Nat,
          errors : Nat, queryRate : Nat, produced : Nat, ingestRate : Nat, lag : Nat]

\* Points by points the same, h says where each of q is in p.
Rearranged(p, q, h) ==
    /\ DOMAIN q = DOMAIN p
    /\ \A n \in DOMAIN p : q[n] = p[h[n]]
    /\ {h[n] : n \in DOMAIN p} = DOMAIN p
    /\ \A m, n \in DOMAIN p : h[m] = h[n] => m = n

LEMMA FileIsRearranged ==
    ASSUME NEW points \in Seq(Point)
    PROVE  /\ Seconds(points) \in Seq(Nat) /\ DOMAIN Seconds(points) = DOMAIN points
           /\ FileOf(points) \in Seq(Point) /\ Len(FileOf(points)) = Len(points)
           /\ DOMAIN FileOf(points) = DOMAIN points
           /\ Rearranged(points, FileOf(points),
                         [n \in DOMAIN points |-> Nth(Seconds(points), n)])
           /\ \A n \in DOMAIN points : FileOf(points)[n] = points[Nth(Seconds(points), n)]
<1> DEFINE D == DOMAIN points
           keys == Seconds(points)
<1>1. Len(points) \in Nat /\ D = 1..Len(points) /\ \A i \in D : points[i] \in Point
  BY LenProperties, ElementOfSeq
<1>2. keys \in Seq(Nat) /\ DOMAIN keys = D /\ \A i \in D : keys[i] = points[i].second
  <2>1. \A i \in D : points[i].second \in Nat
    BY <1>1 DEF Point
  <2>2. keys = [i \in 1..Len(points) |-> points[i].second]
    BY <1>1 DEF Seconds
  <2>3. QED
    BY <1>1, <2>1, <2>2, IsASeq
<1>3. FileOf(points) = [n \in D |-> points[Nth(keys, n)]]
  BY <1>2, SortedIs DEF FileOf, Seconds
<1> HIDE DEF keys
<1>4. \A n \in D : Nth(keys, n) \in D
  BY <1>2, PlacesTaken
<1>5. FileOf(points) \in Seq(Point) /\ Len(FileOf(points)) = Len(points)
  <2>1. FileOf(points) = [n \in 1..Len(points) |-> points[Nth(keys, n)]]
    BY <1>1, <1>3
  <2>2. \A n \in 1..Len(points) : points[Nth(keys, n)] \in Point
    BY <1>1, <1>4
  <2>3. QED
    BY <1>1, <2>1, <2>2, IsASeq
<1>6. /\ {Nth(keys, n) : n \in D} = D
      /\ \A m, n \in D : Nth(keys, m) = Nth(keys, n) => m = n
  BY <1>2, OrderOfKeys
<1>7. Rearranged(points, FileOf(points), [n \in D |-> Nth(keys, n)])
  BY <1>3, <1>6 DEF Rearranged
<1>8. QED
  BY <1>2, <1>3, <1>5, <1>7 DEF keys

LEMMA SamePhases ==
    ASSUME NEW p, NEW q, NEW h, Rearranged(p, q, h), IsFiniteSet(DOMAIN p), NEW phases
    PROVE  /\ InPhases(p, phases) = {h[n] : n \in InPhases(q, phases)}
           /\ IsFiniteSet(InPhases(p, phases)) /\ IsFiniteSet(InPhases(q, phases))
           /\ Cardinality(InPhases(p, phases)) = Cardinality(InPhases(q, phases))
           /\ \A v, w : (\A n \in DOMAIN p : w[n] = v[h[n]] /\ w[n] \in Nat) =>
                  SumFunctionOnSet(w, InPhases(q, phases)) =
                      SumFunctionOnSet(v, InPhases(p, phases))
<1> DEFINE I == InPhases(p, phases)
           J == InPhases(q, phases)
<1>1. I = {h[n] : n \in J}
  BY DEF InPhases, Rearranged
<1>2. I \in SUBSET DOMAIN p /\ J \in SUBSET DOMAIN p
  BY DEF InPhases, Rearranged
<1>3. IsFiniteSet(I) /\ IsFiniteSet(J)
  BY <1>2, FS_Subset
<1>4. \A m, n \in J : h[m] = h[n] => m = n
  BY <1>2 DEF Rearranged
<1> HIDE DEF I, J
<1>5. Cardinality(I) = Cardinality(J)
  BY <1>1, <1>3, <1>4, SizeOfImage
<1>6. ASSUME NEW v, NEW w, \A n \in DOMAIN p : w[n] = v[h[n]] /\ w[n] \in Nat
      PROVE  SumFunctionOnSet(w, J) = SumFunctionOnSet(v, I)
  <2>1. \A n \in J : w[n] = v[h[n]] /\ w[n] \in Nat
    BY <1>2, <1>6
  <2>2. QED
    BY <1>1, <1>3, <1>4, <2>1, SumOfImage
<1>7. QED
  BY <1>1, <1>3, <1>5, <1>6 DEF I, J

LEMMA SequenceDomain ==
    ASSUME NEW S, NEW s \in Seq(S)
    PROVE  /\ Len(s) \in Nat /\ DOMAIN s = 1..Len(s) /\ \A i \in DOMAIN s : s[i] \in S
           /\ IsFiniteSet(DOMAIN s) /\ Cardinality(DOMAIN s) = Len(s)
<1>1. Len(s) \in Nat /\ DOMAIN s = 1..Len(s) /\ \A i \in DOMAIN s : s[i] \in S
  BY LenProperties, ElementOfSeq
<1>2. IsFiniteSet(1..Len(s)) /\ Cardinality(1..Len(s)) = IF 1 > Len(s) THEN 0 ELSE Len(s) - 1 + 1
  BY <1>1, FS_Interval
<1>3. QED
  BY <1>1, <1>2

LEMMA SameWithoutTimes ==
    ASSUME NEW points \in Seq(Point)
    PROVE  WithoutTimes(Derived(FileOf(points))) = WithoutTimes(Derived(points))
<1> DEFINE q == FileOf(points)
           h == [n \in DOMAIN points |-> Nth(Seconds(points), n)]
<1>1. Rearranged(points, q, h) /\ q \in Seq(Point)
  BY FileIsRearranged
<1>2. IsFiniteSet(DOMAIN points) /\ \A i \in DOMAIN points : points[i] \in Point
  BY SequenceDomain
<1>3. DOMAIN q = DOMAIN points /\ \A n \in DOMAIN points : q[n] = points[h[n]] /\ q[n] \in Point
  BY <1>1, SequenceDomain DEF Rearranged
<1>4. \A n \in DOMAIN points : h[n] \in DOMAIN points
  BY <1>1 DEF Rearranged
<1> HIDE DEF q, h
<1>5. ASSUME NEW v, NEW w, NEW phases,
             \A n \in DOMAIN points : w[n] = v[h[n]] /\ w[n] \in Nat
      PROVE  SumFunctionOnSet(w, InPhases(q, phases)) =
                 SumFunctionOnSet(v, InPhases(points, phases))
  BY <1>1, <1>2, <1>5, SamePhases
<1>6. \A phases : Cardinality(InPhases(q, phases)) = Cardinality(InPhases(points, phases))
  BY <1>1, <1>2, SamePhases
<1>7. \A phases : MeanOf(P99s(q), InPhases(q, phases)) =
                      MeanOf(P99s(points), InPhases(points, phases))
  <2>1. \A n \in DOMAIN points : P99s(q)[n] = P99s(points)[h[n]] /\ P99s(q)[n] \in Nat
    BY <1>3, <1>4 DEF P99s, Point, Summaries
  <2>2. QED
    BY <1>5, <1>6, <2>1 DEF MeanOf
<1> DEFINE errors(p) == [i \in DOMAIN p |-> p[i].errors]
           executed(p) == [i \in DOMAIN p |-> p[i].executed]
<1>8. \A phases : SumFunctionOnSet(errors(q), InPhases(q, phases)) =
                      SumFunctionOnSet(errors(points), InPhases(points, phases))
  <2>1. \A n \in DOMAIN points : errors(q)[n] = errors(points)[h[n]] /\ errors(q)[n] \in Nat
    BY <1>3, <1>4 DEF Point
  <2>2. QED
    BY <1>5, <2>1
<1>9. \A phases : SumFunctionOnSet(executed(q), InPhases(q, phases)) =
                      SumFunctionOnSet(executed(points), InPhases(points, phases))
  <2>1. \A n \in DOMAIN points :
            executed(q)[n] = executed(points)[h[n]] /\ executed(q)[n] \in Nat
    BY <1>3, <1>4 DEF Point
  <2>2. QED
    BY <1>5, <2>1
<1>10. PeakBacklog(q) = PeakBacklog(points)
  <2>1. {q[n].lag : n \in DOMAIN q} = {points[i].lag : i \in DOMAIN points}
    <3>1. \A i \in DOMAIN points : \E n \in DOMAIN points : i = h[n]
      BY <1>1 DEF Rearranged
    <3>2. \A i \in DOMAIN points : \E n \in DOMAIN q : q[n].lag = points[i].lag
      BY <1>3, <3>1
    <3>3. \A n \in DOMAIN q : \E i \in DOMAIN points : q[n].lag = points[i].lag
      BY <1>3, <1>4
    <3>4. QED
      BY <3>2, <3>3
  <2>2. q = << >> <=> points = << >>
    BY <1>1, <1>3, EmptySeq, SequenceDomain
  <2>3. QED
    BY <2>1, <2>2 DEF PeakBacklog
<1>11. \A p : WithoutTimes(Derived(p)) =
              [baselineP99  |-> MeanOf(P99s(p), InPhases(p, {"baseline"})),
               overlapP99   |-> MeanOf(P99s(p), InPhases(p, {"overlap"})),
               errorRate    |-> <<SumFunctionOnSet(errors(p), InPhases(p, {"overlap"})),
                                  SumFunctionOnSet(executed(p), InPhases(p, {"overlap"}))>>,
               peakBacklog  |-> PeakBacklog(p),
               drainTime    |-> 0,
               recoveryTime |-> 0]
  <2> TAKE p
  <2>1. \A a, b, c, d, t, r :
            WithoutTimes([baselineP99 |-> a, overlapP99 |-> b, errorRate |-> c,
                          peakBacklog |-> d, drainTime |-> t, recoveryTime |-> r])
                = [baselineP99 |-> a, overlapP99 |-> b, errorRate |-> c,
                   peakBacklog |-> d, drainTime |-> 0, recoveryTime |-> 0]
    <3> TAKE a, b, c, d, t, r
    <3> DEFINE all == [baselineP99 |-> a, overlapP99 |-> b, errorRate |-> c,
                       peakBacklog |-> d, drainTime |-> t, recoveryTime |-> r]
               drained == [baselineP99 |-> a, overlapP99 |-> b, errorRate |-> c,
                           peakBacklog |-> d, drainTime |-> 0, recoveryTime |-> r]
    <3>1. [all EXCEPT !.drainTime = 0] = drained
      OBVIOUS
    <3>2. [drained EXCEPT !.recoveryTime = 0]
              = [baselineP99 |-> a, overlapP99 |-> b, errorRate |-> c,
                 peakBacklog |-> d, drainTime |-> 0, recoveryTime |-> 0]
      OBVIOUS
    <3>3. WithoutTimes(all) = [drained EXCEPT !.recoveryTime = 0]
      BY <3>1 DEF WithoutTimes
    <3>4. QED
      BY <3>2, <3>3
  <2>2. QED
    BY Zenon, <2>1 DEF Derived
<1> HIDE DEF errors, executed
<1>12. QED
  BY <1>7, <1>8, <1>9, <1>10, <1>11 DEF q

LEMMA PointDomain ==
    ASSUME NEW points \in Seq(Point)
    PROVE  /\ Len(points) \in Nat /\ DOMAIN points = 1..Len(points)
           /\ IsFiniteSet(DOMAIN points)
           /\ \A i \in DOMAIN points :
                  /\ points[i] \in Point /\ points[i].second \in Nat \ {0}
                  /\ points[i].lag \in Nat /\ points[i].latency.p99 \in Nat
<1>1. /\ Len(points) \in Nat /\ DOMAIN points = 1..Len(points) /\ IsFiniteSet(DOMAIN points)
      /\ \A i \in DOMAIN points : points[i] \in Point
  BY SequenceDomain
<1>2. \A p \in Point : p.second \in Nat \ {0} /\ p.lag \in Nat /\ p.latency.p99 \in Nat
  BY DEF Point, Summaries
<1>3. QED
  BY <1>1, <1>2

Increasing(points) ==
    \A i, j \in DOMAIN points : i < j => points[i].second < points[j].second

LEMMA InOrderIncreases ==
    ASSUME NEW points \in Seq(Point), InOrder(points)
    PROVE  Increasing(points)
<1> DEFINE D == DOMAIN points
           T == {d \in Nat : \A i, j \in D : j = i + d + 1 => points[i].second < points[j].second}
<1>1. Len(points) \in Nat /\ D = 1..Len(points) /\ \A i \in D : points[i].second \in Nat
  BY PointDomain
<1>2. \A i, j \in D : j = i + 1 => points[i].second < points[j].second
  <2> SUFFICES ASSUME NEW i \in D, NEW j \in D, j = i + 1
               PROVE  points[i].second < points[j].second
    OBVIOUS
  <2>1. j \in 2..Len(points) /\ j - 1 = i
    BY <1>1
  <2>2. QED
    BY <2>1 DEF InOrder
<1>3. 0 \in T
  BY <1>1, <1>2
<1>4. ASSUME NEW d \in Nat, d \in T
      PROVE  d + 1 \in T
  <2> SUFFICES ASSUME NEW i \in D, NEW j \in D, j = i + (d + 1) + 1
               PROVE  points[i].second < points[j].second
    OBVIOUS
  <2>1. j - 1 \in D /\ j - 1 = i + d + 1 /\ j = (j - 1) + 1
    BY <1>1
  <2>2. points[i].second < points[j - 1].second
    BY <1>4, <2>1
  <2>3. points[j - 1].second < points[j].second
    BY <1>2, <2>1
  <2>4. QED
    BY <1>1, <2>1, <2>2, <2>3
<1> HIDE DEF T
<1>5. \A d \in Nat : d \in T
  BY <1>3, <1>4, NumbersFrom
<1>6. \A i, j \in D : i < j => points[i].second < points[j].second
  <2> SUFFICES ASSUME NEW i \in D, NEW j \in D, i < j
               PROVE  points[i].second < points[j].second
    OBVIOUS
  <2>1. j - i - 1 \in Nat /\ j = i + (j - i - 1) + 1
    BY <1>1
  <2>2. QED
    BY <1>5, <2>1 DEF T
<1>7. QED
  BY <1>6 DEF Increasing

LEMMA FileInOrder ==
    ASSUME NEW points \in Seq(Point), Increasing(points)
    PROVE  FileOf(points) = points
<1>1. /\ Seconds(points) \in Seq(Nat) /\ DOMAIN Seconds(points) = DOMAIN points
      /\ FileOf(points) \in Seq(Point) /\ Len(FileOf(points)) = Len(points)
      /\ DOMAIN FileOf(points) = DOMAIN points
      /\ \A n \in DOMAIN points : FileOf(points)[n] = points[Nth(Seconds(points), n)]
  BY FileIsRearranged
<1>2. \A n \in DOMAIN points : Nth(Seconds(points), n) = n
  <2>1. \A i, j \in DOMAIN points : i < j => Seconds(points)[i] < Seconds(points)[j]
    BY DEF Increasing, Seconds
  <2>2. QED
    BY <1>1, <2>1, InOrderAlready
<1>3. \A n \in DOMAIN points : FileOf(points)[n] = points[n]
  BY <1>1, <1>2
<1>4. \A n \in 1..Len(points) : FileOf(points)[n] = points[n]
  BY <1>3, SequenceDomain
<1>5. QED
  BY <1>1, <1>4, SeqEqual

\* A file is in the order of its seconds.
LEMMA FileIncreases ==
    ASSUME NEW points \in Seq(Point),
           \A i, j \in DOMAIN points : points[i].second = points[j].second => i = j
    PROVE  Increasing(FileOf(points))
<1> DEFINE keys == Seconds(points)
           D == DOMAIN points
<1>1. /\ keys \in Seq(Nat) /\ DOMAIN keys = D /\ DOMAIN FileOf(points) = D
      /\ \A n \in D : FileOf(points)[n] = points[Nth(keys, n)]
  BY FileIsRearranged
<1>2. /\ Len(points) \in Nat /\ D = 1..Len(points)
      /\ \A i \in D : points[i].second \in Nat /\ keys[i] = points[i].second
  BY PointDomain DEF Seconds
<1> HIDE DEF keys
<1>3. \A n \in D : Nth(keys, n) \in D
  BY <1>1, PlacesTaken
<1>4. \A m, n \in D : /\ Nth(keys, m) = Nth(keys, n) => m = n
                      /\ m <= n => keys[Nth(keys, m)] <= keys[Nth(keys, n)]
  BY <1>1, OrderOfKeys
<1>5. \A m, n \in D : m < n => FileOf(points)[m].second < FileOf(points)[n].second
  <2> SUFFICES ASSUME NEW m \in D, NEW n \in D, m < n
               PROVE  points[Nth(keys, m)].second < points[Nth(keys, n)].second
    BY <1>1
  <2>1. m # n /\ m <= n
    BY <1>2
  <2>2. keys[Nth(keys, m)] <= keys[Nth(keys, n)] /\ Nth(keys, m) # Nth(keys, n)
    BY <1>4, <2>1
  <2>3. points[Nth(keys, m)].second # points[Nth(keys, n)].second
    BY <1>3, <2>2
  <2>4. QED
    BY <1>2, <1>3, <2>2, <2>3
<1>6. QED
  BY <1>1, <1>5 DEF Increasing

-----------------------------------------------------------------------------
(* The report of a file *)

LEMMA MinIsLeast ==
    ASSUME NEW S, S \subseteq Nat, S # {}
    PROVE  Min(S) \in S /\ \A n \in S : Min(S) <= n
BY LeastNumber DEF Min

LEMMA MaxIsGreatest ==
    ASSUME NEW S, S \subseteq Nat, S # {}, IsFiniteSet(S)
    PROVE  Max(S) \in S /\ \A n \in S : n <= Max(S)
<1> DEFINE T == {R \in SUBSET S : R # {} => \E m \in R : \A n \in R : n <= m}
<1>1. {} \in T
  OBVIOUS
<1>2. ASSUME NEW R \in SUBSET S, NEW x \in S \ R, R \in T
      PROVE  R \cup {x} \in T
  <2>1. CASE R = {}
    BY <2>1
  <2>2. CASE R # {}
    <3>1. PICK m \in R : \A n \in R : n <= m
      BY <1>2, <2>2
    <3>2. m \in Nat /\ x \in Nat /\ \A n \in R : n \in Nat
      OBVIOUS
    <3>3. CASE x <= m
      BY <3>1, <3>3
    <3>4. CASE m < x
      <4>1. \A n \in R \cup {x} : n <= x
        BY <3>1, <3>2, <3>4
      <4>2. QED
        BY <4>1
    <3>5. QED
      BY <3>2, <3>3, <3>4
  <2>3. QED
    BY <2>1, <2>2
<1>3. S \in T
  <2> HIDE DEF T
  <2>1. QED
    BY <1>1, <1>2, SubsetsFrom
<1>4. \E m \in S : \A n \in S : m >= n
  BY <1>3
<1>5. Max(S) \in S /\ \A n \in S : Max(S) >= n
  BY <1>4 DEF Max
<1>6. QED
  BY <1>5

\* The first of some points of a file has the least of their seconds.
LEMMA FirstIsLeast ==
    ASSUME NEW q \in Seq(Point), Increasing(q), NEW I, I \subseteq DOMAIN q, I # {}, NEW d
    PROVE  /\ FirstOr(q, I, d) = MinSecond({q[i] : i \in I})
           /\ \A i \in I : FirstOr(q, I, d) <= q[i].second
           /\ \E i \in I : FirstOr(q, I, d) = q[i].second
<1>1. DOMAIN q = 1..Len(q) /\ Len(q) \in Nat /\ \A i \in DOMAIN q : q[i].second \in Nat
  BY PointDomain
<1>2. I \subseteq Nat
  BY <1>1
<1>3. Min(I) \in I /\ \A i \in I : Min(I) <= i
  BY <1>2, MinIsLeast
<1> DEFINE s == q[Min(I)].second
           P == {q[i] : i \in I}
<1>4. FirstOr(q, I, d) = s
  BY DEF FirstOr
<1>5. \A i \in I : s <= q[i].second
  <2> SUFFICES ASSUME NEW i \in I
               PROVE  s <= q[i].second
    OBVIOUS
  <2>1. Min(I) <= i /\ Min(I) \in DOMAIN q /\ i \in DOMAIN q
    BY <1>3
  <2>2. CASE Min(I) = i
    BY <1>1, <2>2
  <2>3. CASE Min(I) < i
    BY <1>1, <2>1, <2>3 DEF Increasing
  <2>4. QED
    BY <1>1, <2>1, <2>2, <2>3
<1> HIDE DEF s
<1>6. s \in {p.second : p \in P} /\ \A p \in P : s <= p.second
  BY <1>3, <1>5 DEF s
<1>7. \A t \in {p.second : p \in P} : (\A p \in P : t <= p.second) => t = s
  <2> SUFFICES ASSUME NEW t \in {p.second : p \in P}, \A p \in P : t <= p.second
               PROVE  t = s
    OBVIOUS
  <2>1. t <= s /\ s <= t
    BY <1>6
  <2>2. t \in Nat /\ s \in Nat
    BY <1>1, <1>6
  <2>3. QED
    BY <2>1, <2>2
<1>8. MinSecond(P) = s
  BY <1>6, <1>7 DEF MinSecond
<1>9. QED
  BY <1>3, <1>4, <1>5, <1>8 DEF s

\* The mean over a phase is that over the set of its points.
LEMMA MeanOfPoints ==
    ASSUME NEW q \in Seq(Point), Increasing(q), NEW v, NEW w,
           \A i \in DOMAIN q : w[i] = v[q[i]] /\ w[i] \in Nat
    PROVE  BaselineMean(ToSet(q), v) = MeanOf(w, InPhases(q, {"baseline"}))
<1> DEFINE I == InPhases(q, {"baseline"})
<1>1. DOMAIN q = 1..Len(q) /\ Len(q) \in Nat /\ \A i \in DOMAIN q : q[i].second \in Nat
  BY PointDomain
<1>2. I \subseteq DOMAIN q /\ {p \in ToSet(q) : p.phase = "baseline"} = {q[i] : i \in I}
  BY DEF InPhases, ToSet
<1>3. IsFiniteSet(I)
  BY <1>2, PointDomain, FS_Subset
<1> HIDE DEF I
<1>4. \A i, j \in I : q[i] = q[j] => i = j
  <2> SUFFICES ASSUME NEW i \in I, NEW j \in I, q[i] = q[j], i # j
               PROVE  FALSE
    OBVIOUS
  <2>1. i \in DOMAIN q /\ j \in DOMAIN q /\ (i < j \/ j < i)
    BY <1>1, <1>2
  <2>2. q[i].second < q[j].second \/ q[j].second < q[i].second
    BY <2>1 DEF Increasing
  <2>3. QED
    BY <1>1, <2>1, <2>2
<1>5. Cardinality({q[i] : i \in I}) = Cardinality(I)
  BY <1>3, <1>4, SizeOfImage
<1>6. \A i \in I : w[i] = v[q[i]] /\ w[i] \in Nat
  BY <1>2
<1>7. SumFunctionOnSet(w, I) = SumFunctionOnSet(v, {q[i] : i \in I})
  BY <1>3, <1>4, <1>6, SumOfImage
<1>8. QED
  BY <1>2, <1>5, <1>7 DEF BaselineMean, MeanOf, I

LEMMA RecoveryIsReference ==
    ASSUME NEW q \in Seq(Point), Increasing(q), NEW last \in Nat, last < Modulus,
           \A i \in DOMAIN q : q[i].second <= last
    PROVE  RecoveryTime(q, MeanOf(P99s(q), InPhases(q, {"baseline"})))
               = ReferenceRecovery(ToSet(q))
<1> DEFINE D == DOMAIN q
           mean == MeanOf(P99s(q), InPhases(q, {"baseline"}))
           I == InPhases(q, {"recovery", "post_incident"})
           J == {i \in I : WithinThreshold(P99s(q)[i], mean) /\ P99s(q)[i] > 0}
           start == FirstOr(q, I, 0)
<1>1. /\ D = 1..Len(q) /\ Len(q) \in Nat
      /\ \A i \in D : q[i].second \in Nat \ {0} /\ q[i].latency.p99 \in Nat
  BY PointDomain
<1>2. BaselineMean(ToSet(q), [p \in ToSet(q) |-> p.latency.p99]) = mean
  <2> DEFINE v == [p \in ToSet(q) |-> p.latency.p99]
  <2>1. \A i \in D : P99s(q)[i] = v[q[i]] /\ P99s(q)[i] \in Nat
    BY <1>1 DEF P99s, ToSet
  <2> HIDE DEF v
  <2>2. QED
    BY <2>1, MeanOfPoints DEF v
<1>3. {p \in ToSet(q) : p.phase \in {"recovery", "post_incident"}} = {q[i] : i \in I}
  BY DEF InPhases, ToSet
<1>4. I \subseteq D /\ J \subseteq I
  BY DEF InPhases
<1>5. \A i \in I : P99s(q)[i] = q[i].latency.p99
  BY <1>4 DEF P99s
<1> HIDE DEF mean, I
<1>6. {p \in {q[i] : i \in I} : p.latency.p99 > 0 /\ WithinThreshold(p.latency.p99, mean)}
          = {q[i] : i \in J}
  BY <1>5
<1>7. ReferenceRecovery(ToSet(q)) =
          IF {q[i] : i \in J} = {} THEN 0
          ELSE MinSecond({q[i] : i \in J}) - MinSecond({q[i] : i \in I})
  BY <1>2, <1>3, <1>6 DEF ReferenceRecovery
<1>8. RecoveryTime(q, mean) = (FirstOr(q, J, start) - start) % Modulus
  BY DEF RecoveryTime, I
<1>9. Modulus \in Nat \ {0}
  BY RunSummaryAssumption
<1> HIDE DEF J, start
<1>10. CASE J = {}
  <2>1. FirstOr(q, J, start) = start
    BY <1>10 DEF FirstOr
  <2>2. start \in Nat
    <3>1. CASE I = {}
      BY <3>1 DEF FirstOr, start
    <3>2. CASE I # {}
      <4>1. \E i \in I : start = q[i].second
        BY <1>4, <3>2, FirstIsLeast DEF start
      <4>2. QED
        BY <1>1, <1>4, <4>1
    <3>3. QED
      BY <3>1, <3>2
  <2>3. (start - start) % Modulus = 0
    BY <1>9, <2>2
  <2>4. QED
    BY <1>7, <1>8, <1>10, <2>1, <2>3 DEF mean
<1>11. CASE J # {}
  <2>1. I # {}
    BY <1>4, <1>11
  <2>2. /\ start = MinSecond({q[i] : i \in I})
        /\ \A i \in I : start <= q[i].second
        /\ \E i \in I : start = q[i].second
    BY <1>4, <2>1, FirstIsLeast DEF start
  <2>3. /\ FirstOr(q, J, start) = MinSecond({q[i] : i \in J})
        /\ \E i \in J : FirstOr(q, J, start) = q[i].second
    <3>1. J \subseteq D
      BY <1>4
    <3>2. QED
      BY <1>11, <3>1, FirstIsLeast
  <2> DEFINE end == FirstOr(q, J, start)
  <2>4. start \in Nat /\ end \in Nat /\ start <= end /\ end <= last
    BY <1>1, <1>4, <2>2, <2>3
  <2> HIDE DEF end
  <2>5. (end - start) % Modulus = end - start
    <3>1. end - start \in 0..(Modulus - 1)
      BY <1>9, <2>4
    <3>2. QED
      BY <1>9, <3>1
  <2>6. QED
    BY <1>7, <1>8, <1>11, <2>2, <2>3, <2>5 DEF mean, end
<1>12. QED
  BY <1>10, <1>11

LEMMA PeakIsGreatest ==
    ASSUME NEW q \in Seq(Point)
    PROVE  /\ PeakBacklog(q) \in Nat
           /\ \A i \in DOMAIN q : q[i].lag <= PeakBacklog(q)
           /\ q # << >> => \E i \in DOMAIN q : q[i].lag = PeakBacklog(q)
           /\ q = << >> => PeakBacklog(q) = 0
<1> DEFINE lags == {q[i].lag : i \in DOMAIN q}
           h == [i \in DOMAIN q |-> q[i].lag]
<1>1. /\ DOMAIN q = 1..Len(q) /\ Len(q) \in Nat /\ IsFiniteSet(DOMAIN q)
      /\ \A i \in DOMAIN q : q[i].lag \in Nat
  BY PointDomain
<1>2. CASE q = << >>
  BY <1>1, <1>2, EmptySeq DEF PeakBacklog
<1>3. CASE q # << >>
  <2>1. lags \subseteq Nat
    BY <1>1
  <2>2. lags # {}
    <3>1. Len(q) # 0
      BY <1>3, EmptySeq
    <3>2. 1 \in DOMAIN q
      BY <1>1, <3>1
    <3>3. QED
      BY <3>2
  <2>3. h \in Surjection(DOMAIN q, lags)
    BY Fun_IsSurj
  <2>4. IsFiniteSet(lags)
    BY <1>1, <2>3, FS_Surjection
  <2> HIDE DEF lags
  <2>5. Max(lags) \in lags /\ \A n \in lags : n <= Max(lags)
    BY <2>1, <2>2, <2>4, MaxIsGreatest
  <2>6. PeakBacklog(q) = Max(lags)
    BY <1>3 DEF PeakBacklog, lags
  <2>7. QED
    BY <1>3, <2>1, <2>5, <2>6 DEF lags
<1>4. QED
  BY <1>2, <1>3

LEMMA DrainIsReference ==
    ASSUME NEW q \in Seq(Point), Increasing(q)
    PROVE  DrainTime(q, PeakBacklog(q)) = ReferenceDrain(ToSet(q))
<1> DEFINE D == DOMAIN q
           P == ToSet(q)
           peak == PeakBacklog(q)
           baseline == Whole(MeanOf(Lags(q), InPhases(q, {"baseline"})))
           I == {i \in D : q[i].lag = peak}
           peakTime == FirstOr(q, I, 0)
           J == {i \in D : q[i].second > peakTime /\ q[i].lag <= Greatest(baseline, LagFloor)}
<1>1. /\ D = 1..Len(q) /\ Len(q) \in Nat
      /\ \A i \in D : q[i].second \in Nat \ {0} /\ q[i].lag \in Nat
  BY PointDomain
<1>2. Whole(BaselineMean(P, [p \in P |-> p.lag])) = baseline
  <2> DEFINE v == [p \in ToSet(q) |-> p.lag]
  <2>1. \A i \in D : Lags(q)[i] = v[q[i]] /\ Lags(q)[i] \in Nat
    BY <1>1 DEF Lags, ToSet
  <2> HIDE DEF v
  <2>2. BaselineMean(P, v) = MeanOf(Lags(q), InPhases(q, {"baseline"}))
    BY <2>1, MeanOfPoints
  <2>3. QED
    BY <2>2 DEF v
<1>3. P = {q[i] : i \in D}
  BY DEF ToSet
<1>4. /\ peak \in Nat /\ \A i \in D : q[i].lag <= peak
      /\ q # << >> => \E i \in D : q[i].lag = peak
      /\ q = << >> => peak = 0
  BY PeakIsGreatest
<1>5. DrainTime(q, peak) = IF peak = 0 \/ peakTime = 0 THEN 0
                           ELSE FirstOr(q, J, peakTime) - peakTime
  BY DEF DrainTime
<1> HIDE DEF peak, baseline, P
<1>6. CASE peak = 0
  <2>1. \A p \in P : p.lag = 0
    BY <1>1, <1>3, <1>4, <1>6
  <2>2. QED
    BY <1>5, <1>6, <2>1 DEF ReferenceDrain, P, peak
<1>7. CASE peak # 0
  <2>1. PICK k \in D : q[k].lag = peak
    BY <1>4, <1>7
  <2>2. ~\A p \in P : p.lag = 0
    BY <1>3, <1>7, <2>1
  <2>3. {p \in P : \A r \in P : r.lag <= p.lag} = {q[i] : i \in I}
    <3>1. \A i \in D : (\A j \in D : q[j].lag <= q[i].lag) <=> q[i].lag = peak
      <4> SUFFICES ASSUME NEW i \in D
                   PROVE  (\A j \in D : q[j].lag <= q[i].lag) <=> q[i].lag = peak
        OBVIOUS
      <4>1. q[i].lag \in Nat /\ q[i].lag <= peak /\ peak \in Nat
        BY <1>1, <1>4
      <4>2. ASSUME \A j \in D : q[j].lag <= q[i].lag
            PROVE  q[i].lag = peak
        <5>1. peak <= q[i].lag
          BY <2>1, <4>2
        <5>2. QED
          BY <4>1, <5>1
      <4>3. QED
        BY <1>4, <4>2
    <3>2. QED
      BY <1>3, <3>1
  <2>4. I # {} /\ I \subseteq D
    BY <2>1
  <2> HIDE DEF I
  <2>5. peakTime = MinSecond({q[i] : i \in I}) /\ \E i \in I : peakTime = q[i].second
    BY <2>4, FirstIsLeast
  <2>6. peakTime \in Nat \ {0}
    BY <1>1, <2>4, <2>5
  <2> HIDE DEF peakTime
  <2>7. {p \in P : p.lag <= Greatest(baseline, LagFloor) /\ p.second > peakTime}
            = {q[i] : i \in J}
    BY <1>3
  <2>8. ReferenceDrain(P) = IF {q[i] : i \in J} = {} THEN 0
                            ELSE MinSecond({q[i] : i \in J}) - peakTime
    <3> DEFINE top == {p \in P : \A r \in P : r.lag <= p.lag}
               low == {p \in P : p.lag <= Greatest(baseline, LagFloor)
                                 /\ p.second > MinSecond(top)}
    <3>1. ReferenceDrain(P) = IF low = {} \/ \A p \in P : p.lag = 0 THEN 0
                              ELSE MinSecond(low) - MinSecond(top)
      BY <1>2 DEF ReferenceDrain
    <3>2. MinSecond(top) = peakTime
      BY <2>3, <2>5
    <3> HIDE DEF top
    <3>3. low = {q[i] : i \in J}
      BY <2>7, <3>2
    <3> HIDE DEF low
    <3>4. QED
      BY <2>2, <3>1, <3>2, <3>3
  <2>9. J \subseteq D
    OBVIOUS
  <2> HIDE DEF J
  <2>10. CASE J = {}
    <3>1. FirstOr(q, J, peakTime) = peakTime
      BY <2>10 DEF FirstOr
    <3>2. peakTime - peakTime = 0
      BY <2>6
    <3>3. QED
      BY <1>5, <2>8, <2>10, <3>1, <3>2 DEF P, peak
  <2>11. CASE J # {}
    <3>1. FirstOr(q, J, peakTime) = MinSecond({q[i] : i \in J})
      BY <2>9, <2>11, FirstIsLeast
    <3>2. QED
      BY <1>5, <1>7, <2>6, <2>8, <2>11, <3>1 DEF P, peak
  <2>12. QED
    BY <2>10, <2>11
<1>8. QED
  BY <1>6, <1>7

-----------------------------------------------------------------------------
(* More about sums *)

LEMMA SumOfUnion ==
    ASSUME NEW R, NEW S, IsFiniteSet(R), IsFiniteSet(S), R \cap S = {}, NEW f,
           \A i \in R \cup S : f[i] \in Nat
    PROVE  SumFunctionOnSet(f, R \cup S) = SumFunctionOnSet(f, R) + SumFunctionOnSet(f, S)
<1> DEFINE T == {Q \in SUBSET S : SumFunctionOnSet(f, R \cup Q) =
                                      SumFunctionOnSet(f, R) + SumFunctionOnSet(f, Q)}
<1>1. \A Q \in SUBSET S :
          /\ IsFiniteSet(Q) /\ IsFiniteSet(R \cup Q)
          /\ SumFunctionOnSet(f, Q) \in Nat /\ SumFunctionOnSet(f, R) \in Nat
  <2> SUFFICES ASSUME NEW Q \in SUBSET S
               PROVE  /\ IsFiniteSet(Q) /\ IsFiniteSet(R \cup Q)
                      /\ SumFunctionOnSet(f, Q) \in Nat /\ SumFunctionOnSet(f, R) \in Nat
    OBVIOUS
  <2>1. IsFiniteSet(Q)
    BY FS_Subset
  <2>2. IsFiniteSet(R \cup Q)
    BY <2>1, FS_Union
  <2>3. QED
    BY <2>1, <2>2, SumOfNumbers
<1>2. {} \in T
  <2>1. R \cup {} = R
    OBVIOUS
  <2>2. SumFunctionOnSet(f, {}) = 0
    BY SumOfNone
  <2>3. SumFunctionOnSet(f, R) \in Nat
    BY <1>1
  <2>4. QED
    BY <2>1, <2>2, <2>3
<1>3. ASSUME NEW Q \in SUBSET S, NEW x \in S \ Q, Q \in T
      PROVE  Q \cup {x} \in T
  <2>1. R \cup (Q \cup {x}) = (R \cup Q) \cup {x} /\ x \notin R \cup Q
    OBVIOUS
  <2>2. SumFunctionOnSet(f, (R \cup Q) \cup {x}) = f[x] + SumFunctionOnSet(f, R \cup Q)
    BY <1>1, <2>1, SumAdding
  <2>3. SumFunctionOnSet(f, Q \cup {x}) = f[x] + SumFunctionOnSet(f, Q)
    BY <1>1, SumAdding
  <2>4. SumFunctionOnSet(f, R \cup Q) = SumFunctionOnSet(f, R) + SumFunctionOnSet(f, Q)
    BY <1>3
  <2>5. f[x] \in Nat
    OBVIOUS
  <2>6. SumFunctionOnSet(f, Q) \in Nat /\ SumFunctionOnSet(f, R) \in Nat
    BY <1>1
  <2>7. SumFunctionOnSet(f, R \cup (Q \cup {x})) =
            SumFunctionOnSet(f, R) + SumFunctionOnSet(f, Q \cup {x})
    BY <2>1, <2>2, <2>3, <2>4, <2>5, <2>6
  <2>8. QED
    BY <2>7
<1>4. S \in T
  <2> HIDE DEF T
  <2>1. QED
    BY <1>2, <1>3, SubsetsFrom
<1>5. QED
  BY <1>4

LEMMA SumOfPart ==
    ASSUME NEW S, IsFiniteSet(S), NEW R \in SUBSET S, NEW f, \A i \in S : f[i] \in Nat
    PROVE  /\ SumFunctionOnSet(f, R) <= SumFunctionOnSet(f, S)
           /\ (\A i \in S \ R : f[i] = 0) => SumFunctionOnSet(f, R) = SumFunctionOnSet(f, S)
<1>1. IsFiniteSet(R) /\ IsFiniteSet(S \ R)
  BY FS_Subset
<1>2. S = R \cup (S \ R) /\ R \cap (S \ R) = {}
  OBVIOUS
<1>3. SumFunctionOnSet(f, S) = SumFunctionOnSet(f, R) + SumFunctionOnSet(f, S \ R)
  BY <1>1, <1>2, SumOfUnion
<1>4. SumFunctionOnSet(f, R) \in Nat /\ SumFunctionOnSet(f, S \ R) \in Nat
  BY <1>1, SumOfNumbers
<1>5. ASSUME \A i \in S \ R : f[i] = 0
      PROVE  SumFunctionOnSet(f, S \ R) = 0
  <2> DEFINE T == {Q \in SUBSET (S \ R) : SumFunctionOnSet(f, Q) = 0}
  <2>1. {} \in T
    BY SumOfNone
  <2>2. ASSUME NEW Q \in SUBSET (S \ R), NEW x \in (S \ R) \ Q, Q \in T
        PROVE  Q \cup {x} \in T
    <3>1. IsFiniteSet(Q)
      BY <1>1, FS_Subset
    <3>2. SumFunctionOnSet(f, Q \cup {x}) = f[x] + SumFunctionOnSet(f, Q)
      BY <3>1, SumAdding
    <3>3. f[x] = 0 /\ SumFunctionOnSet(f, Q) = 0
      BY <1>5, <2>2
    <3>4. QED
      BY <3>2, <3>3
  <2>3. S \ R \in T
    <3> HIDE DEF T
    <3>1. QED
      BY <1>1, <2>1, <2>2, SubsetsFrom
  <2>4. QED
    BY <2>3
<1>6. QED
  BY <1>3, <1>4, <1>5

LEMMA SumMonotone ==
    ASSUME NEW S, IsFiniteSet(S), NEW f, NEW g,
           \A i \in S : f[i] \in Nat /\ g[i] \in Nat /\ f[i] <= g[i]
    PROVE  SumFunctionOnSet(f, S) <= SumFunctionOnSet(g, S)
<1> DEFINE T == {R \in SUBSET S : SumFunctionOnSet(f, R) <= SumFunctionOnSet(g, R)}
<1>1. {} \in T
  BY SumOfNone
<1>2. ASSUME NEW R \in SUBSET S, NEW x \in S \ R, R \in T
      PROVE  R \cup {x} \in T
  <2>1. IsFiniteSet(R)
    BY FS_Subset
  <2>2. /\ SumFunctionOnSet(f, R \cup {x}) = f[x] + SumFunctionOnSet(f, R)
        /\ SumFunctionOnSet(g, R \cup {x}) = g[x] + SumFunctionOnSet(g, R)
    BY <2>1, SumAdding
  <2>3. SumFunctionOnSet(f, R) \in Nat /\ SumFunctionOnSet(g, R) \in Nat
    BY <2>1, SumOfNumbers
  <2>4. SumFunctionOnSet(f, R) <= SumFunctionOnSet(g, R)
    BY <1>2
  <2>5. SumFunctionOnSet(f, R \cup {x}) <= SumFunctionOnSet(g, R \cup {x})
    BY <2>2, <2>3, <2>4
  <2>6. QED
    BY <2>5
<1>3. S \in T
  <2> HIDE DEF T
  <2>1. QED
    BY <1>1, <1>2, SubsetsFrom
<1>4. QED
  BY <1>3

\* A sum of which every part is c.
LEMMA SumOfConstant ==
    ASSUME NEW S, IsFiniteSet(S), NEW c \in Nat, NEW f, \A i \in S : f[i] = c
    PROVE  SumFunctionOnSet(f, S) = c * Cardinality(S)
<1> DEFINE T == {R \in SUBSET S : SumFunctionOnSet(f, R) = c * Cardinality(R)}
<1>1. {} \in T
  BY SumOfNone, FS_EmptySet
<1>2. ASSUME NEW R \in SUBSET S, NEW x \in S \ R, R \in T
      PROVE  R \cup {x} \in T
  <2>1. IsFiniteSet(R)
    BY FS_Subset
  <2>2. SumFunctionOnSet(f, R \cup {x}) = f[x] + SumFunctionOnSet(f, R)
    BY <2>1, SumAdding
  <2>3. Cardinality(R \cup {x}) = Cardinality(R) + 1 /\ Cardinality(R) \in Nat
    BY <2>1, FS_AddElement, FS_CardinalityType
  <2>4. SumFunctionOnSet(f, R) = c * Cardinality(R) /\ f[x] = c
    BY <1>2
  <2>5. \A n \in Nat : c + c * n = c * (n + 1)
    OBVIOUS
  <2>6. SumFunctionOnSet(f, R \cup {x}) = c * Cardinality(R \cup {x})
    BY <2>2, <2>3, <2>4, <2>5
  <2>7. QED
    BY <2>6
<1>3. S \in T
  <2> HIDE DEF T
  <2>1. QED
    BY <1>1, <1>2, SubsetsFrom
<1>4. QED
  BY <1>3

\* Counting is summing ones.
LEMMA SizeIsSum ==
    ASSUME NEW S, IsFiniteSet(S), NEW R \in SUBSET S, NEW f,
           \A i \in S : f[i] = IF i \in R THEN 1 ELSE 0
    PROVE  SumFunctionOnSet(f, S) = Cardinality(R)
<1>1. IsFiniteSet(R)
  BY FS_Subset
<1>2. SumFunctionOnSet(f, R) = SumFunctionOnSet(f, S)
  BY SumOfPart
<1>3. SumFunctionOnSet(f, R) = 1 * Cardinality(R)
  BY <1>1, SumOfConstant
<1>4. Cardinality(R) \in Nat
  BY <1>1, FS_CardinalityType
<1>5. QED
  BY <1>2, <1>3, <1>4

-----------------------------------------------------------------------------
(* Sums over sequences *)

Total(seq, val) == SumFunctionOnSet([i \in DOMAIN seq |-> val[seq[i]]], DOMAIN seq)

LEMMA TotalType ==
    ASSUME NEW S, NEW s \in Seq(S), NEW val \in [S -> Nat]
    PROVE  Total(s, val) \in Nat
<1>1. IsFiniteSet(DOMAIN s) /\ \A i \in DOMAIN s : s[i] \in S
  BY SequenceDomain
<1> DEFINE f == [i \in DOMAIN s |-> val[s[i]]]
<1>2. \A i \in DOMAIN s : f[i] \in Nat
  BY <1>1
<1> HIDE DEF f
<1>3. SumFunctionOnSet(f, DOMAIN s) \in Nat
  BY <1>1, <1>2, SumOfNumbers
<1>4. QED
  BY <1>3 DEF Total, f

LEMMA TotalOfConcat ==
    ASSUME NEW S, NEW s \in Seq(S), NEW t \in Seq(S), NEW val \in [S -> Nat]
    PROVE  Total(s \o t, val) = Total(s, val) + Total(t, val)
<1> DEFINE f == [i \in DOMAIN (s \o t) |-> val[(s \o t)[i]]]
           g == [i \in DOMAIN s |-> val[s[i]]]
           e == [i \in DOMAIN t |-> val[t[i]]]
           h == [i \in DOMAIN t |-> i + Len(s)]
           I == 1..Len(s)
           J == {h[i] : i \in DOMAIN t}
<1>1. /\ DOMAIN s = I /\ Len(s) \in Nat /\ IsFiniteSet(I) /\ \A i \in I : s[i] \in S
      /\ DOMAIN t = 1..Len(t) /\ Len(t) \in Nat /\ IsFiniteSet(DOMAIN t)
      /\ \A i \in DOMAIN t : t[i] \in S
  BY SequenceDomain
<1>2. /\ s \o t \in Seq(S) /\ Len(s \o t) = Len(s) + Len(t)
      /\ \A i \in I : (s \o t)[i] = s[i]
      /\ \A i \in DOMAIN t : (s \o t)[i + Len(s)] = t[i]
  BY <1>1, ConcatProperties
<1>3. DOMAIN (s \o t) = 1..(Len(s) + Len(t))
  BY <1>2, SequenceDomain
<1>4. DOMAIN (s \o t) = I \cup J
  <2>1. \A i \in DOMAIN (s \o t) : i \in I \cup J
    <3> SUFFICES ASSUME NEW i \in DOMAIN (s \o t), i \notin I
                 PROVE  i \in J
      OBVIOUS
    <3>1. i - Len(s) \in DOMAIN t /\ h[i - Len(s)] = i
      BY <1>1, <1>3
    <3>2. QED
      BY <3>1
  <2>2. \A i \in I \cup J : i \in DOMAIN (s \o t)
    BY <1>1, <1>3
  <2>3. QED
    BY <2>1, <2>2
<1>5. I \cap J = {}
  BY <1>1
<1>6. \A i \in I : f[i] = g[i] /\ f[i] \in Nat
  BY <1>1, <1>2, <1>4
<1>7. \A i \in DOMAIN t : e[i] = f[h[i]] /\ e[i] \in Nat
  <2> SUFFICES ASSUME NEW i \in DOMAIN t
               PROVE  e[i] = f[h[i]] /\ e[i] \in Nat
    OBVIOUS
  <2>1. h[i] = i + Len(s) /\ h[i] \in DOMAIN (s \o t)
    BY <1>4
  <2>2. QED
    BY <1>1, <1>2, <2>1
<1>8. \A i, j \in DOMAIN t : h[i] = h[j] => i = j
  BY <1>1
<1> HIDE DEF f, g, e, h
<1>9. SumFunctionOnSet(e, DOMAIN t) = SumFunctionOnSet(f, J) /\ IsFiniteSet(J)
  <2> DEFINE K == DOMAIN t
  <2>1. IsFiniteSet(K)
    BY <1>1
  <2>2. \A i, j \in K : h[i] = h[j] => i = j
    BY <1>8
  <2>3. \A i \in K : e[i] = f[h[i]] /\ e[i] \in Nat
    BY <1>7
  <2>4. J = {h[i] : i \in K}
    OBVIOUS
  <2> HIDE DEF J, K
  <2>5. SumFunctionOnSet(e, K) = SumFunctionOnSet(f, {h[i] : i \in K})
    BY <2>1, <2>2, <2>3, SumOfImage
  <2>6. IsFiniteSet({h[i] : i \in K})
    BY <2>1, <2>2, SizeOfImage
  <2>7. QED
    BY <2>4, <2>5, <2>6 DEF K
<1>10. SumFunctionOnSet(f, I) = SumFunctionOnSet(g, I)
  BY <1>1, <1>6, SumOfSame
<1>11. \A j \in J : f[j] \in Nat
  BY <1>7
<1> HIDE DEF I, J
<1>12. SumFunctionOnSet(f, I \cup J) = SumFunctionOnSet(f, I) + SumFunctionOnSet(f, J)
  BY <1>1, <1>5, <1>6, <1>9, <1>11, SumOfUnion
<1>13. /\ Total(s \o t, val) = SumFunctionOnSet(f, I \cup J)
       /\ Total(s, val) = SumFunctionOnSet(g, I)
       /\ Total(t, val) = SumFunctionOnSet(e, DOMAIN t)
  BY <1>1, <1>4 DEF Total, f, g, e
<1>14. QED
  BY <1>9, <1>10, <1>12, <1>13

AreFlat(flat, seqs, n) ==
    flat = [i \in 1..n |-> IF i = 1 THEN seqs[i] ELSE flat[i - 1] \o seqs[i]]

LEMMA FlatExists ==
    ASSUME NEW seqs, NEW n \in Nat
    PROVE  \E flat : AreFlat(flat, seqs, n)
<1> DEFINE T == {m \in Nat : \E flat : AreFlat(flat, seqs, m)}
<1>1. 0 \in T
  <2> DEFINE flat == [i \in 1..0 |-> seqs[i]]
  <2>1. AreFlat(flat, seqs, 0)
    BY DEF AreFlat
  <2>2. QED
    BY <2>1
<1>2. ASSUME NEW m \in Nat, m \in T
      PROVE  m + 1 \in T
  <2>1. PICK flat : AreFlat(flat, seqs, m)
    BY <1>2
  <2> DEFINE next == [i \in 1..(m + 1) |->
                         IF i = m + 1 THEN IF m = 0 THEN seqs[1] ELSE flat[m] \o seqs[m + 1]
                         ELSE flat[i]]
  <2>2. \A i \in 1..m : flat[i] = IF i = 1 THEN seqs[i] ELSE flat[i - 1] \o seqs[i]
    BY <2>1 DEF AreFlat
  <2>3. \A i \in 1..(m + 1) :
            next[i] = IF i = 1 THEN seqs[i] ELSE next[i - 1] \o seqs[i]
    BY <2>2
  <2>4. next = [i \in 1..(m + 1) |-> IF i = 1 THEN seqs[i] ELSE next[i - 1] \o seqs[i]]
    BY <2>3
  <2>5. AreFlat(next, seqs, m + 1)
    <3> HIDE DEF next
    <3>1. QED
      BY <2>4 DEF AreFlat
  <2>6. QED
    BY <2>5
<1> HIDE DEF T
<1>3. n \in T
  BY <1>1, <1>2, NumbersFrom
<1>4. QED
  BY <1>3 DEF T

\* Sequences strung together have the elements and the sums of all of them.
LEMMA TotalOfFlattened ==
    ASSUME NEW S, NEW seqs \in Seq(Seq(S))
    PROVE  /\ FlattenSeq(seqs) \in Seq(S)
           /\ \A val \in [S -> Nat] :
                  Total(FlattenSeq(seqs), val)
                      = SumFunction([w \in DOMAIN seqs |-> Total(seqs[w], val)])
<1>1. /\ Len(seqs) \in Nat /\ DOMAIN seqs = 1..Len(seqs) /\ IsFiniteSet(DOMAIN seqs)
      /\ \A w \in DOMAIN seqs : seqs[w] \in Seq(S)
  BY SequenceDomain
<1> DEFINE of(val) == [w \in DOMAIN seqs |-> Total(seqs[w], val)]
<1>2. \A val \in [S -> Nat] : \A w \in DOMAIN seqs : of(val)[w] = Total(seqs[w], val)
                                                     /\ of(val)[w] \in Nat
  BY <1>1, TotalType
<1>3. CASE Len(seqs) = 0
  <2>1. seqs = << >>
    BY <1>3, EmptySeq
  <2>2. FlattenSeq(seqs) = << >>
    BY <1>3, <2>1 DEF FlattenSeq
  <2>3. << >> \in Seq(S) /\ DOMAIN << >> = {} /\ DOMAIN seqs = {}
    BY <1>1, <1>3, EmptySeq
  <2>4. \A val : Total(FlattenSeq(seqs), val) = 0
    BY <2>2, <2>3, SumOfNone DEF Total
  <2>5. \A val : SumFunctionOnSet(of(val), DOMAIN seqs) = 0
    BY <2>3, SumOfNone
  <2>6. \A val : SumFunction(of(val)) = SumFunctionOnSet(of(val), DOMAIN seqs)
    BY DEF SumFunction
  <2>7. QED
    BY <2>2, <2>3, <2>4, <2>5, <2>6
<1>4. CASE Len(seqs) # 0
  <2> DEFINE flat == CHOOSE flat : AreFlat(flat, seqs, Len(seqs))
  <2>1. AreFlat(flat, seqs, Len(seqs))
    BY <1>1, FlatExists
  <2>2. FlattenSeq(seqs) = flat[Len(seqs)]
    BY <1>4 DEF FlattenSeq, AreFlat
  <2> HIDE DEF flat
  <2>3. \A i \in 1..Len(seqs) : flat[i] = IF i = 1 THEN seqs[i] ELSE flat[i - 1] \o seqs[i]
    BY <2>1 DEF AreFlat
  <2> DEFINE P(n) == /\ flat[n] \in Seq(S)
                     /\ \A val \in [S -> Nat] :
                            Total(flat[n], val) = SumFunctionOnSet(of(val), 1..n)
             T == {n \in Nat : \A m \in 1..Len(seqs) : m = n + 1 => P(m)}
  <2>4. 0 \in T
    <3> SUFFICES P(1)
      <4> HIDE DEF P
      <4>1. QED
        OBVIOUS
    <3>1. flat[1] = seqs[1] /\ seqs[1] \in Seq(S) /\ 1 \in DOMAIN seqs
      BY <1>1, <1>4, <2>3
    <3>2. ASSUME NEW val \in [S -> Nat]
          PROVE  Total(flat[1], val) = SumFunctionOnSet(of(val), 1..1)
      <4>1. of(val)[1] = Total(seqs[1], val) /\ of(val)[1] \in Nat
        BY <1>2, <3>1
      <4> HIDE DEF of
      <4>2. 1..1 = {} \cup {1}
        OBVIOUS
      <4>3. SumFunctionOnSet(of(val), {} \cup {1}) = of(val)[1] + SumFunctionOnSet(of(val), {})
        BY <4>1, FS_EmptySet, SumAdding
      <4>4. QED
        BY <3>1, <4>1, <4>2, <4>3, SumOfNone
    <3>3. QED
      BY <3>1, <3>2
  <2>5. ASSUME NEW n \in Nat, n \in T
        PROVE  n + 1 \in T
    <3> SUFFICES ASSUME NEW m \in 1..Len(seqs), m = (n + 1) + 1
                 PROVE  P(m)
      <4> HIDE DEF P
      <4>1. QED
        OBVIOUS
    <3>1. m = (n + 1) + 1 /\ m - 1 = n + 1 /\ m # 1 /\ m \in DOMAIN seqs /\ m \in 1..Len(seqs)
          /\ n + 1 \in 1..Len(seqs)
      BY <1>1
    <3>2. P(n + 1)
      <4> HIDE DEF P
      <4>1. QED
        BY <2>5, <3>1
    <3>3. flat[m] = flat[n + 1] \o seqs[m] /\ seqs[m] \in Seq(S)
      BY <1>1, <2>3, <3>1
    <3>4. flat[m] \in Seq(S)
      BY <3>2, <3>3, ConcatProperties
    <3>5. ASSUME NEW val \in [S -> Nat]
          PROVE  Total(flat[m], val) = SumFunctionOnSet(of(val), 1..m)
      <4>1. Total(flat[m], val) = Total(flat[n + 1], val) + Total(seqs[m], val)
        BY <3>2, <3>3, TotalOfConcat
      <4>2. Total(flat[n + 1], val) = SumFunctionOnSet(of(val), 1..(n + 1))
        BY <3>2
      <4>3. of(val)[m] = Total(seqs[m], val)
        BY <1>2, <3>1
      <4> HIDE DEF of
      <4>4. \A i \in 1..m : of(val)[i] \in Nat
        <5>1. \A i \in 1..m : i \in DOMAIN seqs
          BY <1>1, <3>1
        <5>2. QED
          BY <1>2, <5>1
      <4>5. 1..m = (1..(n + 1)) \cup {m} /\ m \notin 1..(n + 1)
        BY <3>1
      <4>6. IsFiniteSet(1..(n + 1))
        BY FS_Interval
      <4>7. SumFunctionOnSet(of(val), (1..(n + 1)) \cup {m})
                = of(val)[m] + SumFunctionOnSet(of(val), 1..(n + 1))
        BY <4>4, <4>5, <4>6, SumAdding
      <4>8. of(val)[m] \in Nat /\ SumFunctionOnSet(of(val), 1..(n + 1)) \in Nat
        BY <4>4, <4>5, <4>6, <3>1, SumOfNumbers
      <4>9. SumFunctionOnSet(of(val), 1..m)
                = of(val)[m] + SumFunctionOnSet(of(val), 1..(n + 1))
        BY <4>5, <4>7
      <4>10. Total(flat[m], val) = SumFunctionOnSet(of(val), 1..(n + 1)) + of(val)[m]
        BY <4>1, <4>2, <4>3
      <4>11. QED
        BY <4>8, <4>9, <4>10
    <3>6. QED
      BY <3>1, <3>4, <3>5
  <2> HIDE DEF T
  <2>6. \A n \in Nat : n \in T
    BY <2>4, <2>5, NumbersFrom
  <2>7. P(Len(seqs))
    <3>1. Len(seqs) - 1 \in Nat /\ (Len(seqs) - 1) + 1 = Len(seqs)
      BY <1>1, <1>4
    <3>2. Len(seqs) - 1 \in T
      BY <2>6, <3>1
    <3>3. Len(seqs) \in 1..Len(seqs)
      BY <1>1, <1>4
    <3> HIDE DEF P
    <3>4. QED
      BY <3>1, <3>2, <3>3 DEF T
  <2>8. \A val : SumFunction(of(val)) = SumFunctionOnSet(of(val), 1..Len(seqs))
    BY <1>1 DEF SumFunction
  <2>9. QED
    BY <2>2, <2>7, <2>8
<1>5. QED
  BY <1>3, <1>4

Onto(h, J, I) == {h[j] : j \in J} = I /\ \A i, j \in J : h[i] = h[j] => i = j

LEMMA SumOnto ==
    ASSUME NEW J, IsFiniteSet(J), NEW I, NEW h, Onto(h, J, I), NEW f, NEW g,
           \A j \in J : g[j] = f[h[j]] /\ g[j] \in Nat
    PROVE  SumFunctionOnSet(g, J) = SumFunctionOnSet(f, I)
<1>1. I = {h[j] : j \in J}
  BY DEF Onto
<1>2. \A i, j \in J : h[i] = h[j] => i = j
  BY DEF Onto
<1>3. SumFunctionOnSet(g, J) = SumFunctionOnSet(f, {h[j] : j \in J})
  BY <1>2, SumOfImage
<1>4. QED
  BY <1>1, <1>3

LEMMA TotalOfRearranged ==
    ASSUME NEW s, NEW q, NEW h, Rearranged(s, q, h), IsFiniteSet(DOMAIN s),
           NEW val, \A i \in DOMAIN s : val[s[i]] \in Nat
    PROVE  Total(q, val) = Total(s, val)
<1> DEFINE a == [i \in DOMAIN s |-> val[s[i]]]
           b == [i \in DOMAIN s |-> val[q[i]]]
           K == DOMAIN s
<1>1. DOMAIN q = K /\ \A n \in K : q[n] = s[h[n]] /\ h[n] \in K
  BY DEF Rearranged
<1>2. Total(q, val) = SumFunctionOnSet(b, K) /\ Total(s, val) = SumFunctionOnSet(a, K)
  BY <1>1 DEF Total
<1>3. \A n \in K : b[n] = a[h[n]] /\ b[n] \in Nat
  BY <1>1
<1>4. Onto(h, K, K)
  BY DEF Rearranged, Onto
<1>5. IsFiniteSet(K)
  OBVIOUS
<1> HIDE DEF a, b, K
<1>6. SumFunctionOnSet(b, K) = SumFunctionOnSet(a, K)
  BY <1>3, <1>4, <1>5, SumOnto
<1>7. QED
  BY <1>2, <1>6

LEMMA SortedFacts ==
    ASSUME NEW S, NEW s \in Seq(S), NEW keys \in Seq(Nat), DOMAIN keys = DOMAIN s
    PROVE  /\ SortedBy(s, keys) \in Seq(S) /\ Len(SortedBy(s, keys)) = Len(s)
           /\ DOMAIN SortedBy(s, keys) = DOMAIN s
           /\ \A n \in DOMAIN s : /\ Nth(keys, n) \in DOMAIN s
                                  /\ SortedBy(s, keys)[n] = s[Nth(keys, n)]
           /\ \A val \in [S -> Nat] : Total(SortedBy(s, keys), val) = Total(s, val)
<1> DEFINE D == DOMAIN s
           q == SortedBy(s, keys)
<1>1. /\ D = 1..Len(s) /\ Len(s) \in Nat /\ IsFiniteSet(D) /\ \A i \in D : s[i] \in S
  BY SequenceDomain
<1>2. q = [n \in D |-> s[Nth(keys, n)]]
  BY SortedIs
<1>3. \A n \in D : Nth(keys, n) \in D
  BY PlacesTaken
<1>4. q \in Seq(S) /\ Len(q) = Len(s)
  <2>1. q = [n \in 1..Len(s) |-> s[Nth(keys, n)]]
    BY <1>1, <1>2
  <2>2. \A n \in 1..Len(s) : s[Nth(keys, n)] \in S
    BY <1>1, <1>3
  <2> HIDE DEF q
  <2>3. QED
    BY <1>1, <2>1, <2>2, IsASeq
<1>5. /\ {Nth(keys, n) : n \in D} = D
      /\ \A m, n \in D : Nth(keys, m) = Nth(keys, n) => m = n
  BY OrderOfKeys
<1>6. DOMAIN q = D /\ \A n \in D : q[n] = s[Nth(keys, n)]
  BY <1>2
<1>7. Rearranged(s, q, [n \in D |-> Nth(keys, n)])
  BY <1>5, <1>6 DEF Rearranged
<1> HIDE DEF q
<1>8. ASSUME NEW val \in [S -> Nat]
      PROVE  Total(q, val) = Total(s, val)
  <2>1. \A i \in DOMAIN s : val[s[i]] \in Nat
    BY <1>1
  <2>2. IsFiniteSet(DOMAIN s)
    BY <1>1
  <2>3. QED
    BY <1>7, <2>1, <2>2, TotalOfRearranged
<1>9. QED
  BY <1>3, <1>4, <1>6, <1>8 DEF q

LEMMA SortedValues ==
    ASSUME NEW values \in Seq(Nat)
    PROVE  /\ Sorted(values) \in Seq(Nat) /\ Len(Sorted(values)) = Len(values)
           /\ \A m, n \in 1..Len(values) : m <= n => Sorted(values)[m] <= Sorted(values)[n]
           /\ \A val \in [Nat -> Nat] : Total(Sorted(values), val) = Total(values, val)
<1>1. DOMAIN values = 1..Len(values)
  BY SequenceDomain
<1>2. /\ Sorted(values) \in Seq(Nat) /\ Len(Sorted(values)) = Len(values)
      /\ \A n \in DOMAIN values : Sorted(values)[n] = values[Nth(values, n)]
      /\ \A val \in [Nat -> Nat] : Total(Sorted(values), val) = Total(values, val)
  BY SortedFacts DEF Sorted
<1>3. \A m, n \in DOMAIN values : m <= n => values[Nth(values, m)] <= values[Nth(values, n)]
  BY OrderOfKeys
<1>4. QED
  BY <1>1, <1>2, <1>3

-----------------------------------------------------------------------------
(* The distribution of some latencies *)

LEMMA Times ==
    ASSUME NEW a \in Nat, NEW b \in Nat, NEW c \in Nat, a <= b
    PROVE  a * c \in Nat /\ a * c <= b * c
<1>1. a * c \in Nat /\ (b - a) * c \in Nat
  OBVIOUS
<1>2. b * c = a * c + (b - a) * c
  OBVIOUS
<1>3. QED
  BY <1>1, <1>2

LEMMA Division ==
    ASSUME NEW a \in Nat, NEW d \in Nat \ {0}
    PROVE  a \div d \in Nat /\ d * (a \div d) <= a /\ a < d * (a \div d) + d
OBVIOUS

Low(values, k) == (k - 1) * BucketSize(values)

High(values, k) == Least(k * BucketSize(values), Len(values))

ChunkCount(values) == (Len(values) + BucketSize(values) - 1) \div BucketSize(values)

\* Chunks are adjacent pieces, all but the last of the full size, that cover everything.
LEMMA ChunkPlaces ==
    ASSUME NEW values \in Seq(Nat)
    PROVE  /\ BucketSize(values) \in Nat \ {0} /\ ChunkCount(values) \in Nat
           /\ Len(values) <= ChunkCount(values) * BucketSize(values)
           /\ Len(values) = 0 => ChunkCount(values) = 0
           /\ \A k \in 1..ChunkCount(values) :
                  /\ Low(values, k) \in Nat /\ High(values, k) \in Nat
                  /\ k * BucketSize(values) = Low(values, k) + BucketSize(values)
                  /\ Low(values, k) < High(values, k)
                  /\ High(values, k) <= Low(values, k) + BucketSize(values)
                  /\ High(values, k) <= Len(values)
                  /\ k < ChunkCount(values) => High(values, k) = k * BucketSize(values)
           /\ \A j, k \in 1..ChunkCount(values) : j < k => High(values, j) <= Low(values, k)
<1> DEFINE n == Len(values)
           size == BucketSize(values)
           m == ChunkCount(values)
<1>1. n \in Nat
  BY SequenceDomain
<1>2. size \in Nat \ {0}
  <2>1. Buckets \in Nat \ {0}
    BY LatencyDigestAssumption
  <2>2. n \div Buckets \in Nat
    BY <1>1, <2>1, Division
  <2>3. QED
    BY <2>2 DEF BucketSize, Greatest
<1>3. m = (n + size - 1) \div size
  BY DEF ChunkCount
<1>4. \A k \in Nat : Low(values, k) = (k - 1) * size /\ High(values, k) = Least(k * size, n)
  BY DEF Low, High
<1> HIDE DEF n, size, m
<1>5. n + size - 1 \in Nat
  BY <1>1, <1>2
<1>6. m \in Nat /\ size * m <= n + size - 1 /\ n + size - 1 < size * m + size
  BY <1>2, <1>3, <1>5, Division
<1>7. size * m = m * size /\ m * size \in Nat
  BY <1>2, <1>6
<1>8. n <= m * size
  BY <1>1, <1>2, <1>6, <1>7
<1>9. n = 0 => m = 0
  <2> SUFFICES ASSUME n = 0, m # 0
               PROVE  FALSE
    OBVIOUS
  <2>1. 1 * size <= m * size
    BY <1>2, <1>6, Times
  <2>2. QED
    BY <1>2, <1>6, <1>7, <2>1
<1>10. ASSUME NEW k \in 1..m
       PROVE  /\ Low(values, k) \in Nat /\ High(values, k) \in Nat
              /\ k * size = Low(values, k) + size
              /\ Low(values, k) < High(values, k)
              /\ High(values, k) <= Low(values, k) + size
              /\ High(values, k) <= n
              /\ k < m => High(values, k) = k * size
  <2>1. k \in Nat /\ k - 1 \in Nat /\ k <= m
    BY <1>6
  <2>2. (k - 1) * size \in Nat /\ k * size = (k - 1) * size + size
    BY <1>2, <2>1
  <2>3. k * size <= m * size
    BY <1>2, <1>6, <2>1, Times
  <2>4. (k - 1) * size < n
    BY <1>1, <1>2, <1>6, <1>7, <2>2, <2>3
  <2>5. k < m => k * size < n
    <3> SUFFICES ASSUME k < m
                 PROVE  k * size < n
      OBVIOUS
    <3>1. k + 1 \in Nat /\ k + 1 <= m
      BY <1>6, <2>1
    <3>2. (k + 1) * size <= m * size
      BY <1>2, <1>6, <3>1, Times
    <3>3. (k + 1) * size = k * size + size
      BY <1>2, <2>1
    <3>4. QED
      BY <1>1, <1>2, <1>6, <1>7, <2>2, <3>2, <3>3
  <2>6. k * size \in Nat
    BY <1>2, <2>2
  <2>7. CASE k * size < n
    <3>1. Low(values, k) = (k - 1) * size /\ High(values, k) = k * size
      BY <1>4, <2>1, <2>7 DEF Least
    <3>2. QED
      BY <1>1, <1>2, <2>2, <2>4, <2>6, <2>7, <3>1
  <2>8. CASE ~(k * size < n)
    <3>1. Low(values, k) = (k - 1) * size /\ High(values, k) = n
      BY <1>4, <2>1, <2>8 DEF Least
    <3>2. QED
      BY <1>1, <1>2, <2>2, <2>4, <2>5, <2>6, <2>8, <3>1
  <2>9. QED
    BY <2>7, <2>8
<1>11. ASSUME NEW j \in 1..m, NEW k \in 1..m, j < k
       PROVE  High(values, j) <= Low(values, k)
  <2>1. j \in Nat /\ k - 1 \in Nat /\ j <= k - 1 /\ k \in Nat
    BY <1>6, <1>11
  <2>2. j * size <= (k - 1) * size /\ j * size \in Nat /\ (k - 1) * size \in Nat
    <3>1. size \in Nat
      BY <1>2
    <3> DEFINE i == k - 1
    <3>2. i \in Nat /\ j \in Nat /\ j <= i
      BY <2>1
    <3> HIDE DEF i
    <3>3. j * size <= i * size /\ j * size \in Nat
      BY <3>1, <3>2, Times
    <3>4. i * size \in Nat
      BY <3>1, <3>2, Times
    <3>5. QED
      BY <3>3, <3>4 DEF i
  <2>3. High(values, j) <= j * size
    BY <1>1, <1>4, <2>1, <2>2 DEF Least
  <2>4. High(values, j) \in Nat
    BY <1>10
  <2>5. QED
    BY <1>4, <2>1, <2>2, <2>3, <2>4
<1>12. QED
  BY <1>2, <1>6, <1>8, <1>9, <1>10, <1>11 DEF n, size, m

\* A mean lies between the least and the greatest of the numbers.
LEMMA MeanBetween ==
    ASSUME NEW c \in Nat \ {0}, NEW s, DOMAIN s = 1..c, NEW lo \in Nat, NEW hi \in Nat,
           \A i \in 1..c : s[i] \in Nat /\ lo <= s[i] /\ s[i] <= hi
    PROVE  /\ SumFunction(s) \div c \in Nat
           /\ lo <= SumFunction(s) \div c /\ SumFunction(s) \div c <= hi
<1> DEFINE I == 1..c
           low == [i \in I |-> lo]
           high == [i \in I |-> hi]
           sum == SumFunction(s)
           mean == sum \div c
<1>1. IsFiniteSet(I) /\ Cardinality(I) = c
  BY FS_Interval
<1>2. sum = SumFunctionOnSet(s, I)
  BY DEF SumFunction
<1>3. \A i \in I : s[i] \in Nat /\ lo <= s[i] /\ s[i] <= hi /\ low[i] = lo /\ high[i] = hi
  OBVIOUS
<1> HIDE DEF I, low, high, sum
<1>4. SumFunctionOnSet(low, I) = lo * c /\ SumFunctionOnSet(high, I) = hi * c
  <2>1. \A i \in I : low[i] = lo
    BY <1>3
  <2>2. \A i \in I : high[i] = hi
    BY <1>3
  <2>3. SumFunctionOnSet(low, I) = lo * Cardinality(I)
    BY <1>1, <2>1, SumOfConstant
  <2>4. SumFunctionOnSet(high, I) = hi * Cardinality(I)
    BY <1>1, <2>2, SumOfConstant
  <2>5. QED
    BY <1>1, <2>3, <2>4
<1>5. SumFunctionOnSet(low, I) <= SumFunctionOnSet(s, I)
  <2>1. \A i \in I : low[i] \in Nat /\ s[i] \in Nat /\ low[i] <= s[i]
    BY <1>3
  <2>2. QED
    BY <1>1, <2>1, SumMonotone
<1>6. SumFunctionOnSet(s, I) <= SumFunctionOnSet(high, I)
  <2>1. \A i \in I : s[i] \in Nat /\ high[i] \in Nat /\ s[i] <= high[i]
    BY <1>3
  <2>2. QED
    BY <1>1, <2>1, SumMonotone
<1>7. sum \in Nat
  <2>1. \A i \in I : s[i] \in Nat
    BY <1>3
  <2>2. QED
    BY <1>1, <1>2, <2>1, SumOfNumbers
<1>8. lo * c <= sum /\ sum <= hi * c
  BY <1>2, <1>4, <1>5, <1>6
<1>9. mean \in Nat /\ c * mean <= sum /\ sum < c * mean + c
  BY <1>7, Division
<1> HIDE DEF mean
<1>10. lo <= mean
  <2> SUFFICES ASSUME mean + 1 <= lo
               PROVE  FALSE
    BY <1>9
  <2>1. (mean + 1) * c <= lo * c
    BY <1>9, Times
  <2>2. (mean + 1) * c = c * mean + c
    BY <1>9
  <2>3. c * mean \in Nat /\ lo * c \in Nat
    BY <1>9
  <2>4. QED
    BY <1>7, <1>8, <1>9, <2>1, <2>2, <2>3
<1>11. mean <= hi
  <2> SUFFICES ASSUME hi + 1 <= mean
               PROVE  FALSE
    BY <1>9
  <2>1. (hi + 1) * c <= mean * c
    BY <1>9, Times
  <2>2. (hi + 1) * c = hi * c + c /\ mean * c = c * mean
    BY <1>9
  <2>3. c * mean \in Nat /\ hi * c \in Nat
    BY <1>9
  <2>4. QED
    BY <1>7, <1>8, <1>9, <2>1, <2>2, <2>3
<1>12. QED
  BY <1>9, <1>10, <1>11 DEF mean, sum

Centroid == [mean : Nat, count : Nat \ {0}]

LEMMA DistributionFacts ==
    ASSUME NEW values \in Seq(Nat)
    PROVE  /\ Distribution(values).centroids \in Seq(Centroid)
           /\ Len(Distribution(values).centroids) = ChunkCount(values)
           /\ \A k \in 1..ChunkCount(values) :
                  LET c == Distribution(values).centroids[k]
                  IN  /\ c.count = High(values, k) - Low(values, k)
                      /\ Sorted(values)[Low(values, k) + 1] <= c.mean
                      /\ c.mean <= Sorted(values)[High(values, k)]
           /\ Distribution(values).max \in Nat
           /\ values # << >> => Distribution(values).max = Sorted(values)[Len(values)]
<1> DEFINE n == Len(values)
           m == ChunkCount(values)
           sorted == Sorted(values)
           low(k) == Low(values, k)
           high(k) == High(values, k)
           chunk(k) == SubSeq(sorted, low(k) + 1, high(k))
           q == Distribution(values).centroids
<1>1. /\ sorted \in Seq(Nat) /\ Len(sorted) = n /\ n \in Nat
      /\ \A i, j \in 1..n : i <= j => sorted[i] <= sorted[j]
      /\ \A i \in 1..n : sorted[i] \in Nat
  BY SortedValues, SequenceDomain
<1>2. /\ m \in Nat
      /\ \A k \in 1..m : low(k) \in Nat /\ high(k) \in Nat /\ low(k) < high(k) /\ high(k) <= n
  BY ChunkPlaces
<1>3. Chunks(values) = [k \in 1..m |-> chunk(k)]
  BY DEF Chunks, ChunkCount, Low, High
<1> HIDE DEF n, m, sorted, low, high
<1>4. ASSUME NEW k \in 1..m
      PROVE  LET c == high(k) - low(k)
             IN  /\ c \in Nat \ {0} /\ Len(chunk(k)) = c
                 /\ SumFunction(chunk(k)) \div c \in Nat
                 /\ sorted[low(k) + 1] <= SumFunction(chunk(k)) \div c
                 /\ SumFunction(chunk(k)) \div c <= sorted[high(k)]
  <2> DEFINE c == high(k) - low(k)
             lo == sorted[low(k) + 1]
             hi == sorted[high(k)]
             s == chunk(k)
  <2>1. low(k) \in Nat /\ high(k) \in Nat /\ low(k) < high(k) /\ high(k) <= n
    BY <1>2
  <2>2. /\ c \in Nat \ {0} /\ low(k) + 1 \in 1..n /\ high(k) \in 1..n
        /\ \A i \in 1..c : low(k) + i \in 1..n /\ low(k) + 1 <= low(k) + i /\ low(k) + i <= high(k)
    BY <1>1, <2>1
  <2>3. Len(s) = c /\ DOMAIN s = 1..c /\ \A i \in 1..c : s[i] = sorted[low(k) + i]
    <3>1. /\ Len(s) = IF low(k) + 1 <= high(k) THEN high(k) - (low(k) + 1) + 1 ELSE 0
          /\ s \in Seq(Nat)
          /\ \A i \in 1 .. (high(k) - (low(k) + 1) + 1) : s[i] = sorted[(low(k) + 1) + i - 1]
      <4> DEFINE a == low(k) + 1
                 b == high(k)
      <4>1. a \in Int /\ b \in Int /\ \A i \in a..b : sorted[i] \in Nat
        BY <1>1, <2>1
      <4>2. s = SubSeq(sorted, a, b)
        OBVIOUS
      <4> HIDE DEF s, a, b
      <4>3. /\ Len(SubSeq(sorted, a, b)) = IF a <= b THEN b - a + 1 ELSE 0
            /\ SubSeq(sorted, a, b) \in Seq(Nat)
            /\ \A i \in 1..(b - a + 1) : SubSeq(sorted, a, b)[i] = sorted[a + i - 1]
        BY <4>1, SubSeqProperties
      <4>4. QED
        BY <4>2, <4>3 DEF a, b
    <3>2. Len(s) = c
      BY <2>1, <3>1
    <3>3. DOMAIN s = 1..Len(s)
      BY <3>1, SequenceDomain
    <3>4. \A i \in 1..c : (low(k) + 1) + i - 1 = low(k) + i
                          /\ i \in 1 .. (high(k) - (low(k) + 1) + 1)
      BY <2>1
    <3>5. QED
      BY <3>1, <3>2, <3>3, <3>4
  <2>4. \A i \in 1..c : s[i] \in Nat /\ lo <= s[i] /\ s[i] <= hi
    BY <1>1, <2>2, <2>3
  <2>5. lo \in Nat /\ hi \in Nat
    BY <1>1, <2>2
  <2> HIDE DEF c, lo, hi, s
  <2>6. /\ SumFunction(s) \div c \in Nat
        /\ lo <= SumFunction(s) \div c /\ SumFunction(s) \div c <= hi
    BY <2>2, <2>3, <2>4, <2>5, MeanBetween
  <2>7. QED
    BY <2>2, <2>3, <2>6 DEF c, lo, hi, s
<1>5. q = [k \in 1..m |-> [mean |-> SumFunction(chunk(k)) \div Len(chunk(k)),
                           count |-> Len(chunk(k))]]
  BY <1>3 DEF Distribution
<1>6. \A k \in 1..m : /\ q[k] \in Centroid /\ q[k].count = high(k) - low(k)
                      /\ sorted[low(k) + 1] <= q[k].mean /\ q[k].mean <= sorted[high(k)]
  <2> SUFFICES ASSUME NEW k \in 1..m
               PROVE  /\ q[k] \in Centroid /\ q[k].count = high(k) - low(k)
                      /\ sorted[low(k) + 1] <= q[k].mean /\ q[k].mean <= sorted[high(k)]
    OBVIOUS
  <2> DEFINE c == high(k) - low(k)
             mean == SumFunction(chunk(k)) \div c
  <2>1. q[k] = [mean |-> mean, count |-> c]
    BY <1>4, <1>5
  <2>2. c \in Nat \ {0} /\ mean \in Nat /\ sorted[low(k) + 1] <= mean /\ mean <= sorted[high(k)]
    BY <1>4
  <2> HIDE DEF q, c, mean
  <2>3. q[k] \in Centroid
    BY <2>1, <2>2 DEF Centroid
  <2>4. q[k].count = c /\ q[k].mean = mean
    BY <2>1
  <2>5. QED
    BY <2>2, <2>3, <2>4 DEF c
<1>7. q \in Seq(Centroid) /\ Len(q) = m
  <2> DEFINE e(k) == [mean |-> SumFunction(chunk(k)) \div Len(chunk(k)),
                      count |-> Len(chunk(k))]
  <2>1. DOMAIN q = 1..m
    BY <1>5
  <2>2. q = [k \in 1..m |-> e(k)]
    BY <1>5
  <2> HIDE DEF q, e
  <2>3. q \in Seq(Centroid)
    <3>1. \A k \in 1..m : e(k) \in Centroid
      BY <1>6, <2>2
    <3>2. [k \in 1..m |-> e(k)] \in Seq(Centroid)
      BY <1>2, <3>1, IsASeq
    <3>3. QED
      BY <2>2, <3>2
  <2>4. DOMAIN q = 1..Len(q) /\ Len(q) \in Nat
    BY <2>3, SequenceDomain
  <2>5. QED
    BY <1>2, <2>1, <2>3, <2>4
<1>8. /\ Distribution(values).max = IF values = << >> THEN 0 ELSE Last(sorted)
      /\ Last(sorted) = sorted[n]
  BY <1>1 DEF Distribution, Last, sorted
<1>9. values # << >> => n \in 1..n
  <2>1. values # << >> => n # 0
    BY EmptySeq DEF n
  <2>2. QED
    BY <1>1, <2>1
<1>10. QED
  BY <1>1, <1>6, <1>7, <1>8, <1>9 DEF m, n, sorted, low, high

LEMMA CountsUpTo ==
    ASSUME NEW values \in Seq(Nat), NEW p \in 0..ChunkCount(values)
    PROVE  SumFunctionOnSet(Counts(Distribution(values).centroids), 1..p)
               = IF p = 0 THEN 0 ELSE High(values, p)
<1> DEFINE q == Distribution(values).centroids
           m == ChunkCount(values)
           f == Counts(q)
           up(r) == IF r = 0 THEN 0 ELSE High(values, r)
           T == {r \in Nat : r <= m => SumFunctionOnSet(f, 1..r) = up(r)}
<1>1. /\ m \in Nat
      /\ \A k \in 1..m : /\ q[k] \in Centroid
                         /\ q[k].count = High(values, k) - Low(values, k)
  <2>1. q \in Seq(Centroid) /\ Len(q) = m
    BY DistributionFacts
  <2>2. DOMAIN q = 1..m /\ m \in Nat /\ \A k \in DOMAIN q : q[k] \in Centroid
    BY <2>1, SequenceDomain
  <2>3. \A k \in 1..m : q[k].count = High(values, k) - Low(values, k)
    BY DistributionFacts
  <2>4. DOMAIN q = 1..m /\ \A k \in 1..m : q[k] \in Centroid
    BY <2>2
  <2>5. QED
    BY <2>2, <2>3, <2>4
<1>2. \A k \in 1..m : f[k] = High(values, k) - Low(values, k) /\ f[k] \in Nat
  <2>1. DOMAIN q = 1..m
    BY DistributionFacts, SequenceDomain
  <2>2. \A k \in 1..m : f[k] = q[k].count
    BY <2>1 DEF Counts
  <2>3. \A k \in 1..m : q[k].count \in Nat
    BY <1>1 DEF Centroid
  <2>4. QED
    BY <1>1, <2>2, <2>3
<1> HIDE DEF q, m, f
<1>3. 0 \in T
  <2>1. 1..0 = {}
    OBVIOUS
  <2>2. QED
    BY <2>1, SumOfNone
<1>4. ASSUME NEW r \in Nat, r \in T
      PROVE  r + 1 \in T
  <2> SUFFICES ASSUME r + 1 <= m
               PROVE  SumFunctionOnSet(f, 1..(r + 1)) = High(values, r + 1)
    OBVIOUS
  <2>1. r + 1 \in 1..m /\ r <= m /\ \A k \in 1..(r + 1) : k \in 1..m
    BY <1>1
  <2>2. 1..(r + 1) = (1..r) \cup {r + 1} /\ r + 1 \notin 1..r
    OBVIOUS
  <2>3. IsFiniteSet(1..r) /\ \A k \in (1..r) \cup {r + 1} : f[k] \in Nat
    <3>1. \A k \in (1..r) \cup {r + 1} : k \in 1..m
      BY <2>1, <2>2
    <3>2. QED
      BY <1>2, <3>1, FS_Interval
  <2>4. SumFunctionOnSet(f, 1..(r + 1)) = f[r + 1] + SumFunctionOnSet(f, 1..r)
    <3> DEFINE R == 1..r
    <3>1. IsFiniteSet(R) /\ r + 1 \notin R /\ \A k \in R \cup {r + 1} : f[k] \in Nat
      BY <2>2, <2>3
    <3>2. 1..(r + 1) = R \cup {r + 1}
      BY <2>2
    <3> HIDE DEF R
    <3>3. SumFunctionOnSet(f, R \cup {r + 1}) = f[r + 1] + SumFunctionOnSet(f, R)
      BY <3>1, SumAdding
    <3>4. QED
      BY <3>2, <3>3 DEF R
  <2>5. SumFunctionOnSet(f, 1..r) = up(r)
    BY <1>4, <2>1
  <2>6. f[r + 1] = High(values, r + 1) - Low(values, r + 1)
    BY <1>2, <2>1
  <2>7. up(r) = Low(values, r + 1)
    <3>1. CASE r = 0
      <4>1. BucketSize(values) \in Nat
        BY ChunkPlaces
      <4>2. Low(values, 1) = 0
        BY <4>1 DEF Low
      <4>3. QED
        BY <3>1, <4>2
    <3>2. CASE r # 0
      <4>1. r \in 1..ChunkCount(values) /\ r < ChunkCount(values)
        BY <1>1, <2>1, <3>2 DEF m
      <4>2. High(values, r) = r * BucketSize(values)
        BY <4>1, ChunkPlaces
      <4>3. Low(values, r + 1) = r * BucketSize(values)
        BY DEF Low
      <4>4. QED
        BY <3>2, <4>2, <4>3
    <3>3. QED
      BY <3>1, <3>2
  <2>8. Low(values, r + 1) \in Nat /\ High(values, r + 1) \in Nat
    BY <2>1, ChunkPlaces DEF m
  <2>9. QED
    BY <2>4, <2>5, <2>6, <2>7, <2>8
<1>5. \A r \in Nat : r \in T
  <2> HIDE DEF T
  <2>1. QED
    BY <1>3, <1>4, NumbersFrom
<1>6. p \in Nat /\ p <= m
  BY <1>1 DEF m
<1>7. SumFunctionOnSet(f, 1..p) = up(p)
  BY <1>5, <1>6
<1>8. QED
  BY <1>7 DEF f, q

\* What is below a threshold in an ordered sequence comes first.
LEMMA BelowComesFirst ==
    ASSUME NEW n \in Nat, NEW s, NEW t \in Nat,
           \A i \in 1..n : s[i] \in Nat,
           \A i, j \in 1..n : i <= j => s[i] <= s[j]
    PROVE  \E a \in 0..n : \A i \in 1..n : s[i] < t <=> i <= a
<1> DEFINE T == {i \in 1..(n + 1) : i = n + 1 \/ ~(s[i] < t)}
<1>1. T \subseteq Nat /\ n + 1 \in T
  OBVIOUS
<1>2. PICK i \in T : \A j \in T : i <= j
  BY <1>1, LeastNumber
<1>3. i - 1 \in 0..n /\ i \in Nat
  BY <1>1, <1>2
<1>4. ASSUME NEW j \in 1..n
      PROVE  s[j] < t <=> j <= i - 1
  <2>1. CASE j <= i - 1
    <3>1. j \notin T
      BY <1>2, <1>3, <2>1
    <3>2. QED
      BY <2>1, <3>1
  <2>2. CASE ~(j <= i - 1)
    <3>1. i \in 1..n /\ i <= j
      BY <1>3, <2>2
    <3>2. ~(s[i] < t) /\ s[i] <= s[j]
      BY <1>2, <3>1
    <3>3. s[i] \in Nat /\ s[j] \in Nat
      BY <3>1
    <3>4. QED
      BY <2>2, <3>2, <3>3
  <2>3. QED
    BY <2>1, <2>2
<1>5. QED
  BY <1>3, <1>4

Below(t) == [v \in Nat |-> IF v < t THEN 1 ELSE 0]

Weight(t) == [c \in Centroid |-> IF c.mean < t THEN c.count ELSE 0]

LEMMA BelowType ==
    ASSUME NEW t \in Nat
    PROVE  Below(t) \in [Nat -> Nat] /\ Weight(t) \in [Centroid -> Nat]
BY DEF Below, Weight, Centroid

LEMMA BelowInOrder ==
    ASSUME NEW values \in Seq(Nat), NEW t \in Nat, NEW a \in 0..Len(values),
           \A i \in 1..Len(values) : Sorted(values)[i] < t <=> i <= a
    PROVE  Total(values, Below(t)) = a
<1> DEFINE n == Len(values)
           s == Sorted(values)
           f == [i \in 1..n |-> Below(t)[s[i]]]
<1>1. /\ s \in Seq(Nat) /\ Len(s) = n /\ n \in Nat /\ DOMAIN s = 1..n
      /\ \A i \in 1..n : s[i] \in Nat
      /\ Total(s, Below(t)) = Total(values, Below(t))
  BY SortedValues, SequenceDomain, BelowType
<1>2. \A i \in 1..n : f[i] = IF i \in 1..a THEN 1 ELSE 0
  BY <1>1 DEF Below
<1>3. Total(s, Below(t)) = SumFunctionOnSet(f, 1..n)
  BY <1>1 DEF Total
<1> HIDE DEF n, s, f
<1>4. IsFiniteSet(1..n) /\ 1..a \in SUBSET (1..n) /\ a \in Nat
  <2>1. a \in Nat /\ a <= n
    BY <1>1 DEF n
  <2>2. \A i \in 1..a : i \in 1..n
    BY <1>1, <2>1
  <2>3. QED
    BY <1>1, <2>1, <2>2, FS_Interval
<1>5. SumFunctionOnSet(f, 1..n) = Cardinality(1..a)
  BY <1>2, <1>4, SizeIsSum
<1>6. Cardinality(1..a) = a
  BY <1>4, FS_Interval
<1>7. QED
  BY <1>1, <1>3, <1>5, <1>6

LEMMA WeightInOrder ==
    ASSUME NEW values \in Seq(Nat), NEW t \in Nat, NEW p \in 0..ChunkCount(values),
           \A k \in 1..ChunkCount(values) :
               Distribution(values).centroids[k].mean < t <=> k <= p
    PROVE  Total(Distribution(values).centroids, Weight(t))
               = IF p = 0 THEN 0 ELSE High(values, p)
<1> DEFINE m == ChunkCount(values)
           q == Distribution(values).centroids
           f == [k \in 1..m |-> Weight(t)[q[k]]]
           e == Counts(q)
<1>1. /\ q \in Seq(Centroid) /\ Len(q) = m /\ m \in Nat /\ DOMAIN q = 1..m
      /\ \A k \in 1..m : q[k] \in Centroid
  <2>1. q \in Seq(Centroid) /\ Len(q) = m
    BY DistributionFacts
  <2>2. DOMAIN q = 1..Len(q) /\ Len(q) \in Nat /\ \A k \in DOMAIN q : q[k] \in Centroid
    BY <2>1, SequenceDomain
  <2>3. QED
    BY <2>1, <2>2
<1>2. \A k \in 1..m : f[k] \in Nat /\ f[k] = IF k <= p THEN e[k] ELSE 0
  <2>1. \A k \in 1..m : f[k] = IF q[k].mean < t THEN q[k].count ELSE 0
    BY <1>1 DEF Weight
  <2>2. \A k \in 1..m : e[k] = q[k].count /\ q[k].count \in Nat
    BY <1>1 DEF Counts, Centroid
  <2>3. QED
    BY <2>1, <2>2
<1>3. Total(q, Weight(t)) = SumFunctionOnSet(f, 1..m)
  BY <1>1 DEF Total
<1>4. SumFunctionOnSet(e, 1..p) = IF p = 0 THEN 0 ELSE High(values, p)
  BY CountsUpTo
<1> HIDE DEF q, f, e
<1>5. p \in Nat /\ p <= m /\ IsFiniteSet(1..m) /\ IsFiniteSet(1..p)
  BY <1>1, FS_Interval
<1>6. 1..p \in SUBSET (1..m) /\ \A k \in (1..m) \ (1..p) : ~(k <= p)
  <2>1. \A k \in 1..p : k \in 1..m
    BY <1>1, <1>5
  <2>2. QED
    BY <1>5, <2>1
<1>7. SumFunctionOnSet(f, 1..p) = SumFunctionOnSet(f, 1..m)
  <2> DEFINE A == 1..m
             B == 1..p
  <2>1. IsFiniteSet(A) /\ B \in SUBSET A /\ \A k \in A : f[k] \in Nat
    BY <1>2, <1>5, <1>6
  <2>2. \A k \in A \ B : f[k] = 0
    BY <1>2, <1>6
  <2> HIDE DEF A, B
  <2>3. SumFunctionOnSet(f, B) = SumFunctionOnSet(f, A)
    BY <2>1, <2>2, SumOfPart
  <2>4. QED
    BY <2>3 DEF A, B
<1>8. SumFunctionOnSet(f, 1..p) = SumFunctionOnSet(e, 1..p)
  <2> DEFINE B == 1..p
  <2>1. IsFiniteSet(B) /\ \A k \in B : f[k] = e[k] /\ f[k] \in Nat
    BY <1>2, <1>5, <1>6
  <2> HIDE DEF B
  <2>2. SumFunctionOnSet(f, B) = SumFunctionOnSet(e, B)
    BY <2>1, SumOfSame
  <2>3. QED
    BY <2>2 DEF B
<1>9. QED
  BY <1>3, <1>4, <1>7, <1>8 DEF q

LEMMA MeansInOrder ==
    ASSUME NEW values \in Seq(Nat),
           NEW j \in 1..ChunkCount(values), NEW k \in 1..ChunkCount(values), j <= k
    PROVE  Distribution(values).centroids[j].mean <= Distribution(values).centroids[k].mean
<1> DEFINE mean(i) == Distribution(values).centroids[i].mean
           sorted == Sorted(values)
           m == ChunkCount(values)
<1>1. m \in Nat /\ \A i \in 1..m : mean(i) \in Nat
  <2>1. Distribution(values).centroids \in Seq(Centroid)
        /\ Len(Distribution(values).centroids) = m
    BY DistributionFacts
  <2>2. DOMAIN Distribution(values).centroids = 1..m /\ m \in Nat
        /\ \A i \in DOMAIN Distribution(values).centroids :
               Distribution(values).centroids[i] \in Centroid
    BY <2>1, SequenceDomain
  <2>3. QED
    BY <2>2 DEF Centroid
<1>2. \A i \in 1..m : sorted[Low(values, i) + 1] <= mean(i) /\ mean(i) <= sorted[High(values, i)]
  BY DistributionFacts
<1>3. CASE j = k
  BY <1>1, <1>3
<1>4. CASE j < k
  <2>1. /\ High(values, j) \in Nat /\ Low(values, k) \in Nat /\ High(values, j) <= Low(values, k)
        /\ Low(values, k) < High(values, k) /\ High(values, k) <= Len(values)
        /\ Low(values, j) \in Nat /\ Low(values, j) < High(values, j) /\ High(values, k) \in Nat
    BY <1>4, ChunkPlaces
  <2>2. Len(values) \in Nat
    BY SequenceDomain
  <2>3. /\ High(values, j) \in 1..Len(values) /\ Low(values, k) + 1 \in 1..Len(values)
        /\ High(values, k) \in 1..Len(values) /\ High(values, j) <= Low(values, k) + 1
    BY <2>1, <2>2
  <2>4. sorted[High(values, j)] <= sorted[Low(values, k) + 1]
    BY <2>3, SortedValues
  <2>5. sorted[High(values, j)] \in Nat /\ sorted[Low(values, k) + 1] \in Nat
    <3>1. sorted \in Seq(Nat) /\ Len(sorted) = Len(values)
      BY SortedValues
    <3>2. \A i \in 1..Len(values) : sorted[i] \in Nat
      BY <3>1, SequenceDomain
    <3>3. QED
      BY <2>3, <3>2
  <2>6. mean(j) <= sorted[High(values, j)] /\ sorted[Low(values, k) + 1] <= mean(k)
    BY <1>2
  <2>7. mean(j) \in Nat /\ mean(k) \in Nat
    BY <1>1
  <2>8. QED
    BY <2>4, <2>5, <2>6, <2>7
<1>5. QED
  BY <1>1, <1>3, <1>4

\* Compression shifts the count below a threshold by less than a chunk.
LEMMA CompressionShifts ==
    ASSUME NEW values \in Seq(Nat), NEW t \in Nat
    PROVE  LET below == Total(values, Below(t))
               weight == Total(Distribution(values).centroids, Weight(t))
               slack == BucketSize(values) - 1
           IN  /\ below \in Nat /\ weight \in Nat /\ slack \in Nat
               /\ weight <= below + slack /\ below <= weight + slack
<1> DEFINE n == Len(values)
           m == ChunkCount(values)
           size == BucketSize(values)
           sorted == Sorted(values)
           mean == [k \in 1..m |-> Distribution(values).centroids[k].mean]
<1>1. /\ n \in Nat /\ \A i \in 1..n : sorted[i] \in Nat
      /\ \A i, j \in 1..n : i <= j => sorted[i] <= sorted[j]
  <2>1. sorted \in Seq(Nat) /\ Len(sorted) = n
    BY SortedValues
  <2>2. n \in Nat /\ \A i \in 1..n : sorted[i] \in Nat
    BY <2>1, SequenceDomain
  <2>3. QED
    BY <2>2, SortedValues
<1>2. /\ size \in Nat \ {0} /\ m \in Nat /\ n <= m * size /\ (n = 0 => m = 0)
      /\ \A k \in 1..m : /\ Low(values, k) \in Nat /\ High(values, k) \in Nat
                         /\ Low(values, k) < High(values, k) /\ High(values, k) <= n
                         /\ High(values, k) <= Low(values, k) + size
                         /\ k * size = Low(values, k) + size
                         /\ k < m => High(values, k) = k * size
  BY ChunkPlaces
<1>3. \A k \in 1..m : /\ mean[k] \in Nat /\ sorted[Low(values, k) + 1] <= mean[k]
                      /\ mean[k] <= sorted[High(values, k)]
  <2>1. Distribution(values).centroids \in Seq(Centroid)
        /\ Len(Distribution(values).centroids) = m
    BY DistributionFacts
  <2>2. DOMAIN Distribution(values).centroids = 1..m
        /\ \A i \in DOMAIN Distribution(values).centroids :
               Distribution(values).centroids[i] \in Centroid
    BY <2>1, SequenceDomain
  <2>3. \A k \in 1..m : mean[k] \in Nat
    BY <2>2 DEF Centroid
  <2>4. QED
    BY <2>3, DistributionFacts
<1>4. \A j, k \in 1..m : j <= k => mean[j] <= mean[k]
  BY MeansInOrder
<1>5. PICK a \in 0..n : \A i \in 1..n : sorted[i] < t <=> i <= a
  <2> HIDE DEF n, sorted
  <2>1. QED
    BY <1>1, BelowComesFirst
<1>6. PICK p \in 0..m : \A k \in 1..m : mean[k] < t <=> k <= p
  <2> HIDE DEF m, mean
  <2>1. QED
    BY <1>2, <1>3, <1>4, BelowComesFirst
<1>7. Total(values, Below(t)) = a
  BY <1>5, BelowInOrder
<1>8. Total(Distribution(values).centroids, Weight(t)) = IF p = 0 THEN 0 ELSE High(values, p)
  BY <1>6, WeightInOrder
<1> DEFINE c == IF p = 0 THEN 0 ELSE High(values, p)
<1> HIDE DEF n, m, size, sorted, mean
<1>9. a \in Nat /\ a <= n /\ p \in Nat /\ p <= m
  BY <1>1, <1>2
<1>10. c \in Nat
  BY <1>2, <1>9
<1>11. c <= a + (size - 1)
  <2>1. CASE p = 0
    BY <1>2, <1>9, <2>1
  <2>2. CASE p # 0
    <3>1. p \in 1..m
      BY <1>2, <1>9, <2>2
    <3>2. mean[p] < t /\ mean[p] \in Nat /\ sorted[Low(values, p) + 1] <= mean[p]
      BY <1>3, <1>6, <1>9, <3>1
    <3>3. Low(values, p) + 1 \in 1..n
      BY <1>1, <1>2, <3>1
    <3>4. sorted[Low(values, p) + 1] < t
      BY <1>1, <3>2, <3>3
    <3>5. Low(values, p) + 1 <= a
      BY <1>5, <3>3, <3>4
    <3>6. QED
      BY <1>2, <1>9, <2>2, <3>1, <3>5
  <2>3. QED
    BY <2>1, <2>2
<1>12. a <= c + (size - 1)
  <2>1. CASE p = m
    <3>1. c = n
      <4>1. CASE m = 0
        BY <1>1, <1>2, <2>1, <4>1
      <4>2. CASE m # 0
        <5>1. m \in 1..m /\ High(values, m) = Least(m * size, n)
          BY <1>2, <4>2 DEF High, size, n
        <5>2. m * size \in Nat
          BY <1>2
        <5>3. QED
          BY <1>1, <1>2, <2>1, <4>2, <5>1, <5>2 DEF Least
      <4>3. QED
        BY <4>1, <4>2
    <3>2. QED
      BY <1>1, <1>2, <1>9, <3>1
  <2>2. CASE p # m
    <3>1. p + 1 \in 1..m /\ ~(p + 1 <= p)
      BY <1>2, <1>9, <2>2
    <3>2. ~(mean[p + 1] < t) /\ mean[p + 1] \in Nat /\ mean[p + 1] <= sorted[High(values, p + 1)]
      BY <1>3, <1>6, <3>1
    <3>3. High(values, p + 1) \in 1..n
      BY <1>1, <1>2, <3>1
    <3>4. ~(sorted[High(values, p + 1)] < t)
      BY <1>1, <3>2, <3>3
    <3>5. a < High(values, p + 1)
      BY <1>5, <1>9, <3>3, <3>4
    <3>6. c = p * size
      <4>1. CASE p = 0
        BY <1>2, <4>1
      <4>2. CASE p # 0
        <5>1. p \in 1..m /\ p < m
          BY <1>2, <1>9, <2>2, <4>2
        <5>2. QED
          BY <1>2, <4>2, <5>1
      <4>3. QED
        BY <4>1, <4>2
    <3>7. Low(values, p + 1) = p * size
      BY <1>9 DEF Low, size
    <3>8. High(values, p + 1) \in Nat /\ High(values, p + 1) <= c + size
      BY <1>2, <3>1, <3>6, <3>7
    <3>9. QED
      BY <1>2, <1>9, <1>10, <3>5, <3>8
  <2>3. QED
    BY <2>1, <2>2
<1>13. Total(Distribution(values).centroids, Weight(t)) = c
  BY <1>8
<1> HIDE DEF c
<1>14. size - 1 \in Nat
  BY <1>2
<1>15. QED
  BY <1>7, <1>9, <1>10, <1>11, <1>12, <1>13, <1>14 DEF size

-----------------------------------------------------------------------------
(* The merged distributions *)

LEMMA MergedIs ==
    ASSUME NEW S \in SUBSET Centroid, NEW dists,
           [i \in DOMAIN dists |-> dists[i].centroids] \in Seq(Seq(S))
    PROVE  /\ Merged(dists) \in Seq(S)
           /\ \A i, j \in 1..Len(Merged(dists)) :
                  i <= j => Merged(dists)[i].mean <= Merged(dists)[j].mean
           /\ \A val \in [S -> Nat] :
                  Total(Merged(dists), val)
                      = SumFunction([i \in DOMAIN dists |-> Total(dists[i].centroids, val)])
<1> DEFINE strung == [i \in DOMAIN dists |-> dists[i].centroids]
           all == FlattenSeq(strung)
           keys == [k \in DOMAIN all |-> all[k].mean]
<1>1. Merged(dists) = SortedBy(all, keys)
  BY DEF Merged
<1>2. /\ all \in Seq(S)
      /\ \A val \in [S -> Nat] :
             Total(all, val) = SumFunction([w \in DOMAIN strung |-> Total(strung[w], val)])
  <2> HIDE DEF strung
  <2>1. strung \in Seq(Seq(S))
    BY DEF strung
  <2>2. QED
    BY <2>1, TotalOfFlattened
<1>3. \A val : [w \in DOMAIN strung |-> Total(strung[w], val)]
                   = [i \in DOMAIN dists |-> Total(dists[i].centroids, val)]
  OBVIOUS
<1> HIDE DEF strung, all
<1>4. DOMAIN all = 1..Len(all) /\ Len(all) \in Nat /\ \A k \in DOMAIN all : all[k] \in S
  BY <1>2, SequenceDomain
<1>5. \A k \in DOMAIN all : all[k].mean \in Nat
  BY <1>4 DEF Centroid
<1>6. keys \in Seq(Nat) /\ DOMAIN keys = DOMAIN all /\ \A k \in DOMAIN all : keys[k] = all[k].mean
  <2>1. keys = [k \in 1..Len(all) |-> all[k].mean]
    BY <1>4
  <2>2. \A k \in 1..Len(all) : all[k].mean \in Nat
    BY <1>4, <1>5
  <2>3. [k \in 1..Len(all) |-> all[k].mean] \in Seq(Nat)
    BY <1>4, <2>2, IsASeq
  <2>4. QED
    BY <2>1, <2>3
<1> HIDE DEF keys
<1>7. /\ Merged(dists) \in Seq(S) /\ Len(Merged(dists)) = Len(all)
      /\ \A n \in DOMAIN all : /\ Nth(keys, n) \in DOMAIN all
                               /\ Merged(dists)[n] = all[Nth(keys, n)]
      /\ \A val \in [S -> Nat] : Total(Merged(dists), val) = Total(all, val)
  <2>1. all \in Seq(S) /\ keys \in Seq(Nat) /\ DOMAIN keys = DOMAIN all
    BY <1>2, <1>6
  <2>2. /\ SortedBy(all, keys) \in Seq(S) /\ Len(SortedBy(all, keys)) = Len(all)
        /\ \A n \in DOMAIN all : /\ Nth(keys, n) \in DOMAIN all
                                  /\ SortedBy(all, keys)[n] = all[Nth(keys, n)]
        /\ \A val \in [S -> Nat] : Total(SortedBy(all, keys), val) = Total(all, val)
    BY <2>1, SortedFacts
  <2>3. QED
    BY <1>1, <2>2
<1>8. \A i, j \in DOMAIN all : i <= j => keys[Nth(keys, i)] <= keys[Nth(keys, j)]
  BY <1>6, OrderOfKeys
<1>9. \A i, j \in DOMAIN all : i <= j => Merged(dists)[i].mean <= Merged(dists)[j].mean
  BY <1>6, <1>7, <1>8
<1>10. \A i, j \in 1..Len(Merged(dists)) :
           i <= j => Merged(dists)[i].mean <= Merged(dists)[j].mean
  BY <1>4, <1>7, <1>9
<1>11. \A val \in [S -> Nat] :
           Total(Merged(dists), val)
               = SumFunction([i \in DOMAIN dists |-> Total(dists[i].centroids, val)])
  BY <1>2, <1>3, <1>7
<1>12. QED
  BY <1>7, <1>10, <1>11

Distributions(samples) == [w \in DOMAIN samples |-> Distribution(samples[w])]

LEMMA MergedFacts ==
    ASSUME NEW samples \in Seq(Seq(Nat))
    PROVE  /\ Merged(Distributions(samples)) \in Seq(Centroid)
           /\ \A i, j \in 1..Len(Merged(Distributions(samples))) :
                  i <= j => Merged(Distributions(samples))[i].mean
                                <= Merged(Distributions(samples))[j].mean
           /\ \A val \in [Centroid -> Nat] :
                  Total(Merged(Distributions(samples)), val)
                      = SumFunction([w \in DOMAIN samples |->
                                        Total(Distribution(samples[w]).centroids, val)])
<1> DEFINE dists == Distributions(samples)
<1>1. /\ DOMAIN samples = 1..Len(samples) /\ Len(samples) \in Nat
      /\ \A w \in DOMAIN samples : samples[w] \in Seq(Nat)
  BY SequenceDomain
<1>2. DOMAIN dists = DOMAIN samples
      /\ \A w \in DOMAIN samples : dists[w] = Distribution(samples[w])
  BY DEF Distributions
<1>3. \A w \in 1..Len(samples) : dists[w].centroids \in Seq(Centroid)
  BY <1>1, <1>2, DistributionFacts
<1>4. [i \in DOMAIN dists |-> dists[i].centroids] \in Seq(Seq(Centroid))
  <2> HIDE DEF dists
  <2>1. [i \in 1..Len(samples) |-> dists[i].centroids] \in Seq(Seq(Centroid))
    BY <1>1, <1>3, IsASeq
  <2>2. QED
    BY <1>1, <1>2, <2>1
<1>5. \A val : [i \in DOMAIN dists |-> Total(dists[i].centroids, val)]
                   = [w \in DOMAIN samples |-> Total(Distribution(samples[w]).centroids, val)]
  BY <1>2
<1> HIDE DEF dists
<1>6. Centroid \in SUBSET Centroid
  OBVIOUS
<1>7. /\ Merged(dists) \in Seq(Centroid)
      /\ \A i, j \in 1..Len(Merged(dists)) :
             i <= j => Merged(dists)[i].mean <= Merged(dists)[j].mean
      /\ \A val \in [Centroid -> Nat] :
             Total(Merged(dists), val)
                 = SumFunction([i \in DOMAIN dists |-> Total(dists[i].centroids, val)])
  BY <1>4, <1>6, MergedIs
<1>8. \A val \in [Centroid -> Nat] :
          Total(Merged(dists), val)
              = SumFunction([w \in DOMAIN samples |->
                                Total(Distribution(samples[w]).centroids, val)])
  BY <1>5, <1>7
<1>9. QED
  BY <1>7, <1>8 DEF dists

LEMMA SumOfSums ==
    ASSUME NEW S, IsFiniteSet(S), NEW f, NEW g, NEW h,
           \A i \in S : f[i] \in Nat /\ g[i] \in Nat /\ h[i] = f[i] + g[i]
    PROVE  SumFunctionOnSet(h, S) = SumFunctionOnSet(f, S) + SumFunctionOnSet(g, S)
<1> DEFINE T == {R \in SUBSET S : SumFunctionOnSet(h, R) =
                                      SumFunctionOnSet(f, R) + SumFunctionOnSet(g, R)}
<1>1. {} \in T
  BY SumOfNone
<1>2. ASSUME NEW R \in SUBSET S, NEW x \in S \ R, R \in T
      PROVE  R \cup {x} \in T
  <2>1. IsFiniteSet(R)
    BY FS_Subset
  <2>2. \A i \in R \cup {x} : f[i] \in Nat /\ g[i] \in Nat /\ h[i] \in Nat
    OBVIOUS
  <2>3. /\ SumFunctionOnSet(f, R \cup {x}) = f[x] + SumFunctionOnSet(f, R)
        /\ SumFunctionOnSet(g, R \cup {x}) = g[x] + SumFunctionOnSet(g, R)
        /\ SumFunctionOnSet(h, R \cup {x}) = h[x] + SumFunctionOnSet(h, R)
    BY <2>1, <2>2, SumAdding
  <2>4. SumFunctionOnSet(f, R) \in Nat /\ SumFunctionOnSet(g, R) \in Nat
    BY <2>1, SumOfNumbers
  <2>5. SumFunctionOnSet(h, R) = SumFunctionOnSet(f, R) + SumFunctionOnSet(g, R)
    BY <1>2
  <2>6. f[x] \in Nat /\ g[x] \in Nat /\ h[x] = f[x] + g[x]
    OBVIOUS
  <2>7. SumFunctionOnSet(h, R \cup {x}) =
            SumFunctionOnSet(f, R \cup {x}) + SumFunctionOnSet(g, R \cup {x})
    BY <2>3, <2>4, <2>5, <2>6
  <2>8. QED
    BY <2>7
<1>3. S \in T
  <2> HIDE DEF T
  <2>1. QED
    BY <1>1, <1>2, SubsetsFrom
<1>4. QED
  BY <1>3

\* The same for all workers together.
LEMMA MergingShifts ==
    ASSUME NEW samples \in Seq(Seq(Nat)), NEW t \in Nat
    PROVE  LET below == Total(FlattenSeq(samples), Below(t))
               weight == Total(Merged(Distributions(samples)), Weight(t))
           IN  /\ below \in Nat /\ weight \in Nat /\ Slack(samples) \in Nat
               /\ weight <= below + Slack(samples) /\ below <= weight + Slack(samples)
<1> DEFINE W == DOMAIN samples
           a == [w \in W |-> Total(samples[w], Below(t))]
           c == [w \in W |-> Total(Distribution(samples[w]).centroids, Weight(t))]
           s == [w \in W |-> BucketSize(samples[w]) - 1]
           as == [w \in W |-> a[w] + s[w]]
           cs == [w \in W |-> c[w] + s[w]]
<1>1. IsFiniteSet(W) /\ \A w \in W : samples[w] \in Seq(Nat)
  BY SequenceDomain
<1>2. \A w \in W : /\ a[w] = Total(samples[w], Below(t))
                   /\ c[w] = Total(Distribution(samples[w]).centroids, Weight(t))
                   /\ s[w] = BucketSize(samples[w]) - 1
                   /\ as[w] = a[w] + s[w] /\ cs[w] = c[w] + s[w]
  OBVIOUS
<1>3. /\ SumFunction(a) = SumFunctionOnSet(a, W) /\ SumFunction(c) = SumFunctionOnSet(c, W)
      /\ SumFunction(s) = SumFunctionOnSet(s, W)
  BY DEF SumFunction
<1>4. /\ Total(FlattenSeq(samples), Below(t)) = SumFunction(a)
      /\ Total(Merged(Distributions(samples)), Weight(t)) = SumFunction(c)
      /\ Slack(samples) = SumFunction(s)
  <2>1. Below(t) \in [Nat -> Nat] /\ Weight(t) \in [Centroid -> Nat]
    BY BelowType
  <2>2. Total(FlattenSeq(samples), Below(t)) = SumFunction(a)
    BY <2>1, TotalOfFlattened
  <2>3. Total(Merged(Distributions(samples)), Weight(t)) = SumFunction(c)
    BY <2>1, MergedFacts
  <2>4. QED
    BY <2>2, <2>3 DEF Slack
<1> HIDE DEF W, a, c, s, as, cs
<1>5. \A w \in W : /\ a[w] \in Nat /\ c[w] \in Nat /\ s[w] \in Nat
                   /\ c[w] <= as[w] /\ a[w] <= cs[w]
  BY <1>1, <1>2, CompressionShifts
<1>6. \A w \in W : as[w] \in Nat /\ cs[w] \in Nat
  <2> SUFFICES ASSUME NEW w \in W
               PROVE  as[w] \in Nat /\ cs[w] \in Nat
    OBVIOUS
  <2>1. a[w] \in Nat /\ c[w] \in Nat /\ s[w] \in Nat
    BY <1>5
  <2>2. as[w] = a[w] + s[w] /\ cs[w] = c[w] + s[w]
    BY <1>2
  <2>3. QED
    BY <2>1, <2>2
<1>7. SumFunctionOnSet(as, W) = SumFunctionOnSet(a, W) + SumFunctionOnSet(s, W)
  <2>1. \A w \in W : a[w] \in Nat /\ s[w] \in Nat /\ as[w] = a[w] + s[w]
    BY <1>2, <1>5
  <2>2. QED
    BY <1>1, <2>1, SumOfSums
<1>8. SumFunctionOnSet(cs, W) = SumFunctionOnSet(c, W) + SumFunctionOnSet(s, W)
  <2>1. \A w \in W : c[w] \in Nat /\ s[w] \in Nat /\ cs[w] = c[w] + s[w]
    BY <1>2, <1>5
  <2>2. QED
    BY <1>1, <2>1, SumOfSums
<1>9. SumFunctionOnSet(c, W) <= SumFunctionOnSet(as, W)
  <2>1. \A w \in W : c[w] \in Nat /\ as[w] \in Nat /\ c[w] <= as[w]
    BY <1>5, <1>6
  <2>2. QED
    BY <1>1, <2>1, SumMonotone
<1>10. SumFunctionOnSet(a, W) <= SumFunctionOnSet(cs, W)
  <2>1. \A w \in W : a[w] \in Nat /\ cs[w] \in Nat /\ a[w] <= cs[w]
    BY <1>5, <1>6
  <2>2. QED
    BY <1>1, <2>1, SumMonotone
<1>11. /\ SumFunctionOnSet(a, W) \in Nat /\ SumFunctionOnSet(c, W) \in Nat
       /\ SumFunctionOnSet(s, W) \in Nat
  BY <1>1, <1>5, SumOfNumbers
<1>12. QED
  BY <1>3, <1>4, <1>7, <1>8, <1>9, <1>10, <1>11

-----------------------------------------------------------------------------
(* Percentiles of merged centroids *)

One == [v \in Nat |-> 1]

CountOf == [c \in Centroid |-> c.count]

LEMMA SizeIsTotal ==
    ASSUME NEW values \in Seq(Nat)
    PROVE  Total(values, One) = Len(values)
<1> DEFINE D == DOMAIN values
           f == [i \in D |-> One[values[i]]]
<1>1. /\ IsFiniteSet(D) /\ Cardinality(D) = Len(values) /\ Len(values) \in Nat
      /\ \A i \in D : values[i] \in Nat
  BY SequenceDomain
<1>2. \A i \in D : f[i] = 1
  BY <1>1 DEF One
<1>3. Total(values, One) = SumFunctionOnSet(f, D)
  BY DEF Total
<1> HIDE DEF D, f
<1>4. SumFunctionOnSet(f, D) = 1 * Cardinality(D)
  BY <1>1, <1>2, SumOfConstant
<1>5. QED
  BY <1>1, <1>3, <1>4

LEMMA DistributionCounts ==
    ASSUME NEW values \in Seq(Nat)
    PROVE  Total(Distribution(values).centroids, CountOf) = Len(values)
<1> DEFINE m == ChunkCount(values)
           q == Distribution(values).centroids
           f == [k \in 1..m |-> CountOf[q[k]]]
           e == Counts(q)
<1>1. q \in Seq(Centroid) /\ Len(q) = m
  BY DistributionFacts
<1>2. DOMAIN q = 1..m /\ m \in Nat /\ \A k \in 1..m : q[k] \in Centroid
  <2>1. DOMAIN q = 1..Len(q) /\ Len(q) \in Nat /\ \A k \in DOMAIN q : q[k] \in Centroid
    BY <1>1, SequenceDomain
  <2>2. QED
    BY <1>1, <2>1
<1>3. \A k \in 1..m : f[k] = e[k] /\ f[k] \in Nat
  BY <1>2 DEF CountOf, Counts, Centroid
<1>4. Total(q, CountOf) = SumFunctionOnSet(f, 1..m)
  BY <1>2 DEF Total
<1>5. IsFiniteSet(1..m)
  BY <1>2, FS_Interval
<1>6. SumFunctionOnSet(e, 1..m) = IF m = 0 THEN 0 ELSE High(values, m)
  BY <1>2, CountsUpTo
<1>7. (IF m = 0 THEN 0 ELSE High(values, m)) = Len(values)
  <2>1. /\ Len(values) \in Nat /\ BucketSize(values) \in Nat
        /\ Len(values) <= m * BucketSize(values) /\ m * BucketSize(values) \in Nat
    <3>1. Len(values) \in Nat /\ BucketSize(values) \in Nat
      BY ChunkPlaces, SequenceDomain
    <3>2. m * BucketSize(values) \in Nat
      BY <1>2, <3>1
    <3>3. QED
      BY <3>1, <3>2, ChunkPlaces
  <2>2. High(values, m) = Least(m * BucketSize(values), Len(values))
    BY DEF High
  <2>3. CASE m = 0
    BY <2>1, <2>3
  <2>4. CASE m # 0
    <3> HIDE DEF m
    <3>1. QED
      BY <2>1, <2>2, <2>4 DEF Least
  <2>5. QED
    BY <2>3, <2>4
<1> HIDE DEF m, q, f, e
<1>8. SumFunctionOnSet(f, 1..m) = SumFunctionOnSet(e, 1..m)
  <2> DEFINE A == 1..m
  <2>1. IsFiniteSet(A) /\ \A k \in A : f[k] = e[k] /\ f[k] \in Nat
    BY <1>3, <1>5
  <2> HIDE DEF A
  <2>2. SumFunctionOnSet(f, A) = SumFunctionOnSet(e, A)
    BY <2>1, SumOfSame
  <2>3. QED
    BY <2>2 DEF A
<1>9. QED
  BY <1>4, <1>6, <1>7, <1>8 DEF q

LEMMA TotalOfCounts ==
    ASSUME NEW all \in Seq(Centroid)
    PROVE  SumFunction(Counts(all)) = Total(all, CountOf)
<1>1. \A k \in DOMAIN all : all[k] \in Centroid
  BY SequenceDomain
<1>2. Counts(all) = [k \in DOMAIN all |-> CountOf[all[k]]] /\ DOMAIN Counts(all) = DOMAIN all
  BY <1>1 DEF Counts, CountOf
<1>3. QED
  BY <1>2 DEF SumFunction, Total

LEMMA MergedCounts ==
    ASSUME NEW samples \in Seq(Seq(Nat))
    PROVE  /\ FlattenSeq(samples) \in Seq(Nat)
           /\ SumFunction(Counts(Merged(Distributions(samples)))) = Len(FlattenSeq(samples))
           /\ SumFunction([w \in DOMAIN samples |-> Len(samples[w])]) = Len(FlattenSeq(samples))
<1> DEFINE all == Merged(Distributions(samples))
           flat == FlattenSeq(samples)
           W == DOMAIN samples
           lens == [w \in W |-> Len(samples[w])]
<1>1. \A w \in W : samples[w] \in Seq(Nat)
  BY SequenceDomain
<1>2. CountOf \in [Centroid -> Nat] /\ One \in [Nat -> Nat]
  BY DEF CountOf, One, Centroid
<1>3. all \in Seq(Centroid)
      /\ Total(all, CountOf) = SumFunction([w \in W |-> Total(Distribution(samples[w]).centroids,
                                                              CountOf)])
  BY <1>2, MergedFacts
<1>4. [w \in W |-> Total(Distribution(samples[w]).centroids, CountOf)] = lens
  BY <1>1, DistributionCounts
<1>5. flat \in Seq(Nat)
      /\ Total(flat, One) = SumFunction([w \in W |-> Total(samples[w], One)])
  BY <1>2, TotalOfFlattened
<1>6. [w \in W |-> Total(samples[w], One)] = lens
  BY <1>1, SizeIsTotal
<1>7. Total(flat, One) = Len(flat)
  BY <1>5, SizeIsTotal
<1>8. SumFunction(Counts(all)) = Total(all, CountOf)
  BY <1>3, TotalOfCounts
<1>9. QED
  BY <1>3, <1>4, <1>5, <1>6, <1>7, <1>8

Reached(all, rank) == {k \in DOMAIN all : SumFunctionOnSet(Counts(all), 1..k) >= rank}

LEMMA CentroidDomain ==
    ASSUME NEW all \in Seq(Centroid)
    PROVE  /\ Len(all) \in Nat /\ DOMAIN all = 1..Len(all) /\ IsFiniteSet(DOMAIN all)
           /\ \A k \in DOMAIN all :
                  /\ all[k] \in Centroid /\ all[k].mean \in Nat
                  /\ Counts(all)[k] = all[k].count /\ Counts(all)[k] \in Nat
<1>1. /\ Len(all) \in Nat /\ DOMAIN all = 1..Len(all) /\ IsFiniteSet(DOMAIN all)
      /\ \A k \in DOMAIN all : all[k] \in Centroid
  BY SequenceDomain
<1>2. \A k \in DOMAIN all : all[k].mean \in Nat /\ all[k].count \in Nat
  BY <1>1 DEF Centroid
<1>3. QED
  BY <1>1, <1>2 DEF Counts

LEMMA FirstReached ==
    ASSUME NEW all \in Seq(Centroid), Len(all) # 0,
           NEW rank \in Nat, rank <= SumFunction(Counts(all))
    PROVE  /\ Min(Reached(all, rank)) \in 1..Len(all)
           /\ SumFunctionOnSet(Counts(all), 1..Min(Reached(all, rank))) >= rank
           /\ \A k \in 1..Len(all) :
                  SumFunctionOnSet(Counts(all), 1..k) >= rank => Min(Reached(all, rank)) <= k
<1>1. Len(all) \in Nat /\ DOMAIN all = 1..Len(all)
  BY CentroidDomain
<1>2. SumFunction(Counts(all)) = SumFunctionOnSet(Counts(all), 1..Len(all))
  BY <1>1 DEF SumFunction, Counts
<1>3. SumFunctionOnSet(Counts(all), 1..Len(all)) \in Nat
  <2>1. IsFiniteSet(1..Len(all)) /\ \A k \in 1..Len(all) : Counts(all)[k] \in Nat
    BY CentroidDomain
  <2>2. QED
    BY <2>1, SumOfNumbers
<1>4. Len(all) \in Reached(all, rank) /\ Reached(all, rank) \subseteq Nat
  BY <1>1, <1>2, <1>3 DEF Reached
<1>5. /\ Min(Reached(all, rank)) \in Reached(all, rank)
      /\ \A k \in Reached(all, rank) : Min(Reached(all, rank)) <= k
  BY <1>4, MinIsLeast
<1>6. QED
  BY <1>1, <1>5 DEF Reached

RanksRightly(all, rank, v) ==
    /\ Total(all, Weight(v + 1)) >= rank
    /\ Total(all, Weight(v)) <= Greatest(rank - 1, 0)

\* The centroid that reaches a rank: enough is at most its mean, too little is below it.
LEMMA ReachedRank ==
    ASSUME NEW all \in Seq(Centroid), Len(all) # 0,
           \A i, j \in 1..Len(all) : i <= j => all[i].mean <= all[j].mean,
           NEW rank \in Nat, rank <= SumFunction(Counts(all))
    PROVE  RanksRightly(all, rank, all[Min(Reached(all, rank))].mean)
<1> DEFINE D == DOMAIN all
           e == Counts(all)
           r == Min(Reached(all, rank))
           v == all[r].mean
           f == [k \in D |-> Weight(v + 1)[all[k]]]
           g == [k \in D |-> Weight(v)[all[k]]]
<1>1. /\ Len(all) \in Nat /\ D = 1..Len(all) /\ IsFiniteSet(D)
      /\ \A k \in D : all[k] \in Centroid /\ all[k].mean \in Nat
                      /\ e[k] = all[k].count /\ e[k] \in Nat
  BY CentroidDomain
<1>2. /\ r \in 1..Len(all) /\ SumFunctionOnSet(e, 1..r) >= rank
      /\ \A k \in 1..Len(all) : SumFunctionOnSet(e, 1..k) >= rank => r <= k
  BY FirstReached
<1>3. r \in Nat /\ r >= 1 /\ r \in D /\ v \in Nat
  BY <1>1, <1>2
<1>4. \A k \in D : /\ k <= r => all[k].mean <= v
                   /\ all[k].mean < v => k < r
  <2> SUFFICES ASSUME NEW k \in D
               PROVE  /\ k <= r => all[k].mean <= v
                      /\ all[k].mean < v => k < r
    OBVIOUS
  <2>1. k \in 1..Len(all) /\ r \in 1..Len(all) /\ all[k].mean \in Nat /\ v \in Nat /\ k \in Nat
    BY <1>1, <1>2, <1>3
  <2>2. k <= r => all[k].mean <= v
    BY <2>1
  <2>3. r <= k => v <= all[k].mean
    BY <2>1
  <2>4. QED
    BY <1>3, <2>1, <2>2, <2>3
<1>5. \A k \in D : /\ f[k] = IF all[k].mean < v + 1 THEN e[k] ELSE 0
                   /\ g[k] = IF all[k].mean < v THEN e[k] ELSE 0
  BY <1>1 DEF Weight
<1>6. /\ Total(all, Weight(v + 1)) = SumFunctionOnSet(f, D)
      /\ Total(all, Weight(v)) = SumFunctionOnSet(g, D)
  BY DEF Total
<1> HIDE DEF D, e, r, v, f, g
<1>7. \A k \in D : /\ f[k] \in Nat /\ g[k] \in Nat /\ g[k] <= e[k]
                   /\ k <= r => f[k] = e[k]
                   /\ ~(k < r) => g[k] = 0
  BY <1>1, <1>3, <1>4, <1>5
<1>8. SumFunctionOnSet(f, D) >= rank
  <2> DEFINE U == 1..r
  <2>1. U \in SUBSET D /\ IsFiniteSet(U) /\ \A k \in U : k \in D /\ k <= r
    <3>1. \A k \in U : k \in D /\ k <= r
      BY <1>1, <1>2, <1>3
    <3>2. IsFiniteSet(U)
      BY <1>3, FS_Interval
    <3> HIDE DEF U
    <3>3. QED
      BY <3>1, <3>2
  <2>2. \A k \in U : f[k] = e[k] /\ f[k] \in Nat
    BY <1>7, <2>1
  <2>3. SumFunctionOnSet(e, U) >= rank
    BY <1>2
  <2> HIDE DEF U
  <2>4. SumFunctionOnSet(f, U) = SumFunctionOnSet(e, U)
    BY <2>1, <2>2, SumOfSame
  <2>5. SumFunctionOnSet(f, U) <= SumFunctionOnSet(f, D)
    <3>1. \A k \in D : f[k] \in Nat
      BY <1>7
    <3>2. QED
      BY <1>1, <2>1, <3>1, SumOfPart
  <2>6. SumFunctionOnSet(f, U) \in Nat /\ SumFunctionOnSet(f, D) \in Nat
    BY <1>1, <1>7, <2>1, <2>2, SumOfNumbers
  <2>7. QED
    BY <2>3, <2>4, <2>5, <2>6
<1>9. SumFunctionOnSet(g, D) <= Greatest(rank - 1, 0)
  <2> DEFINE U == 1..(r - 1)
  <2>1. U \in SUBSET D /\ IsFiniteSet(U) /\ (\A k \in U : k \in D)
        /\ \A k \in D \ U : ~(k < r)
    <3>1. \A k \in U : k \in D
      BY <1>1, <1>2, <1>3
    <3>2. \A k \in D \ U : ~(k < r)
      BY <1>1, <1>3
    <3>3. IsFiniteSet(U)
      BY <1>3, FS_Interval
    <3> HIDE DEF U
    <3>4. QED
      BY <3>1, <3>2, <3>3
  <2>2. \A k \in U : g[k] \in Nat /\ e[k] \in Nat /\ g[k] <= e[k]
    BY <1>1, <1>7, <2>1
  <2>3. SumFunctionOnSet(e, U) <= Greatest(rank - 1, 0)
    <3>1. CASE r = 1
      <4>1. U = {}
        BY <3>1
      <4>2. SumFunctionOnSet(e, U) = 0
        BY <4>1, SumOfNone
      <4>3. QED
        BY <4>2 DEF Greatest
    <3>2. CASE r # 1
      <4>1. r - 1 \in 1..Len(all) /\ ~(r <= r - 1)
        BY <1>1, <1>2, <1>3, <3>2
      <4>2. ~(SumFunctionOnSet(e, U) >= rank)
        BY <1>2, <4>1
      <4>3. SumFunctionOnSet(e, U) \in Nat
        <5> HIDE DEF U
        <5>1. QED
          BY <2>1, <2>2, SumOfNumbers
      <4>4. QED
        BY <4>2, <4>3 DEF Greatest
    <3>3. QED
      BY <3>1, <3>2
  <2> HIDE DEF U
  <2>4. SumFunctionOnSet(g, U) = SumFunctionOnSet(g, D)
    <3>1. \A k \in D : g[k] \in Nat
      BY <1>7
    <3>2. \A k \in D \ U : g[k] = 0
      BY <1>7, <2>1
    <3>3. QED
      BY <1>1, <2>1, <3>1, <3>2, SumOfPart
  <2>5. SumFunctionOnSet(g, U) <= SumFunctionOnSet(e, U)
    BY <2>1, <2>2, SumMonotone
  <2>6. SumFunctionOnSet(g, U) \in Nat /\ SumFunctionOnSet(e, U) \in Nat
    BY <2>1, <2>2, SumOfNumbers
  <2>7. Greatest(rank - 1, 0) \in Nat
    BY DEF Greatest
  <2>8. QED
    BY <2>3, <2>4, <2>5, <2>6, <2>7
<1>10. QED
  BY <1>6, <1>8, <1>9 DEF RanksRightly, v, r

LEMMA MeansUpTo ==
    ASSUME NEW values \in Seq(Nat), NEW top \in Nat, Distribution(values).max <= top
    PROVE  Distribution(values).centroids \in Seq({c \in Centroid : c.mean <= top})
<1> DEFINE m == ChunkCount(values)
           q == Distribution(values).centroids
           S == {c \in Centroid : c.mean <= top}
           sorted == Sorted(values)
<1>1. /\ q \in Seq(Centroid) /\ Len(q) = m /\ Distribution(values).max \in Nat
      /\ \A k \in 1..m : q[k].mean <= sorted[High(values, k)]
      /\ values # << >> => Distribution(values).max = sorted[Len(values)]
  BY DistributionFacts
<1>2. DOMAIN q = 1..m /\ m \in Nat /\ \A k \in 1..m : q[k] \in Centroid /\ q[k].mean \in Nat
  BY <1>1, CentroidDomain
<1>3. \A k \in 1..m : q[k].mean <= top
  <2> SUFFICES ASSUME NEW k \in 1..m
               PROVE  q[k].mean <= top
    OBVIOUS
  <2>1. /\ Low(values, k) \in Nat /\ High(values, k) \in Nat
        /\ Low(values, k) < High(values, k) /\ High(values, k) <= Len(values)
    BY ChunkPlaces
  <2>2. Len(values) \in Nat
    BY SequenceDomain
  <2>3. High(values, k) \in 1..Len(values) /\ Len(values) \in 1..Len(values)
        /\ High(values, k) <= Len(values)
    BY <2>1, <2>2
  <2>4. sorted[High(values, k)] <= sorted[Len(values)]
    BY <2>3, SortedValues
  <2>5. sorted[High(values, k)] \in Nat /\ sorted[Len(values)] \in Nat
    <3>1. sorted \in Seq(Nat) /\ Len(sorted) = Len(values)
      BY SortedValues
    <3>2. \A i \in 1..Len(values) : sorted[i] \in Nat
      BY <3>1, SequenceDomain
    <3>3. QED
      BY <2>3, <3>2
  <2>6. values # << >>
    <3>1. Len(values) # 0
      BY <2>2, <2>3
    <3>2. QED
      BY <3>1, EmptySeq
  <2>7. q[k].mean \in Nat /\ q[k].mean <= sorted[High(values, k)]
        /\ sorted[Len(values)] <= top
    BY <1>1, <1>2, <2>6
  <2>8. QED
    BY <2>4, <2>5, <2>7
<1> HIDE DEF m, q
<1>4. \A k \in 1..m : q[k] \in S
  BY <1>2, <1>3
<1>5. q = [k \in 1..m |-> q[k]]
  BY <1>1, <1>2
<1>6. [k \in 1..m |-> q[k]] \in Seq(S)
  <2> HIDE DEF S
  <2>1. QED
    BY <1>2, <1>4, IsASeq
<1>7. QED
  BY <1>5, <1>6 DEF q

LEMMA MergedUpTo ==
    ASSUME NEW samples \in Seq(Seq(Nat)), NEW S \in SUBSET Centroid,
           \A w \in DOMAIN samples : Distribution(samples[w]).centroids \in Seq(S)
    PROVE  \A k \in DOMAIN Merged(Distributions(samples)) :
               Merged(Distributions(samples))[k] \in S
<1> DEFINE dists == Distributions(samples)
<1>1. DOMAIN samples = 1..Len(samples) /\ Len(samples) \in Nat
  BY SequenceDomain
<1>2. DOMAIN dists = DOMAIN samples
      /\ \A w \in DOMAIN samples : dists[w].centroids \in Seq(S)
  BY DEF Distributions
<1> HIDE DEF dists
<1>3. [i \in DOMAIN dists |-> dists[i].centroids] \in Seq(Seq(S))
  <2>1. \A w \in 1..Len(samples) : dists[w].centroids \in Seq(S)
    BY <1>1, <1>2
  <2>2. [i \in 1..Len(samples) |-> dists[i].centroids] \in Seq(Seq(S))
    BY <1>1, <2>1, IsASeq
  <2>3. QED
    BY <1>1, <1>2, <2>2
<1>4. Merged(dists) \in Seq(S)
  BY <1>3, MergedIs
<1>5. \A k \in DOMAIN Merged(dists) : Merged(dists)[k] \in S
  BY <1>4, SequenceDomain
<1>6. QED
  BY <1>5 DEF dists

\* No centroid of the merged ones exceeds the greatest latency of all workers.
LEMMA GreatestOfAll ==
    ASSUME NEW samples \in Seq(Seq(Nat)), Merged(Distributions(samples)) # << >>
    PROVE  LET dists == Distributions(samples)
               top == Max({dists[i].max : i \in DOMAIN dists})
           IN  top \in Nat /\ \A k \in DOMAIN Merged(dists) : Merged(dists)[k].mean <= top
<1> DEFINE dists == Distributions(samples)
           all == Merged(dists)
           tops == {dists[i].max : i \in DOMAIN dists}
           top == Max(tops)
<1>1. IsFiniteSet(DOMAIN samples) /\ \A w \in DOMAIN samples : samples[w] \in Seq(Nat)
  BY SequenceDomain
<1>2. DOMAIN dists = DOMAIN samples
      /\ \A w \in DOMAIN samples : dists[w] = Distribution(samples[w]) /\ dists[w].max \in Nat
  BY <1>1, DistributionFacts DEF Distributions
<1>3. all \in Seq(Centroid)
  BY MergedFacts
<1>4. Len(all) \in Nat /\ DOMAIN all = 1..Len(all) /\ Len(all) # 0
  BY <1>3, CentroidDomain, EmptySeq
<1>5. DOMAIN samples # {}
  <2> SUFFICES ASSUME DOMAIN samples = {}
               PROVE  FALSE
    OBVIOUS
  <2>1. \A k \in DOMAIN all : all[k] \in {}
    <3>1. \A w \in DOMAIN samples : Distribution(samples[w]).centroids \in Seq({})
      OBVIOUS
    <3>2. {} \in SUBSET Centroid
      OBVIOUS
    <3>3. QED
      BY <3>1, <3>2, MergedUpTo
  <2>2. 1 \in DOMAIN all
    BY <1>4
  <2>3. QED
    BY <2>1, <2>2
<1> HIDE DEF dists, all
<1>6. tops \subseteq Nat /\ tops # {}
  BY <1>2, <1>5
<1>7. IsFiniteSet(tops)
  <2>1. IsFiniteSet(DOMAIN dists)
    BY <1>1, <1>2
  <2> DEFINE f == [i \in DOMAIN dists |-> dists[i].max]
  <2>2. f \in Surjection(DOMAIN dists, tops)
    BY Fun_IsSurj
  <2>3. QED
    BY <2>1, <2>2, FS_Surjection
<1> HIDE DEF tops
<1>8. top \in Nat /\ \A n \in tops : n <= top
  BY <1>6, <1>7, MaxIsGreatest
<1> HIDE DEF top
<1>9. \A w \in DOMAIN samples : Distribution(samples[w]).max <= top
  BY <1>2, <1>8 DEF tops
<1>10. \A w \in DOMAIN samples :
           Distribution(samples[w]).centroids \in Seq({c \in Centroid : c.mean <= top})
  BY <1>1, <1>8, <1>9, MeansUpTo
<1>11. {c \in Centroid : c.mean <= top} \in SUBSET Centroid
  OBVIOUS
<1>12. \A k \in DOMAIN all : all[k] \in {c \in Centroid : c.mean <= top}
  <2> DEFINE S == {c \in Centroid : c.mean <= top}
  <2> HIDE DEF S
  <2>1. \A w \in DOMAIN samples : Distribution(samples[w]).centroids \in Seq(S)
    BY <1>10 DEF S
  <2>2. S \in SUBSET Centroid
    BY <1>11 DEF S
  <2>3. \A k \in DOMAIN all : all[k] \in S
    BY <2>1, <2>2, MergedUpTo DEF all, dists
  <2>4. QED
    BY <2>3 DEF S
<1>13. \A k \in DOMAIN all : all[k].mean <= top
  BY <1>12
<1>14. QED
  BY <1>8, <1>13 DEF dists, all, top, tops

Percents == {50, 95, 99}

LEMMA Ranks ==
    ASSUME NEW n \in Nat
    PROVE  /\ \A percent \in Percents : TargetRank(n, percent) \in Nat /\ TargetRank(n, percent) <= n
           /\ TargetRank(n, 50) <= TargetRank(n, 95) /\ TargetRank(n, 95) <= TargetRank(n, 99)
           /\ n # 0 => \A percent \in Percents :
                           LET r == ((2 * percent * (n - 1) + 100) \div 200) + 1
                           IN  r \in 1..n /\ TargetRank(n, percent) <= r
<1>1. /\ (n * 50) \div 100 \in Nat /\ (n * 50) \div 100 <= n
      /\ (n * 95) \div 100 \in Nat /\ (n * 95) \div 100 <= n
      /\ (n * 99) \div 100 \in Nat /\ (n * 99) \div 100 <= n
      /\ (n * 50) \div 100 <= (n * 95) \div 100 /\ (n * 95) \div 100 <= (n * 99) \div 100
  OBVIOUS
<1>2. ASSUME n # 0
      PROVE  /\ ((2 * 50 * (n - 1) + 100) \div 200) + 1 \in 1..n
             /\ (n * 50) \div 100 <= ((2 * 50 * (n - 1) + 100) \div 200) + 1
  BY <1>2
<1>3. ASSUME n # 0
      PROVE  /\ ((2 * 95 * (n - 1) + 100) \div 200) + 1 \in 1..n
             /\ (n * 95) \div 100 <= ((2 * 95 * (n - 1) + 100) \div 200) + 1
  BY <1>3
<1>4. ASSUME n # 0
      PROVE  /\ ((2 * 99 * (n - 1) + 100) \div 200) + 1 \in 1..n
             /\ (n * 99) \div 100 <= ((2 * 99 * (n - 1) + 100) \div 200) + 1
  BY <1>4
<1>5. QED
  BY <1>1, <1>2, <1>3, <1>4 DEF Percents, TargetRank

\* What a second's summary says of the latencies of that second.
LEMMA SummaryIsRight ==
    ASSUME NEW samples \in Seq(Seq(Nat)), Merged(Distributions(samples)) # << >>
    PROVE  LET all == Merged(Distributions(samples))
               summary == Summary(Distributions(samples))
               n == Len(FlattenSeq(samples))
           IN  /\ summary \in Summaries
               /\ summary.p50 <= summary.p95 /\ summary.p95 <= summary.p99
               /\ summary.p99 <= summary.max
               /\ RanksRightly(all, TargetRank(n, 50), summary.p50)
               /\ RanksRightly(all, TargetRank(n, 95), summary.p95)
               /\ RanksRightly(all, TargetRank(n, 99), summary.p99)
<1> DEFINE dists == Distributions(samples)
           all == Merged(dists)
           n == Len(FlattenSeq(samples))
           top == Max({dists[i].max : i \in DOMAIN dists})
           r(percent) == Min(Reached(all, TargetRank(n, percent)))
           v(percent) == all[r(percent)].mean
<1>1. /\ all \in Seq(Centroid)
      /\ \A i, j \in 1..Len(all) : i <= j => all[i].mean <= all[j].mean
  BY MergedFacts
<1>2. SumFunction(Counts(all)) = n /\ n \in Nat
  BY MergedCounts, SequenceDomain
<1>3. /\ Len(all) \in Nat /\ Len(all) # 0 /\ DOMAIN all = 1..Len(all)
      /\ \A k \in DOMAIN all : all[k].mean \in Nat
  BY <1>1, CentroidDomain, EmptySeq
<1>4. top \in Nat /\ \A k \in DOMAIN all : all[k].mean <= top
  BY GreatestOfAll
<1>5. /\ \A percent \in Percents : TargetRank(n, percent) \in Nat /\ TargetRank(n, percent) <= n
      /\ TargetRank(n, 50) <= TargetRank(n, 95) /\ TargetRank(n, 95) <= TargetRank(n, 99)
  BY <1>2, Ranks
<1>6. \A percent : PercentileOf(all, percent) = v(percent)
  BY <1>2 DEF PercentileOf, Reached
<1>7. Summary(dists) = [p50 |-> v(50), p95 |-> v(95), p99 |-> v(99), max |-> top, count |-> n]
  <2> HIDE DEF all, n, v
  <2>1. Summary(dists) = [p50 |-> PercentileOf(all, 50), p95 |-> PercentileOf(all, 95),
                          p99 |-> PercentileOf(all, 99), max |-> top,
                          count |-> SumFunction(Counts(all))]
    BY DEF Summary, all
  <2>2. QED
    BY <1>2, <1>6, <2>1
<1> HIDE DEF dists, all, n, top
<1>8. ASSUME NEW percent \in Percents
      PROVE  /\ r(percent) \in 1..Len(all)
             /\ SumFunctionOnSet(Counts(all), 1..r(percent)) >= TargetRank(n, percent)
             /\ \A k \in 1..Len(all) :
                    SumFunctionOnSet(Counts(all), 1..k) >= TargetRank(n, percent) => r(percent) <= k
             /\ RanksRightly(all, TargetRank(n, percent), v(percent))
  <2> DEFINE rank == TargetRank(n, percent)
  <2>1. rank \in Nat /\ rank <= SumFunction(Counts(all))
    BY <1>2, <1>5
  <2> HIDE DEF rank
  <2>2. /\ Min(Reached(all, rank)) \in 1..Len(all)
        /\ SumFunctionOnSet(Counts(all), 1..Min(Reached(all, rank))) >= rank
        /\ \A k \in 1..Len(all) :
               SumFunctionOnSet(Counts(all), 1..k) >= rank => Min(Reached(all, rank)) <= k
    BY <1>1, <1>3, <2>1, FirstReached
  <2>3. RanksRightly(all, rank, all[Min(Reached(all, rank))].mean)
    BY <1>1, <1>3, <2>1, ReachedRank
  <2>4. QED
    BY <2>2, <2>3 DEF rank
<1>9. 50 \in Percents /\ 95 \in Percents /\ 99 \in Percents
  BY DEF Percents
<1> HIDE DEF v
<1>10. ASSUME NEW a \in Percents, NEW b \in Percents, TargetRank(n, a) <= TargetRank(n, b)
       PROVE  v(a) <= v(b)
  <2>1. r(a) \in 1..Len(all) /\ r(b) \in 1..Len(all)
    BY <1>8
  <2>2. SumFunctionOnSet(Counts(all), 1..r(b)) \in Nat
    <3> DEFINE U == 1..r(b)
    <3>1. IsFiniteSet(U)
      <4>1. r(b) \in Nat
        BY <1>3, <2>1
      <4> HIDE DEF r
      <4>2. QED
        BY <4>1, FS_Interval
    <3>2. \A k \in U : k \in DOMAIN all
      BY <1>3, <2>1
    <3>3. \A k \in U : Counts(all)[k] \in Nat
      BY <1>1, <3>2, CentroidDomain
    <3> HIDE DEF U
    <3>4. SumFunctionOnSet(Counts(all), U) \in Nat
      BY <3>1, <3>3, SumOfNumbers
    <3>5. QED
      BY <3>4 DEF U
  <2>3. SumFunctionOnSet(Counts(all), 1..r(b)) >= TargetRank(n, b)
    BY <1>8
  <2>4. SumFunctionOnSet(Counts(all), 1..r(b)) >= TargetRank(n, a)
    BY <1>5, <1>10, <2>2, <2>3
  <2>5. r(a) <= r(b)
    BY <1>8, <2>1, <2>4
  <2>6. QED
    BY <1>1, <2>1, <2>5 DEF v
<1>11. \A percent \in Percents : v(percent) \in Nat /\ v(percent) <= top
  BY <1>3, <1>4, <1>8 DEF v
<1>12. v(50) <= v(95) /\ v(95) <= v(99) /\ v(99) <= top
  BY <1>5, <1>9, <1>10, <1>11
<1>13. /\ v(50) \in Nat /\ v(95) \in Nat /\ v(99) \in Nat
       /\ RanksRightly(all, TargetRank(n, 50), v(50))
       /\ RanksRightly(all, TargetRank(n, 95), v(95))
       /\ RanksRightly(all, TargetRank(n, 99), v(99))
  BY <1>8, <1>9, <1>11
<1>14. Summary(dists) \in Summaries
  BY <1>2, <1>4, <1>7, <1>13 DEF Summaries
<1>15. /\ Summary(dists).p50 = v(50) /\ Summary(dists).p95 = v(95)
       /\ Summary(dists).p99 = v(99) /\ Summary(dists).max = top
  BY <1>7
<1>16. QED
  BY <1>12, <1>13, <1>14, <1>15 DEF dists, all, n

LEMMA SummaryType ==
    ASSUME NEW samples \in Seq(Seq(Nat))
    PROVE  Summary(Distributions(samples)) \in Summaries
<1>1. CASE Merged(Distributions(samples)) = << >>
  BY <1>1 DEF Summary, NoSummary, Summaries
<1>2. CASE Merged(Distributions(samples)) # << >>
  BY <1>2, SummaryIsRight
<1>3. QED
  BY <1>1, <1>2

LEMMA CountBelow ==
    ASSUME NEW values \in Seq(Nat), NEW t \in Nat
    PROVE  Total(values, Below(t)) = Cardinality({i \in DOMAIN values : values[i] < t})
<1> DEFINE D == DOMAIN values
           R == {i \in D : values[i] < t}
           f == [i \in D |-> Below(t)[values[i]]]
<1>1. IsFiniteSet(D) /\ \A i \in D : values[i] \in Nat
  BY SequenceDomain
<1>2. \A i \in D : f[i] = IF i \in R THEN 1 ELSE 0
  BY <1>1 DEF Below
<1>3. R \in SUBSET D
  OBVIOUS
<1>4. Total(values, Below(t)) = SumFunctionOnSet(f, D)
  BY DEF Total
<1> HIDE DEF f, R, D
<1>5. SumFunctionOnSet(f, D) = Cardinality(R)
  BY <1>1, <1>2, <1>3, SizeIsSum
<1>6. QED
  BY <1>4, <1>5 DEF D, R

\* A rank among the centroids is one among the latencies, give or take the slack.
LEMMA RankAmongAll ==
    ASSUME NEW samples \in Seq(Seq(Nat)), NEW rank \in Nat, NEW v \in Nat,
           RanksRightly(Merged(Distributions(samples)), rank, v)
    PROVE  LET all == FlattenSeq(samples)
           IN  /\ Cardinality({i \in DOMAIN all : all[i] <= v}) >= rank - Slack(samples)
               /\ Cardinality({i \in DOMAIN all : all[i] < v})
                      <= Greatest(rank - 1, 0) + Slack(samples)
<1> DEFINE all == FlattenSeq(samples)
           q == Merged(Distributions(samples))
<1>1. all \in Seq(Nat)
  BY MergedCounts
<1>2. \A i \in DOMAIN all : all[i] \in Nat
  BY <1>1, SequenceDomain
<1>3. {i \in DOMAIN all : all[i] <= v} = {i \in DOMAIN all : all[i] < v + 1}
  BY <1>2
<1> HIDE DEF all
<1>4. /\ Total(all, Below(v + 1)) = Cardinality({i \in DOMAIN all : all[i] < v + 1})
      /\ Total(all, Below(v)) = Cardinality({i \in DOMAIN all : all[i] < v})
  BY <1>1, CountBelow
<1>5. /\ Total(all, Below(v)) \in Nat /\ Total(q, Weight(v)) \in Nat /\ Slack(samples) \in Nat
      /\ Total(all, Below(v)) <= Total(q, Weight(v)) + Slack(samples)
  BY MergingShifts DEF all
<1>6. /\ Total(all, Below(v + 1)) \in Nat /\ Total(q, Weight(v + 1)) \in Nat
      /\ Total(q, Weight(v + 1)) <= Total(all, Below(v + 1)) + Slack(samples)
  <2>1. v + 1 \in Nat
    OBVIOUS
  <2>2. QED
    BY <2>1, MergingShifts DEF all
<1>7. Total(q, Weight(v + 1)) >= rank /\ Total(q, Weight(v)) <= Greatest(rank - 1, 0)
  BY DEF RanksRightly
<1>8. Greatest(rank - 1, 0) \in Nat
  BY DEF Greatest
<1> HIDE DEF q
<1>9. Total(all, Below(v + 1)) >= rank - Slack(samples)
  BY <1>5, <1>6, <1>7
<1>10. Total(all, Below(v)) <= Greatest(rank - 1, 0) + Slack(samples)
  BY <1>5, <1>7, <1>8
<1>11. QED
  BY <1>3, <1>4, <1>9, <1>10 DEF all

-----------------------------------------------------------------------------
(* The centroids written out again *)

Repeated(c) == [n \in 1..c.count |-> c.mean]

Worth(val) == [c \in Centroid |-> val[c.mean] * c.count]

LEMMA RepeatedTotal ==
    ASSUME NEW c \in Centroid, NEW val \in [Nat -> Nat]
    PROVE  Repeated(c) \in Seq(Nat) /\ Total(Repeated(c), val) = Worth(val)[c]
<1> DEFINE s == Repeated(c)
           D == 1..c.count
           f == [n \in D |-> val[s[n]]]
           x == val[c.mean]
<1>1. c.count \in Nat /\ c.mean \in Nat /\ x \in Nat
  <2>1. c.count \in Nat /\ c.mean \in Nat
    BY DEF Centroid
  <2>2. QED
    BY <2>1
<1>2. s \in Seq(Nat)
  <2>1. \A k \in Nat : [n \in 1..k |-> c.mean] \in Seq(Nat)
    <3> DEFINE y == c.mean
    <3>1. y \in Nat
      BY <1>1
    <3> HIDE DEF y
    <3>2. \A k \in Nat : [n \in 1..k |-> y] \in Seq(Nat)
      BY <3>1, IsASeq
    <3>3. QED
      BY <3>2 DEF y
  <2>2. [n \in 1..c.count |-> c.mean] \in Seq(Nat)
    BY <1>1, <2>1
  <2>3. QED
    BY <2>2 DEF Repeated
<1>3. DOMAIN s = D /\ \A n \in D : f[n] = x
  BY DEF Repeated
<1>4. IsFiniteSet(D) /\ Cardinality(D) = c.count
  <2>1. \A k \in Nat : IsFiniteSet(1..k) /\ Cardinality(1..k) = k
    BY FS_Interval
  <2>2. QED
    BY <1>1, <2>1
<1>5. Total(s, val) = SumFunctionOnSet(f, D)
  BY <1>3 DEF Total
<1> HIDE DEF s, D, f, x
<1>6. SumFunctionOnSet(f, D) = x * Cardinality(D)
  BY <1>1, <1>3, <1>4, SumOfConstant
<1>7. Worth(val)[c] = x * c.count
  BY DEF Worth, x
<1>8. QED
  BY <1>2, <1>4, <1>5, <1>6, <1>7 DEF s

Written(q) == FlattenSeq([k \in DOMAIN q |-> Repeated(q[k])])

LEMMA WrittenTotal ==
    ASSUME NEW q \in Seq(Centroid)
    PROVE  /\ Written(q) \in Seq(Nat)
           /\ \A val \in [Nat -> Nat] : Total(Written(q), val) = Total(q, Worth(val))
<1> DEFINE parts == [k \in DOMAIN q |-> Repeated(q[k])]
<1>1. Len(q) \in Nat /\ DOMAIN q = 1..Len(q) /\ \A k \in DOMAIN q : q[k] \in Centroid
  BY CentroidDomain
<1>2. DOMAIN parts = DOMAIN q /\ \A k \in DOMAIN q : parts[k] = Repeated(q[k])
  OBVIOUS
<1>3. parts \in Seq(Seq(Nat))
  <2>1. ASSUME NEW k \in 1..Len(q)
        PROVE  Repeated(q[k]) \in Seq(Nat)
    <3>1. [v \in Nat |-> 0] \in [Nat -> Nat] /\ q[k] \in Centroid
      BY <1>1
    <3>2. QED
      BY <3>1, RepeatedTotal
  <2>2. [k \in 1..Len(q) |-> Repeated(q[k])] \in Seq(Seq(Nat))
    BY <1>1, <2>1, IsASeq
  <2>3. QED
    BY <1>1, <2>2
<1>4. Written(q) = FlattenSeq(parts)
  BY DEF Written
<1> HIDE DEF parts
<1>5. /\ FlattenSeq(parts) \in Seq(Nat)
      /\ \A val \in [Nat -> Nat] :
             Total(FlattenSeq(parts), val)
                 = SumFunction([k \in DOMAIN parts |-> Total(parts[k], val)])
  BY <1>3, TotalOfFlattened
<1>6. ASSUME NEW val \in [Nat -> Nat]
      PROVE  Total(Written(q), val) = Total(q, Worth(val))
  <2>1. [k \in DOMAIN parts |-> Total(parts[k], val)]
            = [k \in DOMAIN q |-> Worth(val)[q[k]]]
    BY <1>1, <1>2, RepeatedTotal
  <2> DEFINE g == [k \in DOMAIN q |-> Worth(val)[q[k]]]
  <2>2. Total(Written(q), val) = SumFunction(g)
    BY <1>4, <1>5, <2>1
  <2>3. SumFunction(g) = SumFunctionOnSet(g, DOMAIN q)
    BY DEF SumFunction
  <2>4. QED
    BY <2>2, <2>3 DEF Total
<1>7. QED
  BY <1>4, <1>5, <1>6

LEMMA ExpandedTotal ==
    ASSUME NEW samples \in Seq(Seq(Nat))
    PROVE  LET query == Expanded(Distributions(samples))
               all == Merged(Distributions(samples))
           IN  /\ query \in Seq(Nat) /\ Len(query) = Len(FlattenSeq(samples))
               /\ \A t \in Nat : Total(query, Below(t)) = Total(all, Weight(t))
<1> DEFINE W == DOMAIN samples
           q(w) == Distribution(samples[w]).centroids
           parts == [w \in W |-> Written(q(w))]
           query == Expanded(Distributions(samples))
           all == Merged(Distributions(samples))
<1>1. /\ W = 1..Len(samples) /\ Len(samples) \in Nat
      /\ \A w \in W : samples[w] \in Seq(Nat)
  BY SequenceDomain
<1>2. \A w \in W : q(w) \in Seq(Centroid)
  BY <1>1, DistributionFacts
<1>3. query = FlattenSeq(parts)
  BY DEF Expanded, Distributions, Written, Repeated
<1>4. DOMAIN parts = W /\ \A w \in W : parts[w] = Written(q(w))
  OBVIOUS
<1>5. parts \in Seq(Seq(Nat))
  <2>1. \A w \in 1..Len(samples) : Written(q(w)) \in Seq(Nat)
    BY <1>1, <1>2, WrittenTotal
  <2> HIDE DEF q
  <2>2. [w \in 1..Len(samples) |-> Written(q(w))] \in Seq(Seq(Nat))
    BY <1>1, <2>1, IsASeq
  <2>3. QED
    BY <1>1, <2>2
<1>6. \A val \in [Centroid -> Nat] :
          Total(all, val) = SumFunction([w \in W |-> Total(q(w), val)])
  BY MergedFacts
<1> HIDE DEF W, q, parts, query, all
<1>7. /\ query \in Seq(Nat)
      /\ \A val \in [Nat -> Nat] :
             Total(query, val) = SumFunction([w \in DOMAIN parts |-> Total(parts[w], val)])
  BY <1>3, <1>5, TotalOfFlattened
<1>8. ASSUME NEW val \in [Nat -> Nat]
      PROVE  Total(query, val) = Total(all, Worth(val))
  <2>1. Worth(val) \in [Centroid -> Nat]
    <3>1. \A c \in Centroid : val[c.mean] * c.count \in Nat
      <4> SUFFICES ASSUME NEW c \in Centroid
                   PROVE  val[c.mean] * c.count \in Nat
        OBVIOUS
      <4>1. c.count \in Nat /\ c.mean \in Nat
        BY DEF Centroid
      <4>2. val[c.mean] \in Nat
        BY <4>1
      <4>3. \A x, y \in Nat : x * y \in Nat
        OBVIOUS
      <4>4. QED
        BY <4>1, <4>2, <4>3
    <3>2. QED
      BY <3>1 DEF Worth
  <2>2. \A w \in W : Total(parts[w], val) = Total(q(w), Worth(val))
    BY <1>2, <1>4, WrittenTotal
  <2>3. [w \in DOMAIN parts |-> Total(parts[w], val)] = [w \in W |-> Total(q(w), Worth(val))]
    BY <1>4, <2>2
  <2>4. QED
    BY <1>6, <1>7, <2>1, <2>3
<1>9. Worth(One) = CountOf
  BY DEF Worth, One, CountOf, Centroid
<1>10. \A t \in Nat : Worth(Below(t)) = Weight(t)
  BY DEF Worth, Below, Weight, Centroid
<1>11. Len(query) = Len(FlattenSeq(samples))
  <2>1. One \in [Nat -> Nat]
    BY DEF One
  <2>2. Total(query, One) = Len(query)
    BY <1>7, SizeIsTotal
  <2>3. Total(query, One) = Total(all, CountOf)
    BY <1>8, <1>9, <2>1
  <2>4. Total(all, CountOf) = Len(FlattenSeq(samples))
    BY MergedCounts, MergedFacts, TotalOfCounts DEF all
  <2>5. QED
    BY <2>2, <2>3, <2>4
<1>12. \A t \in Nat : Total(query, Below(t)) = Total(all, Weight(t))
  BY <1>8, <1>10, BelowType
<1>13. QED
  BY <1>7, <1>11, <1>12 DEF query, all

\* The other rule, on the same centroids, gives no smaller percentile.
LEMMA QueryIsNotLess ==
    ASSUME NEW samples \in Seq(Seq(Nat)), FlattenSeq(samples) # << >>,
           NEW percent \in Percents, NEW v \in Nat,
           RanksRightly(Merged(Distributions(samples)),
                        TargetRank(Len(FlattenSeq(samples)), percent), v)
    PROVE  v <= SummaryPercentile(Expanded(Distributions(samples)), percent)
<1> DEFINE query == Expanded(Distributions(samples))
           n == Len(query)
           s == Sorted(query)
           r == ((2 * percent * (n - 1) + 100) \div 200) + 1
           rank == TargetRank(n, percent)
<1>1. /\ query \in Seq(Nat) /\ n = Len(FlattenSeq(samples))
      /\ Total(query, Below(v)) = Total(Merged(Distributions(samples)), Weight(v))
  BY ExpandedTotal
<1>2. n \in Nat /\ n # 0
  <2>1. FlattenSeq(samples) \in Seq(Nat)
    BY MergedCounts
  <2>2. QED
    BY <1>1, <2>1, EmptySeq, SequenceDomain
<1>3. Total(query, Below(v)) <= Greatest(rank - 1, 0)
  BY <1>1 DEF RanksRightly
<1>4. SummaryPercentile(query, percent) = s[r]
  BY <1>2 DEF SummaryPercentile
<1>5. /\ \A i \in 1..n : s[i] \in Nat
      /\ \A i, j \in 1..n : i <= j => s[i] <= s[j]
  <2>1. s \in Seq(Nat) /\ Len(s) = n
    BY <1>1, SortedValues
  <2>2. \A i \in 1..n : s[i] \in Nat
    BY <2>1, SequenceDomain
  <2>3. QED
    BY <1>1, <2>2, SortedValues
<1>6. PICK a \in 0..n : \A i \in 1..n : s[i] < v <=> i <= a
  <2> HIDE DEF n, s
  <2>1. QED
    BY <1>2, <1>5, BelowComesFirst
<1>7. Total(query, Below(v)) = a
  BY <1>1, <1>6, BelowInOrder
<1> HIDE DEF query, n, s
<1>8. r \in 1..n /\ rank <= r /\ rank \in Nat
  BY <1>2, Ranks
<1> HIDE DEF r, rank
<1>9. ~(r <= a)
  BY <1>2, <1>3, <1>7, <1>8 DEF Greatest
<1>10. ~(s[r] < v) /\ s[r] \in Nat
  BY <1>5, <1>6, <1>8, <1>9
<1>11. QED
  BY <1>4, <1>10 DEF query

-----------------------------------------------------------------------------
(* The states of a run *)

Begun(seq, n) == [i \in 1..n |-> seq[i]]

Bucket == [ingest : Seq(Snapshot), query : Seq(Snapshot)]

\* What had arrived of a second by some time, going by what has arrived now.
Parts(bucket) ==
    {[ingest |-> Begun(bucket.ingest, m), query |-> Begun(bucket.query, n)] :
        m \in 0..Len(bucket.ingest), n \in 0..Len(bucket.query)}

LagsOf(bucket) ==
    {bucket.ingest[i].lag : i \in DOMAIN bucket.ingest}
        \cup {bucket.query[i].lag : i \in DOMAIN bucket.query}

\* The point is the one of the snapshots in the bucket, with the lag at one of them.
Made(point, bucket) ==
    \E lag \in LagsOf(bucket) : point = PointOf(point.second, bucket, lag)

Distinct(points) ==
    \A i, j \in DOMAIN points : points[i].second = points[j].second => i = j

\* Points of different seconds, each made of what had arrived of its second by some time.
Recorded(points, have) ==
    /\ points \in Seq(Point) /\ Distinct(points)
    /\ \A i \in DOMAIN points :
           /\ points[i].second \in DOMAIN have
           /\ \E part \in Parts(have[points[i].second]) : Made(points[i], part)

\* The timeline has one point for each second, made of all that has arrived of it.
Collected ==
    /\ run \in DOMAIN Runs
    /\ received \in [Workers -> Nat]
    /\ \A second \in DOMAIN buckets :
           second \in 1..(Modulus - 1) /\ buckets[second] \in Bucket
    /\ timeline \in Seq(Point) /\ Distinct(timeline)
    /\ {timeline[i].second : i \in DOMAIN timeline} = DOMAIN buckets
    /\ \A i \in DOMAIN timeline : Made(timeline[i], buckets[timeline[i].second])

\* The file is what had arrived by the time it was written, in order.
Filed ==
    /\ Recorded(written, buckets) /\ file = FileOf(written)
    /\ state # "Complete" => written = << >> /\ status = {} /\ report = {}

\* The status is computed from what had arrived by then, the report from the file; the
\* seconds of the timeline only become more.
Scored ==
    /\ Recorded(scored, buckets)
    /\ Len(scored) <= Len(timeline)
    /\ \A i \in DOMAIN scored : scored[i].second = timeline[i].second
    /\ \A s \in status : s.derived = Derived(scored)
    /\ \A r \in report : r.derived = Derived(file)

\* The inductive invariant.
IInv == Collected /\ Filed /\ Scored

LEMMA BegunType ==
    ASSUME NEW S, NEW q \in Seq(S), NEW n \in 0..Len(q)
    PROVE  /\ Begun(q, n) \in Seq(S) /\ Len(Begun(q, n)) = n
           /\ DOMAIN Begun(q, n) = 1..n
           /\ \A i \in 1..n : i \in DOMAIN q /\ Begun(q, n)[i] = q[i]
           /\ n = Len(q) => Begun(q, n) = q
<1>1. Len(q) \in Nat /\ DOMAIN q = 1..Len(q) /\ \A i \in DOMAIN q : q[i] \in S
  BY SequenceDomain
<1>2. n \in Nat /\ \A i \in 1..n : i \in DOMAIN q
  BY <1>1
<1>3. \A i \in 1..n : q[i] \in S
  BY <1>1, <1>2
<1>4. Begun(q, n) \in Seq(S)
  <2>1. [i \in 1..n |-> q[i]] \in Seq(S)
    BY <1>2, <1>3, IsASeq
  <2>2. QED
    BY <2>1 DEF Begun
<1>5. DOMAIN Begun(q, n) = 1..n /\ \A i \in 1..n : Begun(q, n)[i] = q[i]
  BY DEF Begun
<1>6. Len(Begun(q, n)) = n
  BY <1>2, <1>4, <1>5, LenProperties
<1>7. ASSUME n = Len(q)
      PROVE  Begun(q, n) = q
  BY <1>1, <1>7 DEF Begun
<1>8. QED
  BY <1>2, <1>4, <1>5, <1>6, <1>7

LEMMA Appended ==
    ASSUME NEW S, NEW q \in Seq(S), NEW x \in S
    PROVE  /\ Append(q, x) \in Seq(S) /\ Len(Append(q, x)) = Len(q) + 1
           /\ DOMAIN Append(q, x) = 1..(Len(q) + 1) /\ DOMAIN q = 1..Len(q) /\ Len(q) \in Nat
           /\ \A i \in 1..Len(q) : Append(q, x)[i] = q[i]
           /\ Append(q, x)[Len(q) + 1] = x
           /\ \A n \in 0..Len(q) :
                  n \in 0..Len(Append(q, x)) /\ Begun(Append(q, x), n) = Begun(q, n)
<1>1. /\ Append(q, x) \in Seq(S) /\ Len(Append(q, x)) = Len(q) + 1
      /\ \A i \in 1..Len(q) : Append(q, x)[i] = q[i]
      /\ Append(q, x)[Len(q) + 1] = x
  BY AppendProperties
<1>2. DOMAIN q = 1..Len(q) /\ Len(q) \in Nat /\ DOMAIN Append(q, x) = 1..Len(Append(q, x))
  BY <1>1, SequenceDomain
<1>3. ASSUME NEW n \in 0..Len(q)
      PROVE  n \in 0..Len(Append(q, x)) /\ Begun(Append(q, x), n) = Begun(q, n)
  <2>1. \A i \in 1..n : Append(q, x)[i] = q[i]
    BY <1>1, <1>2
  <2>2. n \in 0..(Len(q) + 1)
    BY <1>2
  <2>3. QED
    BY <1>1, <2>1, <2>2 DEF Begun
<1>4. QED
  BY <1>1, <1>2, <1>3

LEMMA WholeIsPart ==
    ASSUME NEW bucket \in Bucket
    PROVE  bucket \in Parts(bucket)
<1>1. /\ bucket.ingest \in Seq(Snapshot) /\ bucket.query \in Seq(Snapshot)
      /\ bucket = [ingest |-> bucket.ingest, query |-> bucket.query]
  BY DEF Bucket
<1>2. /\ Len(bucket.ingest) \in 0..Len(bucket.ingest)
      /\ Len(bucket.query) \in 0..Len(bucket.query)
  BY <1>1, SequenceDomain
<1>3. /\ Begun(bucket.ingest, Len(bucket.ingest)) = bucket.ingest
      /\ Begun(bucket.query, Len(bucket.query)) = bucket.query
  BY <1>1, <1>2, BegunType
<1>4. QED
  BY <1>1, <1>2, <1>3 DEF Parts

\* A bucket only gains snapshots.
LEMMA BucketGrows ==
    ASSUME NEW bucket \in Bucket, NEW snapshot \in Snapshot
    PROVE  LET filled == WithSnapshot(bucket, snapshot)
           IN  /\ filled \in Bucket /\ snapshot.lag \in LagsOf(filled)
               /\ Parts(bucket) \subseteq Parts(filled)
<1> DEFINE ingest == bucket.ingest
           query == bucket.query
           filled == WithSnapshot(bucket, snapshot)
<1>1. /\ ingest \in Seq(Snapshot) /\ query \in Seq(Snapshot)
      /\ bucket = [ingest |-> ingest, query |-> query]
  BY DEF Bucket
<1>2. \A q \in Seq(Snapshot) :
          /\ Append(q, snapshot) \in Seq(Snapshot)
          /\ Len(q) + 1 \in DOMAIN Append(q, snapshot)
          /\ Append(q, snapshot)[Len(q) + 1] = snapshot
          /\ \A n \in 0..Len(q) :
                 /\ n \in 0..Len(Append(q, snapshot))
                 /\ Begun(Append(q, snapshot), n) = Begun(q, n)
  <2> TAKE q \in Seq(Snapshot)
  <2>1. Len(q) \in Nat /\ DOMAIN Append(q, snapshot) = 1..(Len(q) + 1)
    BY Appended
  <2>2. QED
    BY <2>1, Appended
<1>3. snapshot.mode \in {"ingest", "query"}
  BY DEF Snapshot
<1>4. CASE snapshot.mode = "ingest"
  <2>1. filled = [ingest |-> Append(ingest, snapshot), query |-> query]
    <3>1. filled = [bucket EXCEPT !.ingest = Append(ingest, snapshot)]
      BY <1>4 DEF WithSnapshot
    <3> HIDE DEF filled, ingest, query
    <3>2. \A a, b, c : [[ingest |-> a, query |-> b] EXCEPT !.ingest = c] = [ingest |-> c, query |-> b]
      OBVIOUS
    <3>3. bucket = [ingest |-> ingest, query |-> query]
      BY <1>1
    <3>4. filled = [[ingest |-> ingest, query |-> query]
                        EXCEPT !.ingest = Append(ingest, snapshot)]
      BY <3>1, <3>3, Zenon
    <3>5. QED
      BY <3>2, <3>4
  <2> HIDE DEF filled, ingest, query
  <2>2. filled.ingest = Append(ingest, snapshot) /\ filled.query = query
    BY <2>1
  <2>3. filled \in Bucket
    BY <1>1, <1>2, <2>1 DEF Bucket
  <2>4. snapshot.lag \in LagsOf(filled)
    BY <1>1, <1>2, <2>2 DEF LagsOf
  <2>5. Parts(bucket) \subseteq Parts(filled)
    <3>1. \A m \in 0..Len(ingest) :
              /\ m \in 0..Len(filled.ingest)
              /\ Begun(filled.ingest, m) = Begun(ingest, m)
      BY <1>1, <1>2, <2>2
    <3>2. bucket.ingest = ingest /\ bucket.query = query
      BY <1>1
    <3>3. QED
      BY <2>2, <3>1, <3>2 DEF Parts
  <2>6. QED
    BY <2>3, <2>4, <2>5 DEF filled
<1>5. CASE snapshot.mode = "query"
  <2>1. filled = [ingest |-> ingest, query |-> Append(query, snapshot)]
    <3>1. filled = [bucket EXCEPT !.query = Append(query, snapshot)]
      BY <1>5 DEF WithSnapshot
    <3> HIDE DEF filled, ingest, query
    <3>2. \A a, b, c : [[ingest |-> a, query |-> b] EXCEPT !.query = c] = [ingest |-> a, query |-> c]
      OBVIOUS
    <3>3. bucket = [ingest |-> ingest, query |-> query]
      BY <1>1
    <3>4. filled = [[ingest |-> ingest, query |-> query]
                        EXCEPT !.query = Append(query, snapshot)]
      BY <3>1, <3>3, Zenon
    <3>5. QED
      BY <3>2, <3>4
  <2> HIDE DEF filled, ingest, query
  <2>2. filled.ingest = ingest /\ filled.query = Append(query, snapshot)
    BY <2>1
  <2>3. filled \in Bucket
    BY <1>1, <1>2, <2>1 DEF Bucket
  <2>4. snapshot.lag \in LagsOf(filled)
    BY <1>1, <1>2, <2>2 DEF LagsOf
  <2>5. Parts(bucket) \subseteq Parts(filled)
    <3>1. \A n \in 0..Len(query) :
              /\ n \in 0..Len(filled.query)
              /\ Begun(filled.query, n) = Begun(query, n)
      BY <1>1, <1>2, <2>2
    <3>2. bucket.ingest = ingest /\ bucket.query = query
      BY <1>1
    <3>3. QED
      BY <2>2, <3>1, <3>2 DEF Parts
  <2>6. QED
    BY <2>3, <2>4, <2>5 DEF filled
<1>6. QED
  BY <1>3, <1>4, <1>5

SamplesOf(bucket) == [i \in DOMAIN bucket.query |-> bucket.query[i].latencies]

LEMMA SumOfField ==
    ASSUME NEW q \in Seq(Snapshot), NEW f, \A i \in DOMAIN q : f[i] \in Nat,
           DOMAIN f = DOMAIN q
    PROVE  SumFunction(f) \in Nat
<1>1. IsFiniteSet(DOMAIN q)
  BY SequenceDomain
<1>2. QED
  BY <1>1, SumOfNumbers DEF SumFunction

LEMMA PointType ==
    ASSUME NEW bucket \in Bucket, NEW lag \in LagsOf(bucket), NEW second \in 1..(Modulus - 1)
    PROVE  /\ PointOf(second, bucket, lag) \in Point
           /\ PointOf(second, bucket, lag).second = second
           /\ PointOf(second, bucket, lag).latency = Summary(Distributions(SamplesOf(bucket)))
           /\ SamplesOf(bucket) \in Seq(Seq(Nat))
<1> DEFINE ingest == bucket.ingest
           query == bucket.query
           samples == SamplesOf(bucket)
           phase == IF ingest # << >> THEN ingest[1].phase ELSE query[1].phase
           executed == SumFunction([i \in DOMAIN query |-> query[i].executed])
           errors == SumFunction([i \in DOMAIN query |-> query[i].errors])
           queryRate == SumFunction([i \in DOMAIN query |-> query[i].rate])
           produced == SumFunction([i \in DOMAIN ingest |-> ingest[i].produced])
           ingestRate == SumFunction([i \in DOMAIN ingest |-> ingest[i].rate])
<1>1. ingest \in Seq(Snapshot) /\ query \in Seq(Snapshot)
  BY DEF Bucket
<1>2. \A x \in Snapshot : /\ x.phase \in STRING /\ x.rate \in Nat /\ x.latencies \in Seq(Nat)
                         /\ x.executed \in Nat /\ x.errors \in Nat /\ x.produced \in Nat
                         /\ x.lag \in Nat
  BY DEF Snapshot
<1>3. \A q \in Seq(Snapshot) :
          /\ Len(q) \in Nat /\ DOMAIN q = 1..Len(q) /\ \A i \in DOMAIN q : q[i] \in Snapshot
          /\ q # << >> => 1 \in DOMAIN q
  <2> TAKE q \in Seq(Snapshot)
  <2>1. Len(q) \in Nat /\ DOMAIN q = 1..Len(q) /\ \A i \in DOMAIN q : q[i] \in Snapshot
    BY SequenceDomain
  <2>2. q # << >> => Len(q) # 0
    BY EmptySeq
  <2>3. QED
    BY <2>1, <2>2
<1>4. samples \in Seq(Seq(Nat))
  <2>1. samples = [i \in 1..Len(query) |-> query[i].latencies]
    BY <1>1, <1>3 DEF SamplesOf
  <2>2. \A i \in 1..Len(query) : query[i].latencies \in Seq(Nat)
    BY <1>1, <1>2, <1>3
  <2>3. Len(query) \in Nat
    BY <1>1, <1>3
  <2> HIDE DEF query, samples
  <2>4. QED
    BY <2>1, <2>2, <2>3, IsASeq
<1>5. lag \in Nat /\ (ingest # << >> \/ query # << >>)
  <2>1. CASE \E i \in DOMAIN ingest : lag = ingest[i].lag
    BY <1>1, <1>2, <1>3, <2>1, EmptySeq
  <2>2. CASE \E i \in DOMAIN query : lag = query[i].lag
    BY <1>1, <1>2, <1>3, <2>2, EmptySeq
  <2>3. QED
    BY <2>1, <2>2 DEF LagsOf
<1>6. phase \in STRING
  BY <1>1, <1>2, <1>3, <1>5
<1>7. executed \in Nat /\ errors \in Nat /\ queryRate \in Nat
  <2>1. \A i \in DOMAIN query :
            query[i].executed \in Nat /\ query[i].errors \in Nat /\ query[i].rate \in Nat
    BY <1>1, <1>2, <1>3
  <2> HIDE DEF query
  <2>2. QED
    BY <1>1, <2>1, SumOfField
<1>8. produced \in Nat /\ ingestRate \in Nat
  <2>1. \A i \in DOMAIN ingest : ingest[i].produced \in Nat /\ ingest[i].rate \in Nat
    BY <1>1, <1>2, <1>3
  <2> HIDE DEF ingest
  <2>2. QED
    BY <1>1, <2>1, SumOfField
<1>9. Distributions(samples) = [i \in DOMAIN query |-> Distribution(query[i].latencies)]
  BY DEF Distributions, SamplesOf
<1>10. PointOf(second, bucket, lag) =
           [second |-> second, phase |-> phase, latency |-> Summary(Distributions(samples)),
            executed |-> executed, errors |-> errors, queryRate |-> queryRate,
            produced |-> produced, ingestRate |-> ingestRate, lag |-> lag]
  BY <1>9, Zenon DEF PointOf
<1>11. Summary(Distributions(samples)) \in Summaries
  BY <1>4, SummaryType
<1>12. second \in Nat \ {0}
  OBVIOUS
<1> HIDE DEF phase, executed, errors, queryRate, produced, ingestRate, samples, ingest, query
<1>13. QED
  BY <1>4, <1>5, <1>6, <1>7, <1>8, <1>10, <1>11, <1>12 DEF Point, samples

\* The point replaces that of its second or comes after all others.
Entered(points, x) ==
    IF \E i \in DOMAIN points : points[i].second = x.second
    THEN [i \in DOMAIN points |-> IF points[i].second = x.second THEN x ELSE points[i]]
    ELSE Append(points, x)

LEMMA PointEnters ==
    ASSUME NEW points \in Seq(Point), Distinct(points), NEW x \in Point
    PROVE  LET after == Entered(points, x)
           IN  /\ after \in Seq(Point) /\ Distinct(after)
               /\ Len(points) \in Nat /\ Len(after) \in Nat /\ Len(points) <= Len(after)
               /\ \A i \in DOMAIN points :
                      i \in DOMAIN after /\ after[i].second = points[i].second
               /\ {after[i].second : i \in DOMAIN after}
                      = {points[i].second : i \in DOMAIN points} \cup {x.second}
               /\ \A i \in DOMAIN after :
                      \/ after[i] = x
                      \/ /\ i \in DOMAIN points /\ after[i] = points[i]
                         /\ after[i].second # x.second
<1> DEFINE n == Len(points)
           after == Entered(points, x)
<1>1. n \in Nat /\ DOMAIN points = 1..n /\ \A i \in 1..n : points[i] \in Point
  BY SequenceDomain
<1>2. CASE \E i \in DOMAIN points : points[i].second = x.second
  <2>1. after = [i \in 1..n |-> IF points[i].second = x.second THEN x ELSE points[i]]
    BY <1>1, <1>2 DEF Entered
  <2> HIDE DEF after, n
  <2>2. after \in Seq(Point) /\ Len(after) = n /\ DOMAIN after = 1..n
    <3>1. \A i \in 1..n :
              (IF points[i].second = x.second THEN x ELSE points[i]) \in Point
      BY <1>1
    <3>2. after \in Seq(Point)
      BY <1>1, <2>1, <3>1, IsASeq
    <3>3. QED
      BY <1>1, <2>1, <3>2, LenProperties
  <2>3. \A i \in 1..n :
            /\ after[i].second = points[i].second
            /\ after[i] = x \/ (after[i] = points[i] /\ after[i].second # x.second)
    BY <2>1
  <2>4. Distinct(after)
    BY <1>1, <2>2, <2>3 DEF Distinct
  <2>5. {after[i].second : i \in DOMAIN after}
            = {points[i].second : i \in DOMAIN points} \cup {x.second}
    BY <1>1, <1>2, <2>2, <2>3
  <2>6. n \in Nat /\ Len(after) = n /\ n <= Len(after)
    BY <1>1, <2>2
  <2>7. \A i \in DOMAIN points : i \in DOMAIN after /\ after[i].second = points[i].second
    BY <1>1, <2>2, <2>3
  <2>8. \A i \in DOMAIN after :
            \/ after[i] = x
            \/ /\ i \in DOMAIN points /\ after[i] = points[i]
               /\ after[i].second # x.second
    BY <1>1, <2>2, <2>3
  <2>9. QED
    BY <2>2, <2>4, <2>5, <2>6, <2>7, <2>8 DEF after, n
<1>3. CASE \A i \in DOMAIN points : points[i].second # x.second
  <2>1. after = Append(points, x)
    BY <1>3 DEF Entered
  <2> HIDE DEF after, n
  <2>2. /\ after \in Seq(Point) /\ Len(after) = n + 1 /\ DOMAIN after = 1..(n + 1)
        /\ \A i \in 1..n : after[i] = points[i]
        /\ after[n + 1] = x
    BY <2>1, Appended DEF n
  <2>3. \A i \in 1..(n + 1) : i = n + 1 \/ (i \in 1..n /\ i \in DOMAIN points)
    BY <1>1
  <2>4. n + 1 \in DOMAIN after /\ \A i \in 1..n : i \in DOMAIN after
    BY <1>1, <2>2
  <2>5. Distinct(after)
    BY <1>1, <1>3, <2>2, <2>3 DEF Distinct
  <2>6. {after[i].second : i \in DOMAIN after}
            = {points[i].second : i \in DOMAIN points} \cup {x.second}
    BY <1>1, <2>2, <2>3, <2>4
  <2>7. \A i \in DOMAIN after :
            \/ after[i] = x
            \/ /\ i \in DOMAIN points /\ after[i] = points[i]
               /\ after[i].second # x.second
    BY <1>1, <1>3, <2>2, <2>3
  <2>8. QED
    BY <1>1, <2>2, <2>4, <2>5, <2>6, <2>7 DEF after, n
<1>4. QED
  BY <1>2, <1>3

\* What is recorded stays so while buckets gain snapshots.
LEMMA RecordStays ==
    ASSUME NEW points, NEW have, NEW more, Recorded(points, have),
           \A second \in DOMAIN have :
               second \in DOMAIN more /\ Parts(have[second]) \subseteq Parts(more[second])
    PROVE  Recorded(points, more)
BY DEF Recorded

LEMMA TimelineIsRecorded ==
    ASSUME Collected
    PROVE  Recorded(timeline, buckets)
<1>1. \A i \in DOMAIN timeline : timeline[i].second \in DOMAIN buckets
  BY DEF Collected
<1>2. \A second \in DOMAIN buckets : buckets[second] \in Parts(buckets[second])
  BY WholeIsPart DEF Collected
<1>3. QED
  BY <1>1, <1>2 DEF Collected, Recorded

LEMMA NothingIsRecorded ==
    ASSUME NEW have
    PROVE  Recorded(<< >>, have) /\ FileOf(<< >>) = << >>
<1>1. << >> \in Seq(Point) /\ DOMAIN << >> = {} /\ Len(<< >>) = 0
  BY EmptySeq
<1>2. FileOf(<< >>) \in Seq(Point) /\ Len(FileOf(<< >>)) = 0
  BY <1>1, FileIsRearranged
<1>3. FileOf(<< >>) = << >>
  BY <1>2, EmptySeq
<1>4. QED
  BY <1>1, <1>3 DEF Recorded, Distinct

LEMMA Initially == Init => IInv
<1> SUFFICES ASSUME Init
             PROVE  IInv
  OBVIOUS
<1>1. /\ run \in DOMAIN Runs /\ received = [w \in Workers |-> 0] /\ buckets = << >>
      /\ timeline = << >> /\ state = "Collecting"
      /\ file = << >> /\ status = {} /\ report = {} /\ written = << >> /\ scored = << >>
  BY DEF Init
<1>2. /\ timeline \in Seq(Point) /\ Len(timeline) = 0 /\ DOMAIN timeline = {}
      /\ DOMAIN buckets = {}
  BY <1>1, EmptySeq
<1>3. Recorded(<< >>, buckets) /\ FileOf(<< >>) = << >>
  BY NothingIsRecorded
<1>4. Collected
  BY <1>1, <1>2 DEF Collected, Distinct
<1>5. Filed
  BY <1>1, <1>3 DEF Filed
<1>6. Scored
  BY <1>1, <1>2, <1>3 DEF Scored
<1>7. QED
  BY <1>4, <1>5, <1>6 DEF IInv

LEMMA ReceiveKeeps ==
    ASSUME IInv, NEW worker \in Workers, ReceiveSnapshot(worker)
    PROVE  IInv'
<1> DEFINE snapshots == Runs[run].workers[worker]
           snapshot == snapshots[received[worker] + 1]
           second == snapshot.second
           bucket == IF second \in DOMAIN buckets THEN buckets[second] ELSE EmptyBucket
           filled == WithSnapshot(bucket, snapshot)
           x == PointOf(second, filled, snapshot.lag)
<1>1. Collected /\ Filed /\ Scored
  BY DEF IInv
<1>2. received \in [Workers -> Nat] /\ run \in DOMAIN Runs
  BY <1>1 DEF Collected
<1>3. /\ received[worker] \in Nat /\ received[worker] < Len(snapshots)
      /\ received' = [received EXCEPT ![worker] = received[worker] + 1]
      /\ UNCHANGED <<run, state, file, status, report, written, scored>>
  BY <1>2 DEF ReceiveSnapshot, histVars
<1>4. received' \in [Workers -> Nat] /\ received'[worker] = received[worker] + 1
  BY <1>2, <1>3
<1>5. /\ buckets' = [s \in DOMAIN buckets \cup {second} |->
                        IF s = second THEN filled ELSE buckets[s]]
      /\ timeline' = WithPoint(x)
  BY <1>4 DEF ReceiveSnapshot
<1>6. snapshot \in Snapshot
  <2>1. snapshots \in Seq(Snapshot)
    BY <1>2, RunSummaryAssumption DEF Workers
  <2> HIDE DEF snapshots
  <2>2. Len(snapshots) \in Nat /\ \A i \in 1..Len(snapshots) : snapshots[i] \in Snapshot
    BY <2>1, SequenceDomain
  <2>3. QED
    BY <1>3, <2>2
<1> HIDE DEF snapshot
<1>7. second \in 1..(Modulus - 1)
  BY <1>6 DEF Snapshot
<1>8. bucket \in Bucket
  <2>1. EmptyBucket \in Bucket
    <3>1. << >> \in Seq(Snapshot)
      BY EmptySeq
    <3>2. QED
      BY <3>1 DEF EmptyBucket, Bucket
  <2>2. QED
    BY <1>1, <2>1 DEF Collected
<1> HIDE DEF bucket, second
<1>9. /\ filled \in Bucket /\ snapshot.lag \in LagsOf(filled)
      /\ Parts(bucket) \subseteq Parts(filled)
  BY <1>6, <1>8, BucketGrows
<1> HIDE DEF filled
<1>10. x \in Point /\ x.second = second
  BY <1>7, <1>9, PointType
<1>11. Made(x, filled)
  BY <1>9, <1>10 DEF Made
<1> HIDE DEF x
<1>12. /\ timeline' \in Seq(Point) /\ Distinct(timeline')
       /\ Len(timeline) \in Nat /\ Len(timeline') \in Nat /\ Len(timeline) <= Len(timeline')
       /\ \A i \in DOMAIN timeline :
              i \in DOMAIN timeline' /\ timeline'[i].second = timeline[i].second
       /\ {timeline'[i].second : i \in DOMAIN timeline'}
              = {timeline[i].second : i \in DOMAIN timeline} \cup {second}
       /\ \A i \in DOMAIN timeline' :
              \/ timeline'[i] = x
              \/ /\ i \in DOMAIN timeline /\ timeline'[i] = timeline[i]
                 /\ timeline'[i].second # second
  <2>1. timeline \in Seq(Point) /\ Distinct(timeline)
    BY <1>1 DEF Collected
  <2>2. timeline' = Entered(timeline, x)
    BY <1>5, Zenon DEF WithPoint, Entered
  <2> DEFINE after == Entered(timeline, x)
  <2>3. /\ after \in Seq(Point) /\ Distinct(after)
        /\ Len(timeline) \in Nat /\ Len(after) \in Nat /\ Len(timeline) <= Len(after)
        /\ \A i \in DOMAIN timeline :
               i \in DOMAIN after /\ after[i].second = timeline[i].second
        /\ {after[i].second : i \in DOMAIN after}
               = {timeline[i].second : i \in DOMAIN timeline} \cup {x.second}
        /\ \A i \in DOMAIN after :
               \/ after[i] = x
               \/ /\ i \in DOMAIN timeline /\ after[i] = timeline[i]
                  /\ after[i].second # x.second
    BY <1>10, <2>1, PointEnters, Zenon
  <2>4. timeline' = after /\ x.second = second
    BY <1>10, <2>2
  <2> HIDE DEF after
  <2>5. QED
    BY <2>3, <2>4, Zenon
<1>13. /\ DOMAIN buckets' = DOMAIN buckets \cup {second} /\ buckets'[second] = filled
       /\ \A s \in DOMAIN buckets : s # second => buckets'[s] = buckets[s]
  BY <1>5
<1>14. \A s \in DOMAIN buckets :
           s \in DOMAIN buckets' /\ Parts(buckets[s]) \subseteq Parts(buckets'[s])
  BY <1>9, <1>13 DEF bucket
<1>15. Collected'
  <2>1. \A s \in DOMAIN buckets' : s \in 1..(Modulus - 1) /\ buckets'[s] \in Bucket
    BY <1>1, <1>7, <1>9, <1>13 DEF Collected
  <2>2. {timeline'[i].second : i \in DOMAIN timeline'} = DOMAIN buckets'
    BY <1>1, <1>12, <1>13 DEF Collected
  <2>3. \A i \in DOMAIN timeline' : Made(timeline'[i], buckets'[timeline'[i].second])
    <3> SUFFICES ASSUME NEW i \in DOMAIN timeline'
                 PROVE  Made(timeline'[i], buckets'[timeline'[i].second])
      OBVIOUS
    <3>1. CASE timeline'[i] = x
      BY <1>10, <1>11, <1>13, <3>1
    <3>2. CASE /\ i \in DOMAIN timeline /\ timeline'[i] = timeline[i]
               /\ timeline'[i].second # second
      <4>1. /\ timeline[i].second \in DOMAIN buckets
            /\ Made(timeline[i], buckets[timeline[i].second])
        BY <1>1, <3>2 DEF Collected
      <4>2. QED
        BY <1>13, <3>2, <4>1
    <3>3. QED
      BY <1>12, <3>1, <3>2
  <2>4. Workers' = Workers /\ run' \in DOMAIN Runs
    BY <1>2, <1>3 DEF Workers
  <2>5. QED
    BY <1>4, <1>12, <2>1, <2>2, <2>3, <2>4 DEF Collected
<1>16. Recorded(written', buckets') /\ Recorded(scored', buckets')
  <2>1. Recorded(written, buckets) /\ Recorded(scored, buckets)
    BY <1>1 DEF Filed, Scored
  <2>2. Recorded(written, buckets') /\ Recorded(scored, buckets')
    BY <1>14, <2>1, RecordStays
  <2>3. QED
    BY <1>3, <2>2
<1>17. Filed'
  BY <1>1, <1>3, <1>16 DEF Filed
<1>18. Scored'
  <2>1. DOMAIN scored = 1..Len(scored) /\ Len(scored) \in Nat
    BY <1>1, SequenceDomain DEF Scored, Recorded
  <2>2. DOMAIN timeline = 1..Len(timeline)
    BY <1>1, SequenceDomain DEF Collected
  <2>3. Len(scored) <= Len(timeline)
    BY <1>1 DEF Scored
  <2>4. \A i \in DOMAIN scored : i \in DOMAIN timeline
    BY <1>12, <2>1, <2>2, <2>3
  <2>5. \A i \in DOMAIN scored : scored[i].second = timeline'[i].second
    BY <1>1, <1>12, <2>4 DEF Scored
  <2>6. Len(scored) <= Len(timeline')
    BY <1>12, <2>1, <2>3
  <2>7. QED
    BY <1>1, <1>3, <1>16, <2>5, <2>6 DEF Scored
<1>19. QED
  BY <1>15, <1>17, <1>18 DEF IInv

LEMMA CollectedStays ==
    ASSUME Collected, UNCHANGED <<run, received, buckets, timeline>>
    PROVE  Collected'
BY DEF Collected, Workers

LEMMA CompletionFiles ==
    ASSUME Collected, Filed, CompleteAggregation, UNCHANGED buckets
    PROVE  /\ Recorded(written', buckets') /\ file' = FileOf(written')
           /\ state' = "Complete"
           /\ state = "Complete" => file' = file
<1>1. CASE state = "Complete"
  <2>1. state' = state /\ file' = file /\ written' = written
    BY <1>1 DEF CompleteAggregation
  <2>2. QED
    BY <1>1, <2>1 DEF Filed
<1>2. CASE state # "Complete"
  <2>1. state' = "Complete" /\ file' = FileOf(timeline) /\ written' = timeline
    BY <1>2 DEF CompleteAggregation
  <2>2. QED
    BY <1>2, <2>1, TimelineIsRecorded
<1>3. QED
  BY <1>1, <1>2

LEMMA IInvKept == IInv /\ [Next]_vars => IInv'
<1> SUFFICES ASSUME IInv, [Next]_vars
             PROVE  IInv'
  OBVIOUS
<1>1. Collected /\ Filed /\ Scored
  BY DEF IInv
<1>2. ASSUME NEW worker \in Workers, ReceiveSnapshot(worker)
      PROVE  IInv'
  BY <1>2, ReceiveKeeps
<1>3. CASE AllWorkersGone
  <2>1. /\ CompleteAggregation /\ state # "Complete"
        /\ UNCHANGED <<run, received, buckets, timeline, status, report, scored>>
    BY <1>3 DEF AllWorkersGone
  <2>2. Collected'
    BY <1>1, <2>1, CollectedStays
  <2>3. Filed'
    BY <1>1, <2>1, CompletionFiles DEF Filed
  <2>4. Scored'
    BY <1>1, <2>1 DEF Scored, Filed
  <2>5. QED
    BY <2>2, <2>3, <2>4 DEF IInv
<1>4. CASE GetResults
  <2>1. /\ CompleteAggregation /\ UNCHANGED <<run, received, buckets, timeline, report>>
        /\ status' = {[derived |-> Derived(timeline), valid |-> StatusValid(timeline)]}
        /\ scored' = timeline
    BY <1>4 DEF GetResults
  <2>2. Collected'
    BY <1>1, <2>1, CollectedStays
  <2>3. /\ Recorded(written', buckets') /\ file' = FileOf(written')
        /\ state' = "Complete"
        /\ state = "Complete" => file' = file
    BY <1>1, <2>1, CompletionFiles
  <2>4. Filed'
    BY <2>3 DEF Filed
  <2>5. Scored'
    <3>1. Recorded(scored', buckets')
      BY <1>1, <2>1, TimelineIsRecorded
    <3>2. /\ Len(scored') <= Len(timeline')
          /\ \A i \in DOMAIN scored' : scored'[i].second = timeline'[i].second
      <4>1. Len(timeline) \in Nat
        BY <1>1, SequenceDomain DEF Collected
      <4>2. QED
        BY <2>1, <4>1
    <3>3. \A s \in status' : s.derived = Derived(scored')
      BY <2>1
    <3>4. \A r \in report' : r.derived = Derived(file')
      BY <1>1, <2>1, <2>3 DEF Scored, Filed
    <3>5. QED
      BY <3>1, <3>2, <3>3, <3>4 DEF Scored
  <2>6. QED
    BY <2>2, <2>4, <2>5 DEF IInv
<1>5. CASE Report
  <2>1. /\ status # {}
        /\ UNCHANGED <<run, received, buckets, timeline, state, file, status, written, scored>>
        /\ report' = {[derived |-> Derived(file), valid |-> ReportValid(file)]}
    BY <1>5 DEF Report, histVars
  <2>2. Collected'
    BY <1>1, <2>1, CollectedStays
  <2>3. Filed'
    BY <1>1, <2>1 DEF Filed
  <2>4. \A r \in report' : r.derived = Derived(file')
    BY <2>1
  <2>5. Scored'
    BY <1>1, <2>1, <2>4 DEF Scored
  <2>6. QED
    BY <2>2, <2>3, <2>5 DEF IInv
<1>6. CASE UNCHANGED vars
  <2>1. UNCHANGED <<run, received, buckets, timeline, state, file, status, report,
                    written, scored>>
    BY <1>6 DEF vars, histVars
  <2>2. Collected'
    BY <1>1, <2>1, CollectedStays
  <2>3. Filed' /\ Scored'
    BY <1>1, <2>1 DEF Filed, Scored
  <2>4. QED
    BY <2>2, <2>3 DEF IInv
<1>7. QED
  BY <1>2, <1>3, <1>4, <1>5, <1>6 DEF Next

\* Every reachable state satisfies the inductive invariant: the timeline has one point for
\* each second, made of all snapshots of it, which later ones make again; the file, and
\* what the results were computed from, hold points of different seconds, each made of
\* the snapshots that were the first to arrive; the report is computed from the file.
THEOREM RunIsRecorded == Spec => []IInv
<1>1. Init => IInv
  BY Initially
<1>2. IInv /\ [Next]_vars => IInv'
  BY IInvKept
<1>3. QED
  BY <1>1, <1>2, PTL DEF Spec

LEMMA AgreeInState == IInv => ScorecardsAgree
<1> SUFFICES ASSUME IInv, written = scored, NEW r \in report, NEW s \in status
             PROVE  /\ WithoutTimes(r.derived) = WithoutTimes(s.derived)
                    /\ InOrder(timeline) => r.derived = s.derived
  BY DEF ScorecardsAgree
<1>1. /\ scored \in Seq(Point) /\ s.derived = Derived(scored) /\ r.derived = Derived(file)
      /\ file = FileOf(scored)
  BY DEF IInv, Filed, Scored, Recorded
<1>2. WithoutTimes(Derived(FileOf(scored))) = WithoutTimes(Derived(scored))
  BY <1>1, SameWithoutTimes
<1>3. ASSUME InOrder(timeline)
      PROVE  FileOf(scored) = scored
  <2>1. /\ Len(scored) <= Len(timeline)
        /\ \A i \in DOMAIN scored : scored[i].second = timeline[i].second
    BY DEF IInv, Scored
  <2>2. DOMAIN scored = 1..Len(scored) /\ Len(scored) \in Nat /\ Len(timeline) \in Nat
    BY <1>1, SequenceDomain DEF IInv, Collected
  <2>3. \A i \in 2..Len(scored) :
            i - 1 \in DOMAIN scored /\ i \in DOMAIN scored /\ i \in 2..Len(timeline)
    BY <2>1, <2>2
  <2>4. InOrder(scored)
    BY <1>3, <2>1, <2>3 DEF InOrder
  <2>5. QED
    BY <1>1, <2>4, InOrderIncreases, FileInOrder
<1>4. QED
  BY <1>1, <1>2, <1>3

LEMMA MatchesInState == IInv => ReportMatchesReference
<1> SUFFICES ASSUME IInv, NEW r \in report
             PROVE  /\ r.derived.recoveryTime = ReferenceRecovery(ToSet(file))
                    /\ r.derived.drainTime = ReferenceDrain(ToSet(file))
  BY DEF ReportMatchesReference
<1>1. /\ written \in Seq(Point) /\ file = FileOf(written) /\ r.derived = Derived(file)
      /\ \A i, j \in DOMAIN written : written[i].second = written[j].second => i = j
  BY DEF IInv, Filed, Scored, Recorded, Distinct
<1>2. \A i \in DOMAIN written : written[i].second <= Modulus - 1
  <2>1. \A i \in DOMAIN written : written[i].second \in DOMAIN buckets
    BY DEF IInv, Filed, Recorded
  <2>2. QED
    BY <2>1, RunSummaryAssumption DEF IInv, Collected
<1>3. file \in Seq(Point) /\ Increasing(file)
  BY <1>1, FileIsRearranged, FileIncreases
<1>4. Modulus - 1 \in Nat /\ Modulus - 1 < Modulus
  BY RunSummaryAssumption
<1>5. \A i \in DOMAIN file : file[i].second <= Modulus - 1
  <2>1. /\ DOMAIN file = DOMAIN written
        /\ \A i \in DOMAIN written : file[i] = written[Nth(Seconds(written), i)]
    BY <1>1, FileIsRearranged
  <2>2. \A i \in DOMAIN written : Nth(Seconds(written), i) \in DOMAIN written
    BY <1>1, FileIsRearranged, PlacesTaken
  <2>3. QED
    BY <1>2, <2>1, <2>2
<1>6. RecoveryTime(file, MeanOf(P99s(file), InPhases(file, {"baseline"})))
          = ReferenceRecovery(ToSet(file))
  BY <1>3, <1>4, <1>5, RecoveryIsReference
<1>7. DrainTime(file, PeakBacklog(file)) = ReferenceDrain(ToSet(file))
  BY <1>3, DrainIsReference
<1>8. /\ Derived(file).recoveryTime
             = RecoveryTime(file, MeanOf(P99s(file), InPhases(file, {"baseline"})))
      /\ Derived(file).drainTime = DrainTime(file, PeakBacklog(file))
  BY DEF Derived
<1>9. QED
  BY <1>1, <1>6, <1>7, <1>8

\* What is said of the percentiles of a second.
Bracketed(samples, summary, query) ==
    /\ summary.p50 <= summary.p95 /\ summary.p95 <= summary.p99
    /\ summary.p99 <= summary.max
    /\ RankIsRight(samples, summary.p50, 50)
    /\ RankIsRight(samples, summary.p95, 95)
    /\ RankIsRight(samples, summary.p99, 99)
    /\ summary.p50 <= SummaryPercentile(query, 50)
    /\ summary.p95 <= SummaryPercentile(query, 95)
    /\ summary.p99 <= SummaryPercentile(query, 99)

LEMMA SummaryIsBracketed ==
    ASSUME NEW samples \in Seq(Seq(Nat)), FlattenSeq(samples) # << >>
    PROVE  Bracketed(samples, Summary(Distributions(samples)),
                     Expanded(Distributions(samples)))
<1> DEFINE summary == Summary(Distributions(samples))
           all == Merged(Distributions(samples))
           flat == FlattenSeq(samples)
           query == Expanded(Distributions(samples))
           n == Len(flat)
<1>1. flat \in Seq(Nat) /\ n \in Nat /\ n # 0
  <2>1. flat \in Seq(Nat)
    BY MergedCounts
  <2>2. QED
    BY <2>1, SequenceDomain, EmptySeq
<1>2. all # << >>
  <2>1. SumFunction(Counts(all)) = n /\ all \in Seq(Centroid)
    BY MergedCounts, MergedFacts
  <2> SUFFICES ASSUME all = << >>
               PROVE  FALSE
    OBVIOUS
  <2>2. Counts(all) = [k \in {} |-> 0]
    <3> HIDE DEF all
    <3>1. DOMAIN all = {}
      BY EmptySeq
    <3>2. QED
      BY <3>1 DEF Counts
  <2>3. SumFunction(Counts(all)) = 0
    <3>1. DOMAIN Counts(all) = {}
      BY <2>2
    <3>2. QED
      BY <3>1, SumOfNone DEF SumFunction
  <2>4. QED
    BY <1>1, <2>1, <2>3
<1>3. /\ summary \in Summaries
      /\ summary.p50 <= summary.p95 /\ summary.p95 <= summary.p99 /\ summary.p99 <= summary.max
      /\ RanksRightly(all, TargetRank(n, 50), summary.p50)
      /\ RanksRightly(all, TargetRank(n, 95), summary.p95)
      /\ RanksRightly(all, TargetRank(n, 99), summary.p99)
  BY <1>2, SummaryIsRight
<1>4. summary.p50 \in Nat /\ summary.p95 \in Nat /\ summary.p99 \in Nat
  BY <1>3 DEF Summaries
<1>5. 50 \in Percents /\ 95 \in Percents /\ 99 \in Percents
  BY DEF Percents
<1> HIDE DEF summary
<1>6. ASSUME NEW percent \in Percents, NEW v \in Nat,
             RanksRightly(all, TargetRank(n, percent), v)
      PROVE  RankIsRight(samples, v, percent) /\ v <= SummaryPercentile(query, percent)
  <2>1. TargetRank(n, percent) \in Nat
    BY <1>1, Ranks
  <2>2. /\ Cardinality({i \in DOMAIN flat : flat[i] <= v})
               >= TargetRank(n, percent) - Slack(samples)
        /\ Cardinality({i \in DOMAIN flat : flat[i] < v})
               <= Greatest(TargetRank(n, percent) - 1, 0) + Slack(samples)
    BY <1>6, <2>1, RankAmongAll
  <2>3. RankIsRight(samples, v, percent)
    BY <2>2 DEF RankIsRight
  <2>4. v <= SummaryPercentile(query, percent)
    BY <1>6, QueryIsNotLess
  <2>5. QED
    BY <2>3, <2>4
<1>7. /\ RankIsRight(samples, summary.p50, 50) /\ summary.p50 <= SummaryPercentile(query, 50)
      /\ RankIsRight(samples, summary.p95, 95) /\ summary.p95 <= SummaryPercentile(query, 95)
      /\ RankIsRight(samples, summary.p99, 99) /\ summary.p99 <= SummaryPercentile(query, 99)
  BY <1>3, <1>4, <1>5, <1>6
<1> HIDE DEF query
<1>8. QED
  BY <1>3, <1>7 DEF Bracketed, summary, query

LEMMA BracketedInState == IInv => PercentilesBracketed
<1> SUFFICES ASSUME IInv
             PROVE  PercentilesBracketed
  OBVIOUS
<1>1. ASSUME NEW i \in DOMAIN timeline, FlattenSeq(Samples(timeline[i].second)) # << >>
      PROVE  Bracketed(Samples(timeline[i].second), timeline[i].latency,
                       Expanded(Distributions(Samples(timeline[i].second))))
  <2> DEFINE second == timeline[i].second
             bucket == buckets[second]
  <2>1. /\ second \in DOMAIN buckets /\ Made(timeline[i], bucket)
    BY DEF IInv, Collected
  <2>2. second \in 1..(Modulus - 1) /\ bucket \in Bucket
    BY <2>1 DEF IInv, Collected
  <2>3. Samples(second) = SamplesOf(bucket)
    BY DEF Samples, SamplesOf
  <2> HIDE DEF second, bucket
  <2>4. PICK lag \in LagsOf(bucket) : timeline[i] = PointOf(second, bucket, lag)
    BY <2>1 DEF Made, second
  <2>5. /\ SamplesOf(bucket) \in Seq(Seq(Nat))
        /\ timeline[i].latency = Summary(Distributions(SamplesOf(bucket)))
    BY <2>2, <2>4, PointType
  <2>6. FlattenSeq(SamplesOf(bucket)) # << >>
    BY <1>1, <2>3 DEF second
  <2>7. Bracketed(SamplesOf(bucket), timeline[i].latency,
                  Expanded(Distributions(SamplesOf(bucket))))
    BY <2>5, <2>6, SummaryIsBracketed
  <2>8. QED
    BY <2>3, <2>7 DEF second
<1>2. QED
  BY <1>1, Zenon DEF PercentilesBracketed, Bracketed, Distributions

\* Whatever the order in which the snapshots arrived, and however early or late the
\* aggregation was completed, the recovery and the drain time of the report are those
\* of the set of the seconds that its file holds (complete_aggregation sorts what
\* compute_derived then scans in order).
THEOREM ReportAlwaysMatches == Spec => []ReportMatchesReference
<1>1. Spec => []IInv
  BY RunIsRecorded
<1>2. IInv => ReportMatchesReference
  BY MatchesInState
<1>3. QED
  BY <1>1, <1>2, PTL

\* When no snapshot changed the timeline between the writing of the file and the computing
\* of the results, the operator's status and the reporter's report hold the same
\* scorecard, whatever arrives later, but for the two times when the seconds appeared
\* out of order.
THEOREM ScorecardsAlwaysAgree == Spec => []ScorecardsAgree
<1>1. Spec => []IInv
  BY RunIsRecorded
<1>2. IInv => ScorecardsAgree
  BY AgreeInState
<1>3. QED
  BY <1>1, <1>2, PTL

\* For any number of workers, latencies and buckets: the percentiles of every second are
\* ordered, have the ranks they are named for among all measured latencies up to what
\* compression may shift, and do not exceed those of the per-query summary.
THEOREM PercentilesAlwaysBracketed == Spec => []PercentilesBracketed
<1>1. Spec => []IInv
  BY RunIsRecorded
<1>2. IInv => PercentilesBracketed
  BY BracketedInState
<1>3. QED
  BY <1>1, <1>2, PTL

=============================================================================
