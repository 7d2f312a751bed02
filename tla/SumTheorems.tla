---------------------------- MODULE SumTheorems ----------------------------
(***************************************************************************)
(* What SumFunctionOnSet of the community modules computes, for any finite *)
(* set of integers to add: it takes one element after the other in some    *)
(* order, so that its facts are proved by induction on the size of a set.  *)
(* With them, what the scores, slopes and counts of the other modules need *)
(* of sums, and that what has distinct stamps can be put in order.         *)
(***************************************************************************)
EXTENDS FiniteSetsExt, FiniteSetTheorems, WellFoundedInduction, TLAPS

(* Every non-empty set of natural numbers has a least element.              *)
LEMMA LeastNatural ==
    ASSUME NEW T \in SUBSET Nat, T # {}
    PROVE  \E m \in T : \A k \in T : m <= k
<1> DEFINE R == OpToRel(<, Nat)
<1>1. \A x, y \in Nat : x < y => <<x, y>> \in R
  BY DEF OpToRel
<1>2. IsWellFoundedOn(R, Nat)
  BY NatLessThanWellFounded
<1> HIDE DEF R
<1>3. PICK m \in T : \A k \in T : ~(<<k, m>> \in R)
  BY <1>2, WFMin
<1>4. \A k \in T : ~(k < m)
  BY <1>1, <1>3
<1> QED
  BY <1>4

(* So has whatever natural numbers measure a least one.                     *)
LEMMA LeastOf ==
    ASSUME NEW S, NEW a \in S, NEW f, \A x \in S : f[x] \in Nat
    PROVE  \E m \in S : \A x \in S : f[m] <= f[x]
<1> DEFINE T == {f[x] : x \in S}
<1>1. T \in SUBSET Nat /\ f[a] \in T
  OBVIOUS
<1>2. PICK k \in T : \A l \in T : k <= l
  <2> HIDE DEF T
  <2>1. T # {}
    BY <1>1
  <2> QED
    BY <1>1, <2>1, LeastNatural
<1>3. PICK m \in S : k = f[m]
  OBVIOUS
<1> QED
  BY <1>2, <1>3

(* A set of numbers with 0 that holds each next number holds them all.      *)
LEMMA NatInduct ==
    ASSUME NEW P, 0 \in P, \A n \in P \cap Nat : n + 1 \in P
    PROVE  Nat \subseteq P
<1> SUFFICES ASSUME Nat \ P # {} PROVE FALSE
  OBVIOUS
<1>1. PICK m \in Nat \ P : \A k \in Nat \ P : m <= k
  BY LeastNatural
<1>2. m # 0 /\ m - 1 \in Nat
  BY <1>1
<1>3. m - 1 \in P
  BY <1>1, <1>2
<1> QED
  BY <1>1, <1>2, <1>3, (m - 1) + 1 = m

(* What holds of {} and survives one more element holds of a finite set.   *)
LEMMA FiniteInduct ==
    ASSUME NEW S, IsFiniteSet(S), NEW P, {} \in P,
           \A T \in SUBSET S : \A x \in S \ T : T \in P => T \cup {x} \in P
    PROVE  S \in P
<1> DEFINE N == {n \in Nat : \A T \in SUBSET S : Cardinality(T) = n => T \in P}
<1>1. 0 \in N
  BY FS_EmptySet, FS_Subset
<1>2. ASSUME NEW n \in N \cap Nat PROVE n + 1 \in N
  <2>1. ASSUME NEW T \in SUBSET S, Cardinality(T) = n + 1 PROVE T \in P
    <3>1. IsFiniteSet(T) /\ n + 1 # 0
      BY <2>1, FS_Subset
    <3>2. PICK x \in T : TRUE
      BY <3>1, <2>1, FS_EmptySet
    <3>3. Cardinality(T \ {x}) = n
      <4>1. Cardinality(T \ {x}) = Cardinality(T) - 1
        BY <3>1, FS_RemoveElement
      <4> QED
        BY <4>1, <2>1, n + 1 - 1 = n
    <3>4. T \ {x} \in P
      BY <3>3, <1>2
    <3> QED
      BY <3>4, T = (T \ {x}) \cup {x}
  <2> QED
    BY <2>1
<1>3. Nat \subseteq N
  <2> HIDE DEF N
  <2> QED
    BY <1>1, <1>2, NatInduct
<1> QED
  BY <1>3, FS_CardinalityType

(* The element a sum takes next, and the equation its values satisfy.       *)
Chosen(T) == CHOOSE x \in T : TRUE

Remaining(T) == T \ {Chosen(T)}

SumStep(f, S, g) ==
    [T \in SUBSET S |->
        IF T = {} THEN 0 ELSE f[Chosen(T)] + g[Remaining(T)]]

(* The element taken is one of the set.                                     *)
LEMMA ChosenInside == \A T : T # {} => Chosen(T) \in T
BY DEF Chosen

(* The sum of the community modules is a fixed point of SumStep.            *)
LEMMA SumUnfolds ==
    ASSUME NEW f, NEW S
    PROVE  SumFunctionOnSet(f, S) = (CHOOSE g : g = SumStep(f, S, g))[S]
BY DEF SumFunctionOnSet, FoldFunctionOnSet, MapThenFoldSet, SumStep, Chosen,
       Remaining

(* What remains of a finite set is smaller by one.                          *)
LEMMA RemainingSmaller ==
    ASSUME NEW T, IsFiniteSet(T), T # {}
    PROVE  /\ IsFiniteSet(Remaining(T))
           /\ Remaining(T) \subseteq T
           /\ Cardinality(T) \in Nat
           /\ Cardinality(Remaining(T)) = Cardinality(T) - 1
BY ChosenInside, FS_RemoveElement, FS_CardinalityType DEF Remaining

(* The recursion has a solution on a finite set, built level by level.      *)
LEMMA SumExists ==
    ASSUME NEW f, NEW S, IsFiniteSet(S)
    PROVE  \E g : g = SumStep(f, S, g)
<1> DEFINE Small(n) == {T \in SUBSET S : Cardinality(T) <= n}
           Def(g, T) == IF T = {} THEN 0 ELSE f[Chosen(T)] + g[Remaining(T)]
           Good(g, n) == g = [T \in Small(n) |-> Def(g, T)]
           N == {n \in Nat : \E g : Good(g, n)}
<1>1. ASSUME NEW T \in SUBSET S
      PROVE  IsFiniteSet(T) /\ Cardinality(T) \in Nat
  BY FS_Subset, FS_CardinalityType
<1>2. ASSUME NEW n \in Nat, NEW T \in Small(n + 1), T # {}
      PROVE  Remaining(T) \in Small(n)
  BY <1>1, <1>2, RemainingSmaller
<1>3. 0 \in N
  <2> DEFINE g == [T \in Small(0) |-> 0]
  <2>1. Small(0) = {{}}
    BY <1>1, FS_EmptySet
  <2>2. \A T \in Small(0) : Def(g, T) = 0
    BY <2>1
  <2>3. Good(g, 0)
    BY <2>2
  <2> QED
    BY <2>3
<1>4. ASSUME NEW n \in N \cap Nat PROVE n + 1 \in N
  <2>1. PICK g : Good(g, n)
    OBVIOUS
  <2>2. Small(n) \subseteq Small(n + 1)
    BY <1>1
  <2>3. PICK h : h = [T \in Small(n + 1) |-> Def(g, T)]
    OBVIOUS
  <2>4. \A T \in Small(n) : h[T] = g[T]
    BY <2>1, <2>2, <2>3
  <2> HIDE DEF Small
  <2>5. \A T \in Small(n + 1) : Def(h, T) = Def(g, T)
    BY <1>2, <2>4
  <2> HIDE DEF Def
  <2>6. h = [T \in Small(n + 1) |-> Def(h, T)]
    BY <2>3, <2>5
  <2> QED
    BY <2>6
<1>5. Cardinality(S) \in N
  <2> HIDE DEF N
  <2> QED
    BY <1>1, <1>3, <1>4, NatInduct
<1>6. Small(Cardinality(S)) = SUBSET S
  BY FS_Subset
<1>7. PICK g : Good(g, Cardinality(S))
  BY <1>5
<1> QED
  BY <1>6, <1>7 DEF SumStep

(* Two solutions agree where both are defined.                              *)
LEMMA SumsAgree ==
    ASSUME NEW f, NEW S, IsFiniteSet(S), NEW T \in SUBSET S,
           NEW g, g = SumStep(f, S, g), NEW h, h = SumStep(f, T, h)
    PROVE  g[T] = h[T]
<1> DEFINE N == {n \in Nat : \A U \in SUBSET T : Cardinality(U) = n => g[U] = h[U]}
<1>1. ASSUME NEW U \in SUBSET T
      PROVE  IsFiniteSet(U) /\ Cardinality(U) \in Nat
  BY FS_Subset, FS_CardinalityType
<1>2. ASSUME NEW U \in SUBSET T
      PROVE  /\ g[U] = IF U = {} THEN 0 ELSE f[Chosen(U)] + g[Remaining(U)]
             /\ h[U] = IF U = {} THEN 0 ELSE f[Chosen(U)] + h[Remaining(U)]
  BY DEF SumStep
<1>3. 0 \in N
  BY <1>1, <1>2, FS_EmptySet
<1>4. ASSUME NEW n \in N \cap Nat PROVE n + 1 \in N
  <2>1. ASSUME NEW U \in SUBSET T, Cardinality(U) = n + 1 PROVE g[U] = h[U]
    <3>1. CASE U = {}
      BY <3>1, <1>2
    <3>2. CASE U # {}
      <4>1. Remaining(U) \in SUBSET T /\ Cardinality(Remaining(U)) = n
        BY <2>1, <1>1, <3>2, RemainingSmaller
      <4> QED
        BY <4>1, <3>2, <1>2
    <3> QED
      BY <3>1, <3>2
  <2> QED
    BY <2>1
<1>5. Cardinality(T) \in N
  <2> HIDE DEF N
  <2> QED
    BY <1>1, <1>3, <1>4, NatInduct
<1> QED
  BY <1>5

(* A sum takes one element after the other.                                 *)
LEMMA SumEquation ==
    ASSUME NEW f, NEW S, IsFiniteSet(S)
    PROVE  SumFunctionOnSet(f, S) =
             IF S = {} THEN 0
             ELSE f[Chosen(S)] + SumFunctionOnSet(f, Remaining(S))
<1> DEFINE Solution(T) == CHOOSE g : g = SumStep(f, T, g)
<1>1. ASSUME NEW T, IsFiniteSet(T)
      PROVE  Solution(T) = SumStep(f, T, Solution(T))
  BY <1>1, SumExists
<1>2. \A T : SumFunctionOnSet(f, T) = Solution(T)[T]
  BY SumUnfolds
<1> HIDE DEF Solution
<1>3. CASE S = {}
  BY <1>1, <1>2, <1>3 DEF SumStep
<1>4. CASE S # {}
  <2>1. IsFiniteSet(Remaining(S)) /\ Remaining(S) \in SUBSET S
    BY <1>4, RemainingSmaller
  <2>2. Solution(S)[S] = f[Chosen(S)] + Solution(S)[Remaining(S)]
    BY <1>1, <1>4 DEF SumStep
  <2>3. Solution(S)[Remaining(S)] = Solution(Remaining(S))[Remaining(S)]
    BY <1>1, <2>1, SumsAgree
  <2> QED
    BY <1>2, <1>4, <2>2, <2>3
<1> QED
  BY <1>3, <1>4

(* Nothing adds up to 0.                                                    *)
LEMMA SumOfNone == \A f : SumFunctionOnSet(f, {}) = 0
BY SumEquation, FS_EmptySet

(* Induction over what a sum takes, for a property of finite sets.          *)
LEMMA RemainingInduct ==
    ASSUME NEW S, IsFiniteSet(S), NEW P, {} \in P,
           \A T \in SUBSET S : T # {} /\ Remaining(T) \in P => T \in P
    PROVE  S \in P
<1> DEFINE N == {n \in Nat : \A T \in SUBSET S : Cardinality(T) = n => T \in P}
<1>1. ASSUME NEW T \in SUBSET S
      PROVE  IsFiniteSet(T) /\ Cardinality(T) \in Nat
  BY FS_Subset, FS_CardinalityType
<1>2. 0 \in N
  BY <1>1, FS_EmptySet
<1>3. ASSUME NEW n \in N \cap Nat PROVE n + 1 \in N
  <2>1. ASSUME NEW T \in SUBSET S, Cardinality(T) = n + 1, T # {} PROVE T \in P
    <3>1. Remaining(T) \in SUBSET S /\ Cardinality(Remaining(T)) = n
      BY <2>1, <1>1, RemainingSmaller
    <3> QED
      BY <2>1, <3>1
  <2> QED
    BY <1>1, <2>1, FS_EmptySet
<1>4. Cardinality(S) \in N
  <2> HIDE DEF N
  <2> QED
    BY <1>1, <1>2, <1>3, NatInduct
<1> QED
  BY <1>4

(* Sums of integers are integers, and depend on the values they add only.   *)
LEMMA SumInteger ==
    ASSUME NEW f, NEW S, IsFiniteSet(S), \A x \in S : f[x] \in Int
    PROVE  SumFunctionOnSet(f, S) \in Int
<1> DEFINE P == {T \in SUBSET S : SumFunctionOnSet(f, T) \in Int}
<1>1. {} \in P
  BY SumOfNone
<1>2. ASSUME NEW T \in SUBSET S, T # {}, Remaining(T) \in P PROVE T \in P
  BY <1>2, SumEquation, ChosenInside, FS_Subset
<1>3. S \in P
  <2> HIDE DEF P
  <2> QED
    BY <1>1, <1>2, RemainingInduct
<1> QED
  BY <1>3

(* Functions that agree on the set have the same sum.                       *)
LEMMA SumSame ==
    ASSUME NEW f, NEW g, NEW S, IsFiniteSet(S), \A x \in S : f[x] = g[x]
    PROVE  SumFunctionOnSet(f, S) = SumFunctionOnSet(g, S)
<1> DEFINE P == {T \in SUBSET S : SumFunctionOnSet(f, T) = SumFunctionOnSet(g, T)}
<1>1. {} \in P
  BY SumOfNone
<1>2. ASSUME NEW T \in SUBSET S, T # {}, Remaining(T) \in P PROVE T \in P
  BY <1>2, SumEquation, ChosenInside, FS_Subset
<1>3. S \in P
  <2> HIDE DEF P
  <2> QED
    BY <1>1, <1>2, RemainingInduct
<1> QED
  BY <1>3

(* Any element may be taken first.                                          *)
LEMMA SumTakes ==
    ASSUME NEW f, NEW S, IsFiniteSet(S), \A x \in S : f[x] \in Int,
           NEW a \in S
    PROVE  SumFunctionOnSet(f, S) = f[a] + SumFunctionOnSet(f, S \ {a})
<1> DEFINE Sum(T) == SumFunctionOnSet(f, T)
           N == {n \in Nat : \A T \in SUBSET S : Cardinality(T) = n =>
                               \A x \in T : Sum(T) = f[x] + Sum(T \ {x})}
<1>1. ASSUME NEW T \in SUBSET S
      PROVE  /\ IsFiniteSet(T) /\ Cardinality(T) \in Nat
             /\ Sum(T) \in Int
             /\ T # {} => Sum(T) = f[Chosen(T)] + Sum(Remaining(T))
             /\ \A x \in T : Cardinality(T \ {x}) = Cardinality(T) - 1
  <2>1. IsFiniteSet(T) /\ Cardinality(T) \in Nat
    BY FS_Subset, FS_CardinalityType
  <2> QED
    BY <2>1, SumInteger, SumEquation, FS_RemoveElement
<1>2. 0 \in N
  BY <1>1, FS_EmptySet
<1>3. ASSUME NEW n \in N \cap Nat PROVE n + 1 \in N
  <2>1. ASSUME NEW T \in SUBSET S, Cardinality(T) = n + 1, NEW x \in T
        PROVE  Sum(T) = f[x] + Sum(T \ {x})
    <3>1. PICK c \in T : c = Chosen(T)
      BY ChosenInside
    <3>2. Sum(T) = f[c] + Sum(T \ {c})
      BY <3>1, <1>1 DEF Remaining
    <3>3. CASE c = x
      BY <3>2, <3>3
    <3>4. CASE c # x
      <4>1. Cardinality(T \ {c}) = n /\ Cardinality(T \ {x}) = n
        BY <2>1, <1>1
      <4>2. Sum(T \ {c}) = f[x] + Sum((T \ {c}) \ {x})
        <5> HIDE DEF Sum
        <5> QED
          BY <4>1, <3>4
      <4>3. Sum(T \ {x}) = f[c] + Sum((T \ {x}) \ {c})
        <5> HIDE DEF Sum
        <5> QED
          BY <4>1, <3>4
      <4>4. (T \ {c}) \ {x} = (T \ {x}) \ {c}
        OBVIOUS
      <4>5. PICK r \in Int : r = Sum((T \ {c}) \ {x})
        BY <1>1
      <4>6. f[x] + (f[c] + r) = f[c] + (f[x] + r)
        OBVIOUS
      <4> HIDE DEF Sum, N
      <4> QED
        BY <3>2, <4>2, <4>3, <4>4, <4>5, <4>6
    <3> QED
      BY <3>3, <3>4
  <2> QED
    BY <2>1
<1>4. Cardinality(S) \in N
  <2> HIDE DEF N
  <2> QED
    BY <1>1, <1>2, <1>3, NatInduct
<1> QED
  BY <1>4

(* A sum is monotone in what it adds.                                       *)
LEMMA SumMonotone ==
    ASSUME NEW f, NEW g, NEW S, IsFiniteSet(S),
           \A x \in S : f[x] \in Int /\ g[x] \in Int /\ f[x] <= g[x]
    PROVE  SumFunctionOnSet(f, S) <= SumFunctionOnSet(g, S)
<1> DEFINE P == {T \in SUBSET S :
                   /\ SumFunctionOnSet(f, T) \in Int
                   /\ SumFunctionOnSet(g, T) \in Int
                   /\ SumFunctionOnSet(f, T) <= SumFunctionOnSet(g, T)}
<1>1. {} \in P
  BY SumOfNone
<1>2. ASSUME NEW T \in SUBSET S, T # {}, Remaining(T) \in P PROVE T \in P
  BY <1>2, SumEquation, ChosenInside, FS_Subset
<1>3. S \in P
  <2> HIDE DEF P
  <2> QED
    BY <1>1, <1>2, RemainingInduct
<1> QED
  BY <1>3

(* The sum of a pointwise sum, and of a multiple.                           *)
LEMMA SumPlus ==
    ASSUME NEW f, NEW g, NEW h, NEW S, IsFiniteSet(S),
           \A x \in S : f[x] \in Int /\ g[x] \in Int /\ h[x] = f[x] + g[x]
    PROVE  SumFunctionOnSet(h, S) = SumFunctionOnSet(f, S) + SumFunctionOnSet(g, S)
<1> DEFINE P == {T \in SUBSET S :
                   /\ SumFunctionOnSet(f, T) \in Int
                   /\ SumFunctionOnSet(g, T) \in Int
                   /\ SumFunctionOnSet(h, T)
                        = SumFunctionOnSet(f, T) + SumFunctionOnSet(g, T)}
<1>1. {} \in P
  BY SumOfNone
<1>2. ASSUME NEW T \in SUBSET S, T # {}, Remaining(T) \in P PROVE T \in P
  BY <1>2, SumEquation, ChosenInside, FS_Subset
<1>3. S \in P
  <2> HIDE DEF P
  <2> QED
    BY <1>1, <1>2, RemainingInduct
<1> QED
  BY <1>3

(* A common factor may be taken out.                                        *)
LEMMA SumTimes ==
    ASSUME NEW f, NEW h, NEW S, IsFiniteSet(S), NEW k \in Int,
           \A x \in S : f[x] \in Int /\ h[x] = k * f[x]
    PROVE  SumFunctionOnSet(h, S) = k * SumFunctionOnSet(f, S)
<1> DEFINE P == {T \in SUBSET S :
                   /\ SumFunctionOnSet(f, T) \in Int
                   /\ SumFunctionOnSet(h, T) = k * SumFunctionOnSet(f, T)}
<1>1. {} \in P
  BY SumOfNone
<1>2. ASSUME NEW T \in SUBSET S, T # {}, Remaining(T) \in P PROVE T \in P
  <2>1. \A a, b \in Int : k * (a + b) = k * a + k * b
    OBVIOUS
  <2> QED
    BY <1>2, <2>1, SumEquation, ChosenInside, FS_Subset
<1>3. S \in P
  <2> HIDE DEF P
  <2> QED
    BY <1>1, <1>2, RemainingInduct
<1> QED
  BY <1>3

(* A constant adds up to its multiple.                                      *)
LEMMA SumConstant ==
    ASSUME NEW h, NEW S, IsFiniteSet(S), NEW k \in Int, \A x \in S : h[x] = k
    PROVE  SumFunctionOnSet(h, S) = k * Cardinality(S)
<1> DEFINE P == {T \in SUBSET S : SumFunctionOnSet(h, T) = k * Cardinality(T)}
<1>1. {} \in P
  BY SumOfNone, FS_EmptySet
<1>2. ASSUME NEW T \in SUBSET S, T # {}, Remaining(T) \in P PROVE T \in P
  <2>1. IsFiniteSet(T) /\ h[Chosen(T)] = k
    BY <1>2, ChosenInside, FS_Subset
  <2>2. PICK n \in Int : Cardinality(Remaining(T)) = n /\ Cardinality(T) = n + 1
    BY <1>2, <2>1, RemainingSmaller
  <2>3. k * (n + 1) = k + k * n
    OBVIOUS
  <2> QED
    BY <1>2, <2>1, <2>2, <2>3, SumEquation
<1>3. S \in P
  <2> HIDE DEF P
  <2> QED
    BY <1>1, <1>2, RemainingInduct
<1> QED
  BY <1>3

(* Changing one value changes the sum by as much.                           *)
LEMMA SumUpdate ==
    ASSUME NEW f, NEW g, NEW S, IsFiniteSet(S), NEW a \in S,
           \A x \in S : f[x] \in Int /\ g[x] \in Int,
           \A x \in S \ {a} : g[x] = f[x]
    PROVE  /\ SumFunctionOnSet(f, S) \in Int
           /\ SumFunctionOnSet(g, S) = SumFunctionOnSet(f, S) + (g[a] - f[a])
<1>1. IsFiniteSet(S \ {a})
  BY FS_RemoveElement
<1>2. PICK rest \in Int : /\ rest = SumFunctionOnSet(f, S \ {a})
                          /\ rest = SumFunctionOnSet(g, S \ {a})
  BY <1>1, SumInteger, SumSame
<1>3. (\A x \in S : f[x] \in Int) /\ (\A x \in S : g[x] \in Int)
  OBVIOUS
<1>4. SumFunctionOnSet(f, S) = f[a] + SumFunctionOnSet(f, S \ {a})
  BY <1>3, SumTakes
<1>5. SumFunctionOnSet(g, S) = g[a] + SumFunctionOnSet(g, S \ {a})
  BY <1>3, SumTakes
<1> QED
  BY <1>2, <1>3, <1>4, <1>5

(* A sum of natural numbers is one.                                         *)
LEMMA SumNatural ==
    ASSUME NEW f, NEW S, IsFiniteSet(S), \A x \in S : f[x] \in Nat
    PROVE  SumFunctionOnSet(f, S) \in Nat
<1> DEFINE P == {T \in SUBSET S : SumFunctionOnSet(f, T) \in Nat}
<1>1. {} \in P
  BY SumOfNone
<1>2. ASSUME NEW T \in SUBSET S, T # {}, Remaining(T) \in P PROVE T \in P
  BY <1>2, SumEquation, ChosenInside, FS_Subset
<1>3. S \in P
  <2> HIDE DEF P
  <2> QED
    BY <1>1, <1>2, RemainingInduct
<1> QED
  BY <1>3

(* What adds no negative value is no less than each value it adds.          *)
LEMMA SumIncludes ==
    ASSUME NEW f, NEW S, IsFiniteSet(S), \A x \in S : f[x] \in Nat, NEW a \in S
    PROVE  SumFunctionOnSet(f, S) \in Nat /\ SumFunctionOnSet(f, S) >= f[a]
<1> DEFINE zero == [x \in S |-> 0]
<1>1. IsFiniteSet(S \ {a})
  BY FS_RemoveElement
<1>2. SumFunctionOnSet(zero, S \ {a}) = 0
  <2>1. SumFunctionOnSet(zero, S \ {a}) = 0 * Cardinality(S \ {a})
    BY <1>1, SumConstant
  <2> QED
    BY <1>1, <2>1, FS_CardinalityType
<1>3. SumFunctionOnSet(zero, S \ {a}) <= SumFunctionOnSet(f, S \ {a})
  BY <1>1, SumMonotone
<1>4. /\ SumFunctionOnSet(f, S) = f[a] + SumFunctionOnSet(f, S \ {a})
      /\ SumFunctionOnSet(f, S \ {a}) \in Int
  BY <1>1, SumTakes, SumInteger
<1> QED
  BY <1>2, <1>3, <1>4

(* Adding fewer of them gives no more.                                      *)
LEMMA SumSubset ==
    ASSUME NEW f, NEW S, IsFiniteSet(S), \A x \in S : f[x] \in Nat,
           NEW T \in SUBSET S
    PROVE  SumFunctionOnSet(f, T) <= SumFunctionOnSet(f, S)
<1> DEFINE Sum(U) == SumFunctionOnSet(f, U)
           P == {U \in SUBSET S : Sum(U \cap T) <= Sum(U)}
<1>1. {} \in P
  BY SumOfNone
<1>2. ASSUME NEW U \in SUBSET S, U # {}, Remaining(U) \in P PROVE U \in P
  <2>1. PICK c \in U : c = Chosen(U) /\ Remaining(U) = U \ {c}
    BY <1>2, ChosenInside DEF Remaining
  <2>2. /\ IsFiniteSet(U) /\ IsFiniteSet(U \cap T)
        /\ IsFiniteSet(Remaining(U)) /\ IsFiniteSet(Remaining(U) \cap T)
    BY <2>1, FS_Subset
  <2>3. /\ Sum(U) = f[c] + Sum(Remaining(U)) /\ Sum(Remaining(U)) \in Nat
        /\ Sum(Remaining(U) \cap T) \in Nat /\ f[c] \in Nat
    BY <1>2, <2>1, <2>2, SumEquation, SumNatural
  <2>4. CASE c \in T
    <3>1. (U \cap T) \ {c} = Remaining(U) \cap T
      BY <2>1
    <3>2. \A x \in U \cap T : f[x] \in Int
      OBVIOUS
    <3>3. Sum(U \cap T) = f[c] + Sum((U \cap T) \ {c})
      BY ONLY <2>2, <2>4, c \in U, <3>2, SumTakes
    <3> QED
      BY <1>2, <2>3, <3>1, <3>3, SMTT(30)
  <2>5. CASE c \notin T
    <3>1. U \cap T = Remaining(U) \cap T
      BY <2>1, <2>5
    <3>2. Sum(Remaining(U) \cap T) <= Sum(Remaining(U))
      BY <1>2
    <3>3. Sum(U \cap T) = Sum(Remaining(U) \cap T)
      BY <3>1
    <3> QED
      BY <2>3, <3>2, <3>3
  <2> QED
    BY <2>4, <2>5
<1>3. S \in P
  <2> HIDE DEF P
  <2> QED
    BY <1>1, <1>2, RemainingInduct
<1> QED
  BY <1>3, S \cap T = T

(* The image of a finite set under a function is finite.                    *)
LEMMA ImageFinite ==
    ASSUME NEW S, IsFiniteSet(S), NEW f
    PROVE  IsFiniteSet({f[x] : x \in S})
<1> DEFINE T == {f[x] : x \in S}
           g == [x \in S |-> f[x]]
<1>1. g \in Surjection(S, T)
  BY DEF Surjection
<1> QED
  BY <1>1, FS_Surjection

(* The sum of a linear combination.                                         *)
LEMMA SumLinear ==
    ASSUME NEW S, IsFiniteSet(S), NEW f, NEW g, NEW h, NEW l,
           NEW a \in Int, NEW b \in Int, NEW c \in Int, NEW d \in Int,
           \A x \in S : f[x] \in Int /\ g[x] \in Int /\ h[x] \in Int,
           \A x \in S : l[x] = a * f[x] + b * g[x] + c * h[x] + d
    PROVE  /\ SumFunctionOnSet(f, S) \in Int
           /\ SumFunctionOnSet(g, S) \in Int
           /\ SumFunctionOnSet(h, S) \in Int
           /\ SumFunctionOnSet(l, S)
                = a * SumFunctionOnSet(f, S) + b * SumFunctionOnSet(g, S)
                  + c * SumFunctionOnSet(h, S) + d * Cardinality(S)
<1> DEFINE Sum(k, T) == SumFunctionOnSet(k, T)
           Good(F, G, H, L, n) ==
              /\ F \in Int /\ G \in Int /\ H \in Int /\ n \in Int
              /\ L = a * F + b * G + c * H + d * n
           P == {T \in SUBSET S :
                   Good(Sum(f, T), Sum(g, T), Sum(h, T), Sum(l, T), Cardinality(T))}
<1>1. {} \in P
  BY SumOfNone, FS_EmptySet
<1>2. ASSUME NEW T \in SUBSET S, T # {}, Remaining(T) \in P PROVE T \in P
  <2>1. IsFiniteSet(T)
    BY FS_Subset
  <2>2. PICK x \in T : x = Chosen(T)
    BY <1>2, ChosenInside
  <2>3. /\ Sum(f, T) = f[x] + Sum(f, Remaining(T))
        /\ Sum(g, T) = g[x] + Sum(g, Remaining(T))
        /\ Sum(h, T) = h[x] + Sum(h, Remaining(T))
        /\ Sum(l, T) = l[x] + Sum(l, Remaining(T))
    BY <1>2, <2>1, <2>2, SumEquation
  <2>4. Cardinality(T) \in Int /\ Cardinality(Remaining(T)) = Cardinality(T) - 1
    BY <1>2, <2>1, RemainingSmaller
  <2>5. Good(Sum(f, Remaining(T)), Sum(g, Remaining(T)), Sum(h, Remaining(T)),
             Sum(l, Remaining(T)), Cardinality(Remaining(T)))
    BY <1>2
  <2>6. /\ f[x] \in Int /\ g[x] \in Int /\ h[x] \in Int
        /\ l[x] = a * f[x] + b * g[x] + c * h[x] + d
    OBVIOUS
  <2>7. \A F, G, H, L, n, u, v, w, y \in Int :
          /\ L = a * F + b * G + c * H + d * n
          /\ y = a * u + b * v + c * w + d
          => y + L = a * (u + F) + b * (v + G) + c * (w + H) + d * (n + 1)
    <3>1. \A k, r, s \in Int : k * (r + s) = k * r + k * s
      OBVIOUS
    <3>2. \A F, G, H, L, n, u, v, w, y \in Int :
            /\ a * (u + F) = a * u + a * F /\ b * (v + G) = b * v + b * G
            /\ c * (w + H) = c * w + c * H /\ d * (n + 1) = d * n + d
      BY <3>1
    <3>3. \A r, s \in Int : r * s \in Int
      OBVIOUS
    <3> SUFFICES ASSUME NEW F \in Int, NEW G \in Int, NEW H \in Int, NEW L \in Int,
                        NEW n \in Int, NEW u \in Int, NEW v \in Int,
                        NEW w \in Int, NEW y \in Int,
                        L = a * F + b * G + c * H + d * n,
                        y = a * u + b * v + c * w + d
                 PROVE  y + L = a * (u + F) + b * (v + G) + c * (w + H) + d * (n + 1)
      OBVIOUS
    <3> QED
      BY <3>2, <3>3
  <2>8. \A r, s \in Int : r * s \in Int
    OBVIOUS
  <2>9. Good(f[x] + Sum(f, Remaining(T)), g[x] + Sum(g, Remaining(T)),
             h[x] + Sum(h, Remaining(T)), l[x] + Sum(l, Remaining(T)),
             Cardinality(Remaining(T)) + 1)
    <3>1. PICK F, G, H, n \in Int :
            /\ F = Sum(f, Remaining(T)) /\ G = Sum(g, Remaining(T))
            /\ H = Sum(h, Remaining(T)) /\ n = Cardinality(Remaining(T))
      BY <2>5
    <3>2. PICK L \in Int : /\ L = Sum(l, Remaining(T))
                           /\ L = a * F + b * G + c * H + d * n
      BY <2>5, <2>8, <3>1
    <3>3. PICK u, v, w \in Int : u = f[x] /\ v = g[x] /\ w = h[x]
      BY <2>6
    <3>4. PICK y \in Int : y = l[x] /\ y = a * u + b * v + c * w + d
      BY <2>6, <2>8, <3>3
    <3>5. y + L = a * (u + F) + b * (v + G) + c * (w + H) + d * (n + 1)
      BY ONLY <2>7, <3>2, <3>4
    <3> HIDE DEF Sum
    <3> QED
      BY ONLY <3>1, <3>2, <3>3, <3>4, <3>5
  <2>10. Cardinality(T) = Cardinality(Remaining(T)) + 1
    BY <2>4
  <2> HIDE DEF Good, Sum
  <2>11. Good(Sum(f, T), Sum(g, T), Sum(h, T), Sum(l, T), Cardinality(T))
    BY <2>3, <2>9, <2>10
  <2> QED
    BY <2>11
<1>3. S \in P
  <2> HIDE DEF P
  <2> QED
    BY <1>1, <1>2, RemainingInduct
<1> QED
  BY <1>3

(* Chebyshev: twice what the sum of products falls short of the product of  *)
(* sums is a sum over all pairs, (f[i] - f[j]) * (g[j] - g[i]).  Where no   *)
(* such term is negative, it is at least each of them.                      *)
LEMMA SumOfPairs ==
    ASSUME NEW S, IsFiniteSet(S), NEW f, NEW g,
           \A i \in S : f[i] \in Int /\ g[i] \in Int,
           \A i, j \in S : (f[i] - f[j]) * (g[j] - g[i]) >= 0,
           NEW product, \A i \in S : product[i] = f[i] * g[i],
           NEW a \in S, NEW b \in S
    PROVE  LET F == SumFunctionOnSet(f, S)
               G == SumFunctionOnSet(g, S)
               R == SumFunctionOnSet(product, S)
           IN  /\ F \in Int /\ G \in Int /\ R \in Int
               /\ 2 * (F * G - Cardinality(S) * R) >= (f[a] - f[b]) * (g[b] - g[a])
<1> DEFINE F == SumFunctionOnSet(f, S)
           G == SumFunctionOnSet(g, S)
           R == SumFunctionOnSet(product, S)
           N == Cardinality(S)
           Pair(i, j) == (f[i] - f[j]) * (g[j] - g[i])
           row == [i \in S |-> [j \in S |-> Pair(i, j)]]
           rows == [i \in S |-> SumFunctionOnSet(row[i], S)]
<1>1. /\ \A i \in S : f[i] \in Int /\ g[i] \in Int /\ product[i] \in Int
      /\ \A r, s \in Int : r * s \in Int
      /\ N \in Int
  BY FS_CardinalityType
<1>2. ASSUME NEW i \in S
      PROVE  SumFunctionOnSet(row[i], S)
               = g[i] * F + f[i] * G + (-1) * R + (-(f[i] * g[i])) * N
  <2>1. ASSUME NEW j \in S
        PROVE  row[i][j] = g[i] * f[j] + f[i] * g[j] + (-1) * product[j]
                           + (-(f[i] * g[i]))
    <3>1. \A r, s, t, u \in Int :
            (r - s) * (t - u) = u * s + r * t + (-1) * (s * t) + (-(r * u))
      <4>1. \A r, s, t, u \in Int : (r - s) * (t - u) = r * t - r * u - s * t + s * u
        OBVIOUS
      <4>2. \A s, u \in Int : s * u = u * s
        OBVIOUS
      <4>3. \A r, s \in Int : r * s \in Int
        OBVIOUS
      <4> SUFFICES ASSUME NEW r \in Int, NEW s \in Int, NEW t \in Int, NEW u \in Int
                   PROVE  (r - s) * (t - u) = u * s + r * t + (-1) * (s * t) + (-(r * u))
        OBVIOUS
      <4> QED
        BY <4>1, <4>2, <4>3
    <3>2. row[i][j] = (f[i] - f[j]) * (g[j] - g[i])
      OBVIOUS
    <3> QED
      BY <1>1, <3>1, <3>2
  <2>2. g[i] \in Int /\ f[i] \in Int /\ (-1) \in Int /\ (-(f[i] * g[i])) \in Int
    BY <1>1
  <2> DEFINE l == row[i]
  <2>3. \A j \in S : l[j] = g[i] * f[j] + f[i] * g[j] + (-1) * product[j]
                            + (-(f[i] * g[i]))
    BY <2>1
  <2> HIDE DEF l
  <2>4. PICK p, q, m, d \in Int : p = g[i] /\ q = f[i] /\ m = -1 /\ d = -(f[i] * g[i])
    BY <2>2
  <2>5. \A j \in S : l[j] = p * f[j] + q * g[j] + m * product[j] + d
    BY <2>3, <2>4
  <2>6. \A j \in S : f[j] \in Int /\ g[j] \in Int /\ product[j] \in Int
    BY <1>1
  <2>7. SumFunctionOnSet(l, S)
          = p * SumFunctionOnSet(f, S) + q * SumFunctionOnSet(g, S)
            + m * SumFunctionOnSet(product, S) + d * Cardinality(S)
    BY ONLY <2>5, <2>6, IsFiniteSet(S), p \in Int, q \in Int, m \in Int,
            d \in Int, SumLinear
  <2> QED
    BY <2>4, <2>7 DEF l
<1>3. F \in Int /\ G \in Int /\ R \in Int
  <2>1. \A i \in S : f[i] \in Int
    BY <1>1
  <2>2. \A i \in S : g[i] \in Int
    BY <1>1
  <2>3. \A i \in S : product[i] \in Int
    BY <1>1
  <2> QED
    BY ONLY <2>1, <2>2, <2>3, IsFiniteSet(S), SumInteger
<1>4. ASSUME NEW i \in S
      PROVE  rows[i] = G * f[i] + F * g[i] + (-N) * product[i] + (-R)
  <2>1. rows[i] = g[i] * F + f[i] * G + (-1) * R + (-(f[i] * g[i])) * N
    BY <1>2
  <2>2. g[i] * F = F * g[i] /\ f[i] * G = G * f[i]
    BY <1>1, <1>3
  <2>3. (-(f[i] * g[i])) * N = (-N) * product[i]
    BY <1>1
  <2>4. G * f[i] \in Int /\ F * g[i] \in Int /\ (-N) * product[i] \in Int
    BY <1>1, <1>3
  <2> HIDE DEF F, G, R, N, rows
  <2> QED
    BY <1>3, <2>1, <2>2, <2>3, <2>4
<1>5. SumFunctionOnSet(rows, S) = 2 * (F * G - N * R)
  <2>1. PICK p, q, m, d \in Int : p = G /\ q = F /\ m = -N /\ d = -R
    BY <1>1, <1>3
  <2> HIDE DEF rows
  <2>2. \A i \in S : rows[i] = p * f[i] + q * g[i] + m * product[i] + d
    BY <1>4, <2>1
  <2>3. \A i \in S : f[i] \in Int /\ g[i] \in Int /\ product[i] \in Int
    BY <1>1
  <2>4. SumFunctionOnSet(rows, S)
          = p * SumFunctionOnSet(f, S) + q * SumFunctionOnSet(g, S)
            + m * SumFunctionOnSet(product, S) + d * Cardinality(S)
    BY ONLY <2>2, <2>3, IsFiniteSet(S), p \in Int, q \in Int, m \in Int,
            d \in Int, SumLinear
  <2>5. SumFunctionOnSet(rows, S) = G * F + F * G + (-N) * R + (-R) * N
    BY <2>1, <2>4
  <2>6. /\ G * F = F * G /\ (-R) * N = (-N) * R /\ (-N) * R = -(N * R)
        /\ F * G \in Int /\ N * R \in Int
    BY <1>1, <1>3
  <2> HIDE DEF F, G, R, N
  <2> QED
    BY <2>5, <2>6
<1>6. ASSUME NEW i \in S
      PROVE  /\ SumFunctionOnSet(row[i], S) \in Nat
             /\ \A j \in S : SumFunctionOnSet(row[i], S) >= Pair(i, j)
  <2> DEFINE l == row[i]
  <2>1. \A j \in S : l[j] = Pair(i, j) /\ l[j] \in Nat
    BY <1>1
  <2> HIDE DEF l
  <2>2. \A j \in S : l[j] \in Nat
    BY <2>1
  <2>3. ASSUME NEW j \in S
        PROVE  SumFunctionOnSet(l, S) \in Nat /\ SumFunctionOnSet(l, S) >= l[j]
    BY ONLY <2>2, j \in S, IsFiniteSet(S), SumIncludes
  <2> QED
    BY <2>1, <2>3 DEF l
<1>7. /\ SumFunctionOnSet(rows, S) \in Nat
      /\ SumFunctionOnSet(rows, S) >= rows[a]
  <2>1. \A i \in S : rows[i] \in Nat
    BY <1>6
  <2> HIDE DEF rows
  <2> QED
    BY ONLY <2>1, IsFiniteSet(S), a \in S, SumIncludes
<1>8. rows[a] >= Pair(a, b) /\ rows[a] \in Int /\ Pair(a, b) \in Int
  <2>1. rows[a] = SumFunctionOnSet(row[a], S)
    OBVIOUS
  <2>2. Pair(a, b) \in Int
    BY <1>1
  <2> HIDE DEF rows, row, Pair
  <2> QED
    BY <1>6, <2>1, <2>2
<1> HIDE DEF rows
<1> QED
  BY <1>3, <1>5, <1>7, <1>8

(* What a bounded stamp tells apart can be put in its order.                *)
LEMMA SortingExists ==
    ASSUME NEW S, IsFiniteSet(S), NEW f, NEW bound \in Int,
           \A x \in S : f[x] \in Int /\ f[x] <= bound,
           \A x, y \in S : f[x] = f[y] => x = y
    PROVE  \E s \in [1 .. Cardinality(S) -> S] :
             \A i, j \in 1 .. Cardinality(S) : i < j => f[s[i]] < f[s[j]]
<1> DEFINE Sorted(T, n) == \E s \in [1 .. n -> T] :
                              \A i, j \in 1 .. n : i < j => f[s[i]] < f[s[j]]
           N == {n \in Nat : \A T \in SUBSET S : Cardinality(T) = n => Sorted(T, n)}
<1>1. ASSUME NEW T \in SUBSET S
      PROVE  IsFiniteSet(T) /\ Cardinality(T) \in Nat
  BY FS_Subset, FS_CardinalityType
<1>2. 0 \in N
  <2>1. ASSUME NEW T \in SUBSET S, Cardinality(T) = 0 PROVE Sorted(T, 0)
    <3>1. T = {} /\ 1 .. 0 = {}
      BY <1>1, <2>1, FS_EmptySet
    <3>2. [i \in 1 .. 0 |-> i] \in [1 .. 0 -> T]
      BY <3>1
    <3> QED
      BY <3>1, <3>2
  <2> QED
    BY <2>1
<1>3. ASSUME NEW n \in N \cap Nat PROVE n + 1 \in N
  <2>1. ASSUME NEW T \in SUBSET S, Cardinality(T) = n + 1 PROVE Sorted(T, n + 1)
    <3>1. PICK a \in T : TRUE
      BY <1>1, <2>1, FS_EmptySet
    <3>2. PICK m \in T : \A x \in T : f[x] <= f[m]
      <4> DEFINE g == [x \in T |-> bound - f[x]]
      <4>1. \A x \in T : g[x] \in Nat
        OBVIOUS
      <4>2. PICK m \in T : \A x \in T : g[m] <= g[x]
        <5> HIDE DEF g
        <5> QED
          BY ONLY <3>1, <4>1, LeastOf
      <4>3. \A x \in T : f[x] <= f[m]
        BY <4>2
      <4> QED
        BY <4>3
    <3>3. T \ {m} \in SUBSET S /\ Cardinality(T \ {m}) = n
      <4>1. Cardinality(T \ {m}) = Cardinality(T) - 1
        BY <1>1, FS_RemoveElement
      <4> QED
        BY <2>1, <4>1, (n + 1) - 1 = n
    <3>4. PICK s \in [1 .. n -> T \ {m}] :
            \A i, j \in 1 .. n : i < j => f[s[i]] < f[s[j]]
      <4>1. Sorted(T \ {m}, n)
        BY <3>3
      <4> QED
        BY <4>1
    <3> DEFINE t == [i \in 1 .. n + 1 |-> IF i = n + 1 THEN m ELSE s[i]]
    <3>5. \A i \in 1 .. n : t[i] = s[i] /\ s[i] \in T /\ s[i] # m
      OBVIOUS
    <3>6. t[n + 1] = m /\ \A i \in 1 .. n + 1 : i \in 1 .. n \/ i = n + 1
      OBVIOUS
    <3>7. t \in [1 .. n + 1 -> T]
      BY <3>5, <3>6
    <3> HIDE DEF t
    <3>8. ASSUME NEW i \in 1 .. n + 1, NEW j \in 1 .. n + 1, i < j
          PROVE  f[t[i]] < f[t[j]]
      <4>1. i \in 1 .. n
        BY <3>8
      <4>2. CASE j \in 1 .. n
        BY <3>4, <3>5, <3>8, <4>1, <4>2
      <4>3. CASE j = n + 1
        <5>1. f[s[i]] <= f[m] /\ f[s[i]] # f[m]
          BY <3>2, <3>5, <4>1
        <5>2. f[s[i]] \in Int /\ f[m] \in Int
          BY <3>5, <4>1
        <5> QED
          BY <3>5, <3>6, <4>1, <4>3, <5>1, <5>2
      <4> QED
        BY <3>6, <4>2, <4>3
    <3> QED
      BY <3>7, <3>8
  <2> HIDE DEF Sorted
  <2> QED
    BY <2>1
<1>4. Cardinality(S) \in N
  <2> HIDE DEF N
  <2> QED
    BY <1>1, <1>2, <1>3, NatInduct
<1> QED
  BY <1>4

(***************************************************************************)
(* Counting                                                                *)
(***************************************************************************)
(* A sum of ones and zeros counts the ones.                                 *)
LEMMA SumCounts ==
    ASSUME NEW f, NEW S, IsFiniteSet(S), NEW T \in SUBSET S,
           \A x \in S : f[x] = IF x \in T THEN 1 ELSE 0
    PROVE  SumFunctionOnSet(f, S) = Cardinality(T)
<1> DEFINE P == {U \in SUBSET S : SumFunctionOnSet(f, U) = Cardinality(U \cap T)}
<1>1. {} \in P
  <2>1. {} \cap T = {}
    OBVIOUS
  <2> QED
    BY <2>1, SumOfNone, FS_EmptySet
<1>2. ASSUME NEW U \in SUBSET S, NEW x \in S \ U, U \in P PROVE U \cup {x} \in P
  <2> DEFINE W == U \cup {x}
  <2>1. /\ W \in SUBSET S /\ x \in W /\ W \ {x} = U
        /\ \A y \in W : f[y] \in Int
    OBVIOUS
  <2>2. IsFiniteSet(W) /\ IsFiniteSet(U) /\ IsFiniteSet(U \cap T)
    BY <2>1, FS_Subset
  <2> HIDE DEF W
  <2>3. SumFunctionOnSet(f, W) = f[x] + SumFunctionOnSet(f, U)
    BY <2>1, <2>2, SumTakes
  <2>4. SumFunctionOnSet(f, U) = Cardinality(U \cap T)
    BY <1>2
  <2>5. Cardinality(U \cap T) \in Nat
    BY <2>2, FS_CardinalityType
  <2>6. CASE x \in T
    <3>1. W \cap T = (U \cap T) \cup {x} /\ x \notin U \cap T
      BY <2>6 DEF W
    <3>2. Cardinality((U \cap T) \cup {x}) = Cardinality(U \cap T) + 1
      BY <2>2, <3>1, FS_AddElement
    <3>3. Cardinality(W \cap T) = Cardinality(U \cap T) + 1
      BY <3>1, <3>2, Zenon
    <3>4. f[x] = 1
      BY <2>6
    <3>5. SumFunctionOnSet(f, W) = Cardinality(W \cap T)
      BY ONLY <2>3, <2>4, <2>5, <3>3, <3>4
    <3> QED
      BY <2>1, <3>5 DEF W
  <2>7. CASE x \notin T
    <3>1. W \cap T = U \cap T
      BY <2>7 DEF W
    <3>2. Cardinality(W \cap T) = Cardinality(U \cap T)
      BY <3>1, Zenon
    <3>3. f[x] = 0
      BY <2>7
    <3>4. SumFunctionOnSet(f, W) = Cardinality(W \cap T)
      BY ONLY <2>3, <2>4, <2>5, <3>2, <3>3
    <3> QED
      BY <2>1, <3>4 DEF W
  <2> QED
    BY <2>6, <2>7
<1>3. S \in P
  <2>1. \A U \in SUBSET S : \A x \in S \ U : U \in P => U \cup {x} \in P
    BY <1>2
  <2> HIDE DEF P
  <2> QED
    BY ONLY <1>1, <2>1, IsFiniteSet(S), FiniteInduct
<1>4. S \cap T = T
  OBVIOUS
<1> QED
  BY <1>3, <1>4

(* What falls into exactly one of some classes is counted once.             *)
LEMMA CountedOnce ==
    ASSUME NEW B, IsFiniteSet(B), NEW M, IsFiniteSet(M), NEW class,
           \A b \in B : class[b] \in SUBSET M,
           \A m \in M : \E b \in B : /\ m \in class[b]
                                   /\ \A d \in B : m \in class[d] => d = b,
           NEW count, \A b \in B : count[b] = Cardinality(class[b])
    PROVE  SumFunctionOnSet(count, B) = Cardinality(M)
<1> DEFINE place == [m \in M |-> CHOOSE b \in B : m \in class[b]]
<1>1. \A m \in M : /\ place[m] \in B
                  /\ \A d \in B : m \in class[d] <=> place[m] = d
  OBVIOUS
<1> HIDE DEF place
<1>2. \A b \in B : class[b] = {m \in M : place[m] = b}
  BY <1>1
<1>3. \A b \in B : count[b] = Cardinality({m \in M : place[m] = b})
  BY <1>2
<1> DEFINE At(U, b) == {m \in U : place[m] = b}
           Counts(U) == [b \in B |-> Cardinality(At(U, b))]
           P == {U \in SUBSET M : SumFunctionOnSet(Counts(U), B) = Cardinality(U)}
<1>4. {} \in P
  <2>1. PICK zero \in Int : zero = 0
    OBVIOUS
  <2>2. \A b \in B : Counts({})[b] = zero
    <3>1. \A b \in B : At({}, b) = {}
      OBVIOUS
    <3> QED
      BY <2>1, <3>1, FS_EmptySet
  <2>3. SumFunctionOnSet(Counts({}), B) = zero * Cardinality(B)
    <3> HIDE DEF Counts
    <3> QED
      BY <2>2, SumConstant
  <2>4. Cardinality(B) \in Nat
    BY FS_CardinalityType
  <2> QED
    BY <2>1, <2>3, <2>4, FS_EmptySet
<1>5. ASSUME NEW U \in SUBSET M, NEW x \in M \ U, U \in P PROVE U \cup {x} \in P
  <2> DEFINE W == U \cup {x}
             a == place[x]
  <2>1. IsFiniteSet(U) /\ IsFiniteSet(W) /\ W \in SUBSET M
    BY FS_Subset
  <2>2. \A b \in B : /\ IsFiniteSet(At(U, b)) /\ Cardinality(At(U, b)) \in Nat
                     /\ IsFiniteSet(At(W, b)) /\ Cardinality(At(W, b)) \in Nat
    <3>1. ASSUME NEW b \in B
          PROVE  At(U, b) \in SUBSET U /\ At(W, b) \in SUBSET W
      OBVIOUS
    <3> HIDE DEF At, W
    <3> QED
      BY <2>1, <3>1, FS_Subset, FS_CardinalityType
  <2>3. \A b \in B \ {a} : At(W, b) = At(U, b)
    OBVIOUS
  <2>4. a \in B /\ At(W, a) = At(U, a) \cup {x} /\ x \notin At(U, a)
    BY <1>1
  <2>5. Cardinality(W) = Cardinality(U) + 1 /\ Cardinality(U) \in Nat
    BY <2>1, FS_AddElement, FS_CardinalityType
  <2> HIDE DEF At, W, a
  <2>6. Cardinality(At(W, a)) = Cardinality(At(U, a)) + 1
    BY <2>2, <2>4, FS_AddElement
  <2> DEFINE f == Counts(U)
             g == Counts(W)
  <2>7. /\ \A b \in B : f[b] = Cardinality(At(U, b)) /\ g[b] = Cardinality(At(W, b))
        /\ SumFunctionOnSet(f, B) = Cardinality(U)
    BY <1>5
  <2> HIDE DEF f, g
  <2>8. /\ \A b \in B : f[b] \in Int /\ g[b] \in Int
        /\ \A b \in B \ {a} : g[b] = f[b]
        /\ g[a] = f[a] + 1
    <3>1. \A b \in B : f[b] \in Int /\ g[b] \in Int
      BY <2>2, <2>7
    <3>2. \A b \in B \ {a} : g[b] = f[b]
      BY <2>3, <2>7
    <3>3. g[a] = f[a] + 1
      BY <2>4, <2>6, <2>7
    <3> QED
      BY <3>1, <3>2, <3>3
  <2>9. SumFunctionOnSet(g, B) = SumFunctionOnSet(f, B) + (g[a] - f[a])
    BY <2>4, <2>8, SumUpdate
  <2>10. f[a] \in Int /\ g[a] = f[a] + 1
    BY <2>4, <2>8
  <2>11. SumFunctionOnSet(g, B) = Cardinality(W)
    BY <2>5, <2>7, <2>9, <2>10
  <2> QED
    BY <2>1, <2>11 DEF g, W
<1>6. M \in P
  <2>1. \A U \in SUBSET M : \A x \in M \ U : U \in P => U \cup {x} \in P
    BY <1>5
  <2> HIDE DEF P
  <2> QED
    BY ONLY <1>4, <2>1, IsFiniteSet(M), FiniteInduct
<1>7. SumFunctionOnSet(Counts(M), B) = Cardinality(M)
  BY <1>6
<1>8. \A b \in B : Counts(M)[b] = count[b]
  BY <1>3
<1> HIDE DEF Counts
<1> QED
  BY <1>7, <1>8, SumSame

(* A sum grows by the number of those that gain one.                        *)
LEMMA SumGrows ==
    ASSUME NEW f, NEW g, NEW S, IsFiniteSet(S), NEW T \in SUBSET S,
           \A x \in S : f[x] \in Int /\ g[x] = f[x] + (IF x \in T THEN 1 ELSE 0)
    PROVE  /\ SumFunctionOnSet(f, S) \in Int
           /\ Cardinality(T) \in Nat
           /\ SumFunctionOnSet(g, S) = SumFunctionOnSet(f, S) + Cardinality(T)
<1> DEFINE one == [x \in S |-> IF x \in T THEN 1 ELSE 0]
<1>1. \A x \in S : /\ one[x] = IF x \in T THEN 1 ELSE 0
                   /\ one[x] \in Int
                   /\ g[x] = f[x] + one[x]
  OBVIOUS
<1> HIDE DEF one
<1>2. SumFunctionOnSet(one, S) = Cardinality(T)
  BY <1>1, SumCounts
<1>3. SumFunctionOnSet(g, S) = SumFunctionOnSet(f, S) + SumFunctionOnSet(one, S)
  BY <1>1, SumPlus
<1> QED
  BY <1>2, <1>3, SumInteger, FS_Subset, FS_CardinalityType

(* A sum over one place more.                                               *)
LEMMA SumOneMore ==
    ASSUME NEW n \in Nat, NEW f, NEW g,
           \A k \in 1 .. n : f[k] \in Int /\ g[k] = f[k],
           g[n + 1] \in Int
    PROVE  /\ SumFunctionOnSet(f, 1 .. n) \in Int
           /\ SumFunctionOnSet(g, 1 .. n + 1)
                = SumFunctionOnSet(f, 1 .. n) + g[n + 1]
<1>1. PICK m \in Int : m = n + 1
  OBVIOUS
<1>2. IsFiniteSet(1 .. n) /\ IsFiniteSet(1 .. m)
  <2>1. 1 \in Int /\ n \in Int
    OBVIOUS
  <2> QED
    BY <1>1, <2>1, FS_Interval
<1>3. \A k \in 1 .. m : g[k] \in Int
  <2> SUFFICES ASSUME NEW k \in 1 .. m PROVE g[k] \in Int
    OBVIOUS
  <2>1. CASE k = m
    BY <1>1, <2>1
  <2>2. CASE k # m
    BY <1>1, <2>2
  <2> QED
    BY <2>1, <2>2
<1>4. m \in 1 .. m /\ (1 .. m) \ {m} = 1 .. n
  BY <1>1
<1>5. SumFunctionOnSet(g, 1 .. m) = g[m] + SumFunctionOnSet(g, 1 .. n)
  <2>1. PICK S : S = 1 .. m
    OBVIOUS
  <2>2. SumFunctionOnSet(g, S) = g[m] + SumFunctionOnSet(g, S \ {m})
    BY ONLY <1>2, <1>3, <1>4, <2>1, SumTakes
  <2> QED
    BY <1>4, <2>1, <2>2
<1>6. /\ SumFunctionOnSet(f, 1 .. n) = SumFunctionOnSet(g, 1 .. n)
      /\ SumFunctionOnSet(f, 1 .. n) \in Int
  BY <1>2, SumSame, SumInteger
<1>7. g[m] \in Int
  BY <1>1
<1> QED
  BY ONLY <1>1, <1>5, <1>6, <1>7
=============================================================================
