--------------------------- MODULE NumberTheorems ---------------------------
(***************************************************************************)
(* What the proofs need of numbers: least elements, sums over finite sets  *)
(* (SumFunctionOnSet of the community module Functions) and congruence     *)
(* modulo a prime. Inductions are by the least counterexample of a set of  *)
(* numbers, which the provers can instantiate where an induction scheme    *)
(* over a predicate is beyond them.                                        *)
(***************************************************************************)
EXTENDS Integers, FiniteSets, FiniteSetsExt, Functions, WellFoundedInduction, FiniteSetTheorems,
        SequenceTheorems, TLAPS

(* A set of numbers that is not empty has a least element.                 *)
LEMMA LeastElement ==
  ASSUME NEW T \in SUBSET Nat, T # {}
  PROVE  \E m \in T : \A n \in T : m <= n
<1> DEFINE R == {ss \in Nat \X Nat : ss[1] < ss[2]}
<1>1. IsWellFoundedOn(R, Nat)
  BY NatLessThanWellFounded DEF OpToRel
<1>2. \A x, y \in Nat : x < y => <<x, y>> \in R
  OBVIOUS
<1> HIDE DEF R
<1>3. PICK m \in T : \A n \in T : ~ (<<n, m>> \in R)
  BY <1>1, WFMin
<1>4. ASSUME NEW n \in T
      PROVE  m <= n
  <2>1. ~ (n < m)
    BY <1>2, <1>3
  <2> QED
    BY <2>1
<1> QED
  BY <1>4

(* Induction over the numbers, stated with the set of those that have the  *)
(* property.                                                               *)
LEMMA NaturalsFrom0 ==
  ASSUME NEW T \in SUBSET Nat, 0 \in T, \A n \in T : n + 1 \in T
  PROVE  T = Nat
<1> SUFFICES ASSUME Nat \ T # {} PROVE FALSE
  OBVIOUS
<1>1. PICK m \in Nat \ T : \A n \in Nat \ T : m <= n
  BY LeastElement
<1>2. m # 0 /\ m - 1 \in Nat
  BY <1>1
<1>3. m - 1 \in T
  BY <1>1, <1>2
<1> QED
  BY <1>1, <1>2, <1>3
-----------------------------------------------------------------------------
(* The recursion behind a sum: the value at a set, from those at smaller   *)
(* sets, and the functions that obey it on the sets of D.                  *)
SumStep(w, f, s) ==
  IF s = {} THEN 0
  ELSE LET x == CHOOSE y \in s : TRUE IN w[x] + f[s \ {x}]

ObeysSum(w, f, D) == f = [s \in D |-> SumStep(w, f, s)]

(* A finite set of numbers that is not empty has a largest element.        *)
LEMMA LargestElement ==
  ASSUME NEW n \in Nat, NEW s \in SUBSET (0 .. n), s # {}
  PROVE  Max(s) \in s /\ \A x \in s : x <= Max(s)
<1> DEFINE T == {m \in Nat : \E x \in s : m = n - x}
<1>1. T # {} /\ T \in SUBSET Nat
  <2>1. PICK x \in s : TRUE
    OBVIOUS
  <2>2. n - x \in T
    BY <2>1
  <2> QED
    BY <2>2
<1>2. PICK m \in T : \A k \in T : m <= k
  BY <1>1, LeastElement
<1>3. PICK x \in s : m = n - x
  BY <1>2
<1>4. ASSUME NEW y \in s
      PROVE  y <= x
  <2>1. n - y \in T
    OBVIOUS
  <2> QED
    BY <1>2, <1>3, <2>1
<1>5. \A y \in s : x >= y
  BY <1>4
<1>6. Max(s) \in s /\ \A y \in s : Max(s) >= y
  BY <1>5 DEF Max
<1> QED
  BY <1>6

(* The largest of the numbers up to n is n.                                *)
LEMMA LargestUpTo ==
  ASSUME NEW n \in Nat, n # 0
  PROVE  Max(1 .. n) = n
<1>1. 1 .. n \in SUBSET (0 .. n) /\ 1 .. n # {} /\ n \in 1 .. n
  OBVIOUS
<1>2. Max(1 .. n) \in 1 .. n /\ \A x \in 1 .. n : x <= Max(1 .. n)
  BY <1>1, LargestElement
<1> QED
  BY <1>1, <1>2

(* The chosen element of a set is one of its elements.                     *)
LEMMA ChosenElement ==
  ASSUME NEW s, s # {}
  PROVE  (CHOOSE y \in s : TRUE) \in s
  OBVIOUS

(* Some function obeys the recursion on all subsets of a finite set.       *)
LEMMA SumRecursionExists ==
  ASSUME NEW w, NEW S, IsFiniteSet(S)
  PROVE  \E f : ObeysSum(w, f, SUBSET S)
<1> DEFINE Small(n) == {s \in SUBSET S : Cardinality(s) <= n}
           T == {n \in Nat : \E f : ObeysSum(w, f, Small(n))}
<1>1. \A s \in SUBSET S : IsFiniteSet(s) /\ Cardinality(s) \in Nat
                         /\ Cardinality(s) <= Cardinality(S)
  BY FS_Subset, FS_CardinalityType
<1>2. 0 \in T
  <2> DEFINE f == [s \in Small(0) |-> 0]
  <2>1. \A s \in Small(0) : s = {}
    BY <1>1, FS_EmptySet
  <2>2. ObeysSum(w, f, Small(0))
    BY <2>1 DEF ObeysSum, SumStep
  <2> QED
    BY <2>2
<1>3. ASSUME NEW n \in T
      PROVE  n + 1 \in T
  <2>1. PICK f : ObeysSum(w, f, Small(n))
    OBVIOUS
  <2> DEFINE g == [s \in Small(n + 1) |-> SumStep(w, f, s)]
  <2>2. \A s \in Small(n) : s \in Small(n + 1) /\ g[s] = f[s]
    BY <1>1, <2>1 DEF ObeysSum
  <2>3. ASSUME NEW s \in Small(n + 1)
        PROVE  SumStep(w, f, s) = SumStep(w, g, s)
    <3>1. CASE s = {}
      BY <3>1 DEF SumStep
    <3>2. CASE s # {}
      <4> DEFINE x == CHOOSE y \in s : TRUE
      <4>1. x \in s
        BY <3>2
      <4> HIDE DEF x
      <4>2. s \ {x} \in Small(n)
        BY <1>1, <4>1, FS_RemoveElement
      <4>3. f[s \ {x}] = g[s \ {x}]
        BY <2>2, <4>2
      <4> QED
        BY <3>2, <4>3 DEF SumStep, x
    <3> QED
      BY <3>1, <3>2
  <2>4. ObeysSum(w, g, Small(n + 1))
    BY <2>3 DEF ObeysSum
  <2>5. \E h : ObeysSum(w, h, Small(n + 1))
    BY <2>4
  <2> HIDE DEF Small, g
  <2> QED
    BY <2>5
<1>4. T = Nat
  <2> HIDE DEF T
  <2>1. T \in SUBSET Nat
    BY DEF T
  <2> QED
    BY <1>2, <1>3, <2>1, NaturalsFrom0
<1>5. Small(Cardinality(S)) = SUBSET S
  BY <1>1
<1>6. Cardinality(S) \in Nat
  BY FS_CardinalityType
<1> QED
  BY <1>4, <1>5, <1>6

(* Functions that obey the recursion agree wherever both are defined.      *)
LEMMA SumRecursionUnique ==
  ASSUME NEW w, NEW S, IsFiniteSet(S), NEW U, IsFiniteSet(U), NEW f, NEW g,
         ObeysSum(w, f, SUBSET S), ObeysSum(w, g, SUBSET U)
  PROVE  \A s \in SUBSET S : s \in SUBSET U => f[s] = g[s]
<1> DEFINE Differ == {s \in SUBSET S : s \in SUBSET U /\ f[s] # g[s]}
           T == {Cardinality(s) : s \in Differ}
<1> SUFFICES ASSUME Differ # {} PROVE FALSE
  OBVIOUS
<1>1. \A s \in SUBSET S : IsFiniteSet(s) /\ Cardinality(s) \in Nat
  BY FS_Subset, FS_CardinalityType
<1>2. T \in SUBSET Nat /\ T # {}
  BY <1>1
<1>3. PICK s \in Differ : \A u \in Differ : Cardinality(s) <= Cardinality(u)
  <2>1. PICK m \in T : \A n \in T : m <= n
    BY <1>2, LeastElement
  <2> QED
    BY <2>1
<1>4. f[s] = SumStep(w, f, s) /\ g[s] = SumStep(w, g, s)
  BY DEF ObeysSum
<1>5. s # {}
  BY <1>4 DEF SumStep
<1> DEFINE x == CHOOSE y \in s : TRUE
<1>6. x \in s
  BY <1>5
<1>7. f[s] = w[x] + f[s \ {x}] /\ g[s] = w[x] + g[s \ {x}]
  BY <1>4, <1>5 DEF SumStep
<1> HIDE DEF x
<1>8. s \ {x} \in SUBSET S /\ s \ {x} \in SUBSET U
  OBVIOUS
<1>9. Cardinality(s \ {x}) < Cardinality(s)
  BY <1>1, <1>6, FS_RemoveElement
<1>10. s \ {x} \notin Differ
  BY <1>1, <1>3, <1>8, <1>9
<1> QED
  BY <1>7, <1>8, <1>10

(* A sum is the value of a function that obeys the recursion.              *)
LEMMA SumByRecursion ==
  ASSUME NEW w, NEW S, IsFiniteSet(S)
  PROVE  \E f : ObeysSum(w, f, SUBSET S) /\ SumFunctionOnSet(w, S) = f[S]
<1> DEFINE f == CHOOSE h : ObeysSum(w, h, SUBSET S)
<1>1. ObeysSum(w, f, SUBSET S)
  BY SumRecursionExists
<1>2. SumFunctionOnSet(w, S) = f[S]
  BY DEF SumFunctionOnSet, FoldFunctionOnSet, MapThenFoldSet, ObeysSum, SumStep
<1> QED
  BY <1>1, <1>2

(* The sum of nothing is zero.                                             *)
LEMMA SumEmpty ==
  ASSUME NEW w
  PROVE  SumFunctionOnSet(w, {}) = 0
<1>1. IsFiniteSet({})
  BY FS_EmptySet
<1>2. PICK f : ObeysSum(w, f, SUBSET {}) /\ SumFunctionOnSet(w, {}) = f[{}]
  BY <1>1, SumByRecursion
<1> QED
  BY <1>2 DEF ObeysSum, SumStep

(* A sum takes off the element it chooses.                                 *)
LEMMA SumChosen ==
  ASSUME NEW w, NEW S, IsFiniteSet(S), S # {}
  PROVE  LET x == CHOOSE y \in S : TRUE
         IN  x \in S /\ SumFunctionOnSet(w, S) = w[x] + SumFunctionOnSet(w, S \ {x})
<1> DEFINE x == CHOOSE y \in S : TRUE
<1>1. x \in S
  OBVIOUS
<1>2. PICK f : ObeysSum(w, f, SUBSET S) /\ SumFunctionOnSet(w, S) = f[S]
  BY SumByRecursion
<1>3. f[S] = w[x] + f[S \ {x}]
  BY <1>2 DEF ObeysSum, SumStep
<1> HIDE DEF x
<1> DEFINE R == S \ {x}
<1>4. IsFiniteSet(R) /\ R \in SUBSET S /\ R \in SUBSET R
  BY FS_RemoveElement
<1> HIDE DEF R
<1>5. PICK g : ObeysSum(w, g, SUBSET R) /\ SumFunctionOnSet(w, R) = g[R]
  BY <1>4, SumByRecursion
<1>6. f[R] = g[R]
  BY <1>2, <1>4, <1>5, SumRecursionUnique, SMTT(40)
<1>7. SumFunctionOnSet(w, S) = w[x] + SumFunctionOnSet(w, S \ {x})
  BY <1>2, <1>3, <1>5, <1>6 DEF R
<1> QED
  BY <1>1, <1>7 DEF x

(* A sum of numbers is a number, and takes off any of its elements.        *)
LEMMA SumTakesOff ==
  ASSUME NEW w, NEW S, IsFiniteSet(S), \A x \in S : w[x] \in Nat
  PROVE  /\ SumFunctionOnSet(w, S) \in Nat
         /\ \A x \in S : SumFunctionOnSet(w, S) = w[x] + SumFunctionOnSet(w, S \ {x})
<1> DEFINE Fine(s) == /\ SumFunctionOnSet(w, s) \in Nat
                      /\ \A x \in s : SumFunctionOnSet(w, s) = w[x] + SumFunctionOnSet(w, s \ {x})
           Wrong == {s \in SUBSET S : ~ Fine(s)}
           T == {Cardinality(s) : s \in Wrong}
<1> SUFFICES ASSUME Wrong # {} PROVE FALSE
  OBVIOUS
<1>1. \A s \in SUBSET S : IsFiniteSet(s) /\ Cardinality(s) \in Nat
  BY FS_Subset, FS_CardinalityType
<1>2. PICK s \in Wrong : \A u \in Wrong : Cardinality(s) <= Cardinality(u)
  <2>1. T \in SUBSET Nat /\ T # {}
    BY <1>1
  <2>2. PICK m \in T : \A n \in T : m <= n
    BY <2>1, LeastElement
  <2> QED
    BY <2>2
<1>3. s \in SUBSET S /\ IsFiniteSet(s) /\ ~ Fine(s)
  BY <1>1
<1>4. \A u \in SUBSET S : Cardinality(u) < Cardinality(s) => Fine(u)
  BY <1>1, <1>2
<1> HIDE DEF Wrong, T
<1>5. s # {}
  <2>1. Fine({})
    BY SumEmpty
  <2> QED
    BY <1>3, <2>1
<1>6. PICK c \in s : SumFunctionOnSet(w, s) = w[c] + SumFunctionOnSet(w, s \ {c})
  BY <1>3, <1>5, SumChosen
<1>7. \A x \in s : /\ Cardinality(s \ {x}) < Cardinality(s)
                   /\ s \ {x} \in SUBSET S
  BY <1>1, <1>3, FS_RemoveElement
<1>8. \A x \in s : Fine(s \ {x})
  BY <1>4, <1>7
<1>9. SumFunctionOnSet(w, s) \in Nat
  BY <1>3, <1>6, <1>8
<1>10. ASSUME NEW x \in s
       PROVE  SumFunctionOnSet(w, s) = w[x] + SumFunctionOnSet(w, s \ {x})
  <2>1. CASE x = c
    BY <1>6, <2>1
  <2>2. CASE x # c
    <3>1. x \in s \ {c} /\ c \in s \ {x} /\ (s \ {c}) \ {x} = (s \ {x}) \ {c}
      BY <2>2
    <3>2. SumFunctionOnSet(w, s \ {c}) = w[x] + SumFunctionOnSet(w, (s \ {c}) \ {x})
      BY <1>8, <3>1
    <3>3. SumFunctionOnSet(w, s \ {x}) = w[c] + SumFunctionOnSet(w, (s \ {c}) \ {x})
      BY <1>8, <3>1
    <3>4. SumFunctionOnSet(w, (s \ {c}) \ {x}) \in Nat
      <4>1. (s \ {c}) \ {x} \in SUBSET S
        BY <1>3
      <4>2. Cardinality((s \ {c}) \ {x}) < Cardinality(s)
        <5>1. s \ {c} \in SUBSET S /\ IsFiniteSet(s \ {c})
          BY <1>1, <1>7
        <5>2. Cardinality((s \ {c}) \ {x}) = Cardinality(s \ {c}) - 1
          BY <3>1, <5>1, FS_RemoveElement
        <5>3. /\ Cardinality(s) \in Nat /\ Cardinality(s \ {c}) \in Nat
              /\ Cardinality(s \ {c}) < Cardinality(s)
          BY <1>1, <1>3, <1>7, <5>1
        <5> QED
          BY <5>2, <5>3
      <4> QED
        BY <1>4, <4>1, <4>2
    <3>5. w[x] \in Nat /\ w[c] \in Nat
      BY <1>3
    <3> QED
      BY <1>6, <3>2, <3>3, <3>4, <3>5
  <2> QED
    BY <2>1, <2>2
<1> QED
  BY <1>3, <1>9, <1>10

(* Adding an element adds its weight.                                      *)
LEMMA SumAdds ==
  ASSUME NEW w, NEW S, IsFiniteSet(S), NEW e, e \notin S,
         \A x \in S \cup {e} : w[x] \in Nat
  PROVE  SumFunctionOnSet(w, S \cup {e}) = SumFunctionOnSet(w, S) + w[e]
<1>1. IsFiniteSet(S \cup {e}) /\ (S \cup {e}) \ {e} = S
  BY FS_AddElement
<1>2. SumFunctionOnSet(w, S) \in Nat
  BY SumTakesOff
<1>3. SumFunctionOnSet(w, S \cup {e})
        = w[e] + SumFunctionOnSet(w, (S \cup {e}) \ {e})
  BY <1>1, SumTakesOff
<1>4. w[e] \in Nat
  OBVIOUS
<1>5. SumFunctionOnSet(w, S \cup {e}) = w[e] + SumFunctionOnSet(w, S)
  BY <1>1, <1>3
<1> QED
  BY <1>2, <1>4, <1>5

(* Weights that are zero outside a subset, and agree with others inside,   *)
(* have the same sum as those over the subset.                             *)
LEMMA SumWhereItCounts ==
  ASSUME NEW w, NEW v, NEW S, IsFiniteSet(S), NEW U \in SUBSET S,
         \A x \in S : w[x] \in Nat,
         \A x \in U : v[x] = w[x],
         \A x \in S \ U : w[x] = 0
  PROVE  SumFunctionOnSet(w, S) = SumFunctionOnSet(v, U)
<1> DEFINE Differ == {s \in SUBSET S : SumFunctionOnSet(w, s) # SumFunctionOnSet(v, s \cap U)}
           T == {Cardinality(s) : s \in Differ}
<1> SUFFICES ASSUME Differ # {} PROVE FALSE
  <2>1. S \cap U = U
    OBVIOUS
  <2> QED
    BY <2>1
<1>1. \A s \in SUBSET S : IsFiniteSet(s) /\ Cardinality(s) \in Nat
  BY FS_Subset, FS_CardinalityType
<1>2. PICK s \in Differ : \A u \in Differ : Cardinality(s) <= Cardinality(u)
  <2>1. T \in SUBSET Nat /\ T # {}
    BY <1>1
  <2>2. PICK m \in T : \A n \in T : m <= n
    BY <2>1, LeastElement
  <2> QED
    BY <2>2
<1>3. s \in SUBSET S /\ IsFiniteSet(s) /\ SumFunctionOnSet(w, s) # SumFunctionOnSet(v, s \cap U)
  BY <1>1
<1>4. \A u \in SUBSET S : Cardinality(u) < Cardinality(s) =>
                          SumFunctionOnSet(w, u) = SumFunctionOnSet(v, u \cap U)
  BY <1>1, <1>2
<1> HIDE DEF Differ, T
<1>5. s # {}
  <2>1. {} \cap U = {}
    OBVIOUS
  <2> QED
    BY <1>3, <2>1, SumEmpty
<1>6. PICK e : e \in s
  BY <1>5
<1>7. Cardinality(s \ {e}) < Cardinality(s) /\ s \ {e} \in SUBSET S
  BY <1>1, <1>3, <1>6, FS_RemoveElement
<1>8. SumFunctionOnSet(w, s \ {e}) = SumFunctionOnSet(v, (s \ {e}) \cap U)
  BY <1>4, <1>7
<1>9. SumFunctionOnSet(w, s) = w[e] + SumFunctionOnSet(w, s \ {e})
  BY <1>3, <1>6, SumTakesOff
<1>10. SumFunctionOnSet(w, s \ {e}) \in Nat
  BY <1>1, <1>7, SumTakesOff
<1>11. CASE e \in U
  <2>1. IsFiniteSet(s \cap U) /\ (s \cap U) \ {e} = (s \ {e}) \cap U /\ e \in s \cap U
    BY <1>3, <1>6, <1>11, FS_Subset
  <2>2. \A x \in s \cap U : v[x] \in Nat
    BY <1>3
  <2>3. SumFunctionOnSet(v, s \cap U) = v[e] + SumFunctionOnSet(v, (s \cap U) \ {e})
    BY <2>1, <2>2, SumTakesOff
  <2> QED
    BY <1>3, <1>8, <1>9, <1>11, <2>1, <2>3
<1>12. CASE e \notin U
  <2>1. s \cap U = (s \ {e}) \cap U /\ w[e] = 0
    BY <1>3, <1>6, <1>12
  <2>2. SumFunctionOnSet(v, s \cap U) = SumFunctionOnSet(v, (s \ {e}) \cap U)
    BY <2>1
  <2>3. SumFunctionOnSet(w, s) = SumFunctionOnSet(w, s \ {e})
    BY <1>9, <1>10, <2>1
  <2> QED
    BY <1>3, <1>8, <2>2, <2>3
<1> QED
  BY <1>11, <1>12

(* A sum of numbers is at least that over a subset.                        *)
LEMMA SumOfSubset ==
  ASSUME NEW w, NEW S, IsFiniteSet(S), NEW U \in SUBSET S,
         \A x \in S : w[x] \in Nat
  PROVE  SumFunctionOnSet(w, U) <= SumFunctionOnSet(w, S)
<1> DEFINE Above == {s \in SUBSET S : U \subseteq s /\ ~ (SumFunctionOnSet(w, U) <= SumFunctionOnSet(w, s))}
           T == {Cardinality(s) : s \in Above}
<1> SUFFICES ASSUME Above # {} PROVE FALSE
  OBVIOUS
<1>1. \A s \in SUBSET S : IsFiniteSet(s) /\ Cardinality(s) \in Nat /\ SumFunctionOnSet(w, s) \in Nat
  BY FS_Subset, FS_CardinalityType, SumTakesOff
<1>2. PICK s \in Above : \A u \in Above : Cardinality(s) <= Cardinality(u)
  <2>1. T \in SUBSET Nat /\ T # {}
    BY <1>1
  <2>2. PICK m \in T : \A n \in T : m <= n
    BY <2>1, LeastElement
  <2> QED
    BY <2>2
<1>3. s \in SUBSET S /\ U \subseteq s /\ ~ (SumFunctionOnSet(w, U) <= SumFunctionOnSet(w, s))
  OBVIOUS
<1>4. \A u \in SUBSET S : U \subseteq u /\ Cardinality(u) < Cardinality(s) =>
                          SumFunctionOnSet(w, U) <= SumFunctionOnSet(w, u)
  BY <1>1, <1>2
<1> HIDE DEF Above, T
<1>5. s # U
  BY <1>1, <1>3
<1>6. PICK e \in s : e \notin U
  BY <1>3, <1>5
<1>7. s \ {e} \in SUBSET S /\ U \subseteq s \ {e}
  BY <1>3, <1>6
<1>8. Cardinality(s \ {e}) < Cardinality(s)
  BY <1>1, <1>3, <1>6, FS_RemoveElement
<1>9. SumFunctionOnSet(w, U) <= SumFunctionOnSet(w, s \ {e})
  BY <1>4, <1>7, <1>8
<1>10. SumFunctionOnSet(w, s) = w[e] + SumFunctionOnSet(w, s \ {e})
  BY <1>1, <1>3, SumTakesOff
<1>11. w[e] \in Nat /\ SumFunctionOnSet(w, s \ {e}) \in Nat /\ SumFunctionOnSet(w, U) \in Nat
  BY <1>1, <1>3, <1>7
<1> QED
  BY <1>3, <1>9, <1>10, <1>11
-----------------------------------------------------------------------------
(* Modular arithmetic.                                                     *)

(* Numbers that differ by a multiple of the modulus.                       *)
Congruent(a, b, m) == \E k \in Int : a - b = k * m

Prime(m) == m \in Nat /\ m > 1 /\ \A d \in 2 .. (m - 1) : (m % d) # 0

(* A remainder is below the modulus, and a multiple of it from the number. *)
LEMMA Remainder ==
  ASSUME NEW m \in Nat, m > 0, NEW a \in Int
  PROVE  /\ (a % m) \in 0 .. (m - 1)
         /\ Congruent((a % m), a, m)
<1>1. (a % m) \in 0 .. (m - 1)
  BY Z3
<1>2. a = (a \div m) * m + (a % m)
  BY Z3
<1>3. a \div m \in Int
  BY Z3
<1>4. PICK q \in Int : a = q * m + (a % m)
  BY <1>2, <1>3
<1>5. PICK r \in 0 .. (m - 1) : r = (a % m)
  BY <1>1
<1>6. a = q * m + r
  BY <1>4, <1>5
<1>7. (-q) * m = -(q * m)
  BY Z3
<1>8. r - a = (-q) * m /\ -q \in Int
  BY <1>6, <1>7, Z3
<1>9. Congruent(r, a, m)
  BY <1>8 DEF Congruent
<1> QED
  BY <1>1, <1>5, <1>9

(* A number below the modulus is its own remainder.                        *)
LEMMA RemainderOfSmall ==
  ASSUME NEW m \in Nat, m > 0, NEW a \in 0 .. (m - 1)
  PROVE  (a % m) = a
  BY Z3

(* Every number is congruent to itself.                                    *)
LEMMA CongruentSelf ==
  ASSUME NEW m \in Nat, NEW a \in Int
  PROVE  Congruent(a, a, m)
<1>1. a - a = 0 * m /\ 0 \in Int
  BY Z3
<1> QED
  BY <1>1 DEF Congruent

(* Congruence has no direction.                                            *)
LEMMA CongruentFlipped ==
  ASSUME NEW m \in Nat, NEW a \in Int, NEW b \in Int, Congruent(a, b, m)
  PROVE  Congruent(b, a, m)
<1>1. PICK k \in Int : a - b = k * m
  BY DEF Congruent
<1>2. (-k) * m = -(k * m)
  BY Z3
<1>3. b - a = (-k) * m /\ -k \in Int
  BY <1>1, <1>2, Z3
<1> QED
  BY <1>3 DEF Congruent

(* Congruence passes through a third number.                               *)
LEMMA CongruentThrough ==
  ASSUME NEW m \in Nat, NEW a \in Int, NEW b \in Int, NEW c \in Int,
         Congruent(a, b, m), Congruent(b, c, m)
  PROVE  Congruent(a, c, m)
<1>1. PICK k \in Int : a - b = k * m
  BY DEF Congruent
<1>2. PICK l \in Int : b - c = l * m
  BY DEF Congruent
<1>3. (k + l) * m = k * m + l * m
  BY Z3
<1>4. a - c = (k + l) * m /\ k + l \in Int
  BY <1>1, <1>2, <1>3, Z3
<1> QED
  BY <1>4 DEF Congruent

(* Sums of congruent numbers are congruent.                                *)
LEMMA CongruentSum ==
  ASSUME NEW m \in Nat, NEW a \in Int, NEW b \in Int, NEW c \in Int, NEW d \in Int,
         Congruent(a, b, m), Congruent(c, d, m)
  PROVE  Congruent(a + c, b + d, m)
<1>1. PICK k \in Int : a - b = k * m
  BY DEF Congruent
<1>2. PICK l \in Int : c - d = l * m
  BY DEF Congruent
<1>3. (k + l) * m = k * m + l * m
  BY Z3
<1>4. (a + c) - (b + d) = (k + l) * m /\ k + l \in Int
  BY <1>1, <1>2, <1>3, Z3
<1> QED
  BY <1>4 DEF Congruent

(* Products of congruent numbers are congruent.                            *)
LEMMA CongruentProduct ==
  ASSUME NEW m \in Nat, NEW a \in Int, NEW b \in Int, NEW c \in Int, NEW d \in Int,
         Congruent(a, b, m), Congruent(c, d, m)
  PROVE  Congruent(a * c, b * d, m)
<1>1. PICK k \in Int : a - b = k * m
  BY DEF Congruent
<1>2. PICK l \in Int : c - d = l * m
  BY DEF Congruent
<1>3. a * c - b * d = (a - b) * c + b * (c - d)
  BY Z3
<1>4. (k * m) * c + b * (l * m) = (k * c + b * l) * m
  BY Z3
<1>5. a * c - b * d = (k * c + b * l) * m /\ k * c + b * l \in Int
  BY <1>1, <1>2, <1>3, <1>4, Z3
<1> QED
  BY <1>5 DEF Congruent

(* Differences of congruent numbers are congruent.                         *)
LEMMA CongruentDifference ==
  ASSUME NEW m \in Nat, NEW a \in Int, NEW b \in Int, NEW c \in Int, NEW d \in Int,
         Congruent(a, b, m), Congruent(c, d, m)
  PROVE  Congruent(a - c, b - d, m)
<1>1. PICK k \in Int : a - b = k * m
  BY DEF Congruent
<1>2. PICK l \in Int : c - d = l * m
  BY DEF Congruent
<1>3. (k - l) * m = k * m - l * m
  BY Z3
<1>4. (a - c) - (b - d) = (k - l) * m /\ k - l \in Int
  BY <1>1, <1>2, <1>3, Z3
<1> QED
  BY <1>4 DEF Congruent

(* Two numbers below the modulus are congruent only when they are equal.   *)
LEMMA CongruentSmall ==
  ASSUME NEW m \in Nat, m > 0, NEW a \in 0 .. (m - 1), NEW b \in 0 .. (m - 1),
         Congruent(a, b, m)
  PROVE  a = b
<1>1. PICK k \in Int : a - b = k * m
  BY DEF Congruent
<1>2. k >= 1 => k * m >= m
  BY Z3
<1>3. k <= -1 => k * m <= -m
  BY Z3
<1>4. k = 0
  BY <1>1, <1>2, <1>3, Z3
<1>5. k * m = 0
  BY <1>4, Z3
<1> QED
  BY <1>1, <1>5, Z3

(* Congruent numbers have the same remainder.                              *)
LEMMA SameRemainder ==
  ASSUME NEW m \in Nat, m > 0, NEW a \in Int, NEW b \in Int, Congruent(a, b, m)
  PROVE  (a % m) = (b % m)
<1>1. PICK r \in 0 .. (m - 1) : r = (a % m) /\ Congruent(r, a, m)
  BY Remainder
<1>2. PICK s \in 0 .. (m - 1) : s = (b % m) /\ Congruent(s, b, m)
  BY Remainder
<1>3. Congruent(b, s, m)
  BY <1>2, CongruentFlipped
<1>4. Congruent(r, b, m)
  BY <1>1, CongruentThrough
<1>5. Congruent(r, s, m)
  BY <1>3, <1>4, CongruentThrough
<1>6. r = s
  BY <1>5, CongruentSmall
<1> QED
  BY <1>1, <1>2, <1>6

(* The other way round: numbers with the same remainder are congruent.     *)
LEMMA SameRemainderCongruent ==
  ASSUME NEW m \in Nat, m > 0, NEW a \in Int, NEW b \in Int,
         (a % m) = (b % m)
  PROVE  Congruent(a, b, m)
<1>1. PICK r \in 0 .. (m - 1) : r = (a % m) /\ Congruent(r, a, m)
  BY Remainder
<1>2. Congruent(r, b, m)
  BY <1>1, Remainder
<1>3. Congruent(a, r, m)
  BY <1>1, CongruentFlipped
<1> QED
  BY <1>2, <1>3, CongruentThrough
-----------------------------------------------------------------------------
(* The numbers from 1 to x that are multiples of x modulo m.               *)
MultiplesUpTo(x, m) == {n \in 1 .. x : \E k \in Int : Congruent(n, x * k, m)}

(* The remainder of a prime modulus divided by a multiple of x is again a  *)
(* multiple of x, and smaller: the least one is 1.                         *)
LEMMA SmallerMultiple ==
  ASSUME NEW m, Prime(m), NEW x \in 1 .. (m - 1),
         NEW n \in MultiplesUpTo(x, m), n > 1
  PROVE  \E r \in MultiplesUpTo(x, m) : r < n
<1>1. m \in Nat /\ m > 1 /\ x \in Int /\ n \in 2 .. (m - 1) /\ n \in Int /\ n <= x
  BY DEF Prime, MultiplesUpTo
<1>2. (m % n) # 0
  BY <1>1 DEF Prime
<1>3. PICK k \in Int : Congruent(n, x * k, m)
  BY DEF MultiplesUpTo
<1>4. PICK r \in 0 .. (n - 1) : r = (m % n) /\ Congruent(r, m, n)
  BY <1>1, Remainder
<1>5. PICK q \in Int : r - m = q * n
  BY <1>4 DEF Congruent
<1>6. q * n - r = (-1) * m
  BY <1>1, <1>5, Z3
<1>7. q * n \in Int /\ x * k \in Int /\ q * (x * k) \in Int
  BY <1>1, Z3
<1>8. Congruent(r, q * n, m)
  <2>1. r - q * n = 1 * m
    BY <1>1, <1>5, <1>7, Z3
  <2> QED
    BY <2>1 DEF Congruent
<1>9. Congruent(q * n, q * (x * k), m)
  BY <1>1, <1>3, <1>7, CongruentSelf, CongruentProduct
<1>10. Congruent(r, q * (x * k), m)
  BY <1>1, <1>7, <1>8, <1>9, CongruentThrough
<1>11. q * (x * k) = x * (q * k) /\ q * k \in Int
  BY <1>1, Z3
<1>12. r \in 1 .. x /\ r < n
  BY <1>1, <1>2, <1>4
<1> QED
  BY <1>10, <1>11, <1>12 DEF MultiplesUpTo

(* Modulo a prime every number but zero has an inverse.                    *)
LEMMA InverseExists ==
  ASSUME NEW m \in Nat, Prime(m), NEW x \in 1 .. (m - 1)
  PROVE  \E y \in 0 .. (m - 1) : ((x * y) % m) = 1
<1>1. m \in Nat /\ m > 1 /\ m > 0 /\ x \in Int
  BY DEF Prime
<1>2. MultiplesUpTo(x, m) \in SUBSET Nat
  BY <1>1 DEF MultiplesUpTo
<1>3. x \in MultiplesUpTo(x, m)
  <2>1. x * 1 = x /\ 1 \in Int
    BY <1>1, Z3
  <2> QED
    BY <1>1, <2>1, CongruentSelf DEF MultiplesUpTo
<1>4. PICK n \in MultiplesUpTo(x, m) : \A r \in MultiplesUpTo(x, m) : n <= r
  BY <1>2, <1>3, LeastElement
<1>5. ~ (n > 1)
  <2> SUFFICES ASSUME n > 1 PROVE FALSE
    OBVIOUS
  <2>1. PICK r \in MultiplesUpTo(x, m) : r < n
    BY SmallerMultiple
  <2>2. r \in Nat /\ n \in Nat /\ n <= r
    BY <1>2, <1>4
  <2> QED
    BY <2>1, <2>2
<1>6. n = 1
  BY <1>1, <1>5 DEF MultiplesUpTo
<1>7. PICK k \in Int : Congruent(1, x * k, m)
  BY <1>6 DEF MultiplesUpTo
<1>8. PICK y \in 0 .. (m - 1) : y = (k % m) /\ Congruent(y, k, m)
  <2>1. m > 0
    BY <1>1
  <2>2. (k % m) \in 0 .. (m - 1) /\ Congruent((k % m), k, m)
    BY <2>1, Remainder
  <2> QED
    BY <2>2
<1>9. x * y \in Int /\ x * k \in Int /\ y \in Int
  BY <1>1, Z3
<1>10. Congruent(x * y, x * k, m)
  BY <1>1, <1>8, <1>9, CongruentSelf, CongruentProduct
<1>11. Congruent(x * k, 1, m)
  BY <1>1, <1>7, <1>9, CongruentFlipped
<1>12. Congruent(x * y, 1, m)
  BY <1>1, <1>9, <1>10, <1>11, CongruentThrough
<1>13. ((x * y) % m) = (1 % m)
  <2>1. m > 0 /\ 1 \in Int /\ x * y \in Int
    BY <1>1, <1>9
  <2> QED
    BY <1>12, <2>1, SameRemainder
<1>14. (1 % m) = 1
  BY <1>1, RemainderOfSmall
<1> QED
  BY <1>13, <1>14

(* No number has two inverses below the modulus.                           *)
LEMMA InverseUnique ==
  ASSUME NEW m \in Nat, m > 1, NEW x \in Int,
         NEW y \in 0 .. (m - 1), NEW z \in 0 .. (m - 1),
         Congruent(x * y, 1, m), Congruent(x * z, 1, m)
  PROVE  y = z
<1>1. y \in Int /\ z \in Int /\ x * y \in Int /\ x * z \in Int /\ (x * z) * y \in Int
      /\ (x * y) * z \in Int
  BY Z3
<1>2. Congruent((x * z) * y, 1 * y, m) /\ Congruent((x * y) * z, 1 * z, m)
  <2>1. Congruent(y, y, m) /\ Congruent(z, z, m)
    BY <1>1, CongruentSelf
  <2>2. Congruent((x * z) * y, 1 * y, m)
    BY <1>1, <2>1, CongruentProduct
  <2>3. Congruent((x * y) * z, 1 * z, m)
    BY <1>1, <2>1, CongruentProduct
  <2> QED
    BY <2>2, <2>3
<1>3. (x * z) * y = (x * y) * z /\ 1 * y = y /\ 1 * z = z
  BY <1>1, Z3
<1>4. Congruent((x * y) * z, y, m) /\ Congruent((x * y) * z, z, m)
  BY <1>2, <1>3
<1>5. Congruent(y, (x * y) * z, m)
  BY <1>1, <1>4, CongruentFlipped
<1>6. Congruent(y, z, m)
  BY <1>1, <1>4, <1>5, CongruentThrough
<1> QED
  BY <1>6, CongruentSmall
-----------------------------------------------------------------------------
(* Lists.                                                                  *)

(* Two lists of the same positions have the same length.                   *)
LEMMA SameLength ==
  ASSUME NEW m \in Nat, NEW n \in Nat \ {0}, 1 .. m = 1 .. n
  PROVE  m = n
<1>1. n \in 1 .. n
  OBVIOUS
<1>2. n <= m
  BY <1>1
<1>3. m \in 1 .. m
  BY <1>2
<1>4. m <= n
  BY <1>3
<1> QED
  BY <1>2, <1>4

(* A function on the first n numbers is a sequence of what it takes on.    *)
LEMMA ListOf ==
  ASSUME NEW n \in Nat, NEW S, NEW f \in [1 .. n -> S]
  PROVE  f \in Seq(S) /\ Len(f) = n
<1>1. f \in Seq(S)
  BY SeqDef
<1>2. Len(f) \in Nat /\ 1 .. Len(f) = 1 .. n
  BY <1>1, LenProperties
<1>3. CASE n = 0
  <2>1. 1 .. Len(f) = {}
    BY <1>2, <1>3
  <2> QED
    BY <1>1, <1>2, <1>3, <2>1
<1>4. CASE n # 0
  BY <1>2, <1>4, SameLength
<1> QED
  BY <1>1, <1>3, <1>4

FlattenStep(ss, f, j) == IF j = 1 THEN ss[j] ELSE f[j - 1] \o ss[j]

ObeysFlatten(ss, f, m) == f = [j \in 1 .. m |-> FlattenStep(ss, f, j)]

(* Some function obeys the recursion of FlattenSeq.                        *)
LEMMA FlattenRecursionExists ==
  ASSUME NEW ss, NEW m \in Nat
  PROVE  \E f : ObeysFlatten(ss, f, m)
<1> DEFINE T == {n \in Nat : \E f : ObeysFlatten(ss, f, n)}
<1>1. 0 \in T
  <2> DEFINE f == [j \in 1 .. 0 |-> FlattenStep(ss, <<>>, j)]
  <2>1. f = [j \in 1 .. 0 |-> FlattenStep(ss, f, j)]
    OBVIOUS
  <2> HIDE DEF f
  <2> QED
    BY <2>1 DEF ObeysFlatten
<1>2. ASSUME NEW n \in T
      PROVE  n + 1 \in T
  <2>1. PICK f : ObeysFlatten(ss, f, n)
    OBVIOUS
  <2> DEFINE h == [j \in 1 .. (n + 1) |-> FlattenStep(ss, f, j)]
  <2>2. \A j \in 1 .. n : f[j] = FlattenStep(ss, f, j)
    BY <2>1 DEF ObeysFlatten
  <2>3. \A j \in 1 .. n : j \in 1 .. (n + 1)
    OBVIOUS
  <2>4. \A j \in 1 .. n : h[j] = f[j]
    BY <2>2, <2>3
  <2>5. ASSUME NEW j \in 1 .. (n + 1)
        PROVE  FlattenStep(ss, f, j) = FlattenStep(ss, h, j)
    <3>1. j = 1 \/ j - 1 \in 1 .. n
      OBVIOUS
    <3> HIDE DEF h
    <3> QED
      BY <2>4, <3>1 DEF FlattenStep
  <2>6. ObeysFlatten(ss, h, n + 1)
    BY <2>5 DEF ObeysFlatten
  <2> HIDE DEF h
  <2>7. n + 1 \in Nat /\ \E e : ObeysFlatten(ss, e, n + 1)
    BY <2>6
  <2> QED
    BY <2>7
<1>3. T = Nat
  <2> HIDE DEF T
  <2>1. T \in SUBSET Nat
    BY DEF T
  <2> QED
    BY <1>1, <1>2, <2>1, NaturalsFrom0
<1> QED
  BY <1>3
=============================================================================
