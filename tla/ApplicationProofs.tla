-------------------------- MODULE ApplicationProofs -------------------------
(***************************************************************************)
(* What an application may rely on, for all values of the constants: of    *)
(* the windows of outcomes and the ejections judged from them, of counters *)
(* and snapshots, and of every pick of every policy.  Sums and products    *)
(* over finite sets come first, by induction over the subsets of a set.    *)
(***************************************************************************)
EXTENDS Application, FiniteSetTheorems, WellFoundedInduction, TLAPS

-----------------------------------------------------------------------------
(* Induction, and sums.                                                    *)

\* Induction over the natural numbers, on a set of them.
LEMMA Induction ==
  ASSUME NEW T \in SUBSET Nat, 0 \in T, \A n \in T : n + 1 \in T
  PROVE  T = Nat
<1> SUFFICES ASSUME Nat \ T # {} PROVE FALSE
  OBVIOUS
<1>1. PICK n \in Nat \ T : \A m \in Nat \ T : ~(<<m, n>> \in OpToRel(<, Nat))
  BY NatLessThanWellFounded, WFMin
<1>2. \A m \in Nat \ T : ~(m < n)
  BY <1>1 DEF OpToRel
<1>3. n # 0 /\ n - 1 \in Nat /\ n - 1 < n /\ n = (n - 1) + 1
  OBVIOUS
<1>4. n - 1 \in T
  BY <1>2, <1>3
<1> QED
  BY <1>3, <1>4

\* ... and over the subsets of a finite set, one element more at a time.
LEMMA SubsetInduction ==
  ASSUME NEW S, IsFiniteSet(S), NEW P \in SUBSET (SUBSET S), {} \in P,
         \A t \in SUBSET S :
           t # {} /\ (\A x \in t : t \ {x} \in P) => t \in P
  PROVE  P = SUBSET S
<1> DEFINE T == {n \in Nat : \A t \in SUBSET S : Cardinality(t) = n => t \in P}
<1>1. \A t \in SUBSET S : IsFiniteSet(t) /\ Cardinality(t) \in Nat
  BY FS_Subset, FS_CardinalityType
<1>2. 0 \in T
  <2>1. \A t \in SUBSET S : Cardinality(t) = 0 => t = {}
    BY <1>1, FS_EmptySet
  <2> QED
    BY <2>1
<1>3. ASSUME NEW n \in T PROVE n + 1 \in T
  <2> SUFFICES ASSUME NEW t \in SUBSET S, Cardinality(t) = n + 1
               PROVE  t \in P
    OBVIOUS
  <2>1. t # {}
    BY FS_EmptySet
  <2>2. ASSUME NEW x \in t PROVE t \ {x} \in P
    <3>1. Cardinality(t \ {x}) = n
      BY <1>1, FS_RemoveElement
    <3> QED
      BY <3>1
  <2> QED
    BY <2>1, <2>2
<1>4. T = Nat
  <2> HIDE DEF T
  <2>1. T \in SUBSET Nat
    BY DEF T
  <2> QED
    BY <1>2, <1>3, <2>1, Induction
<1> QED
  BY <1>1, <1>4

\* The recursion behind the sums of the library.
StepOf(times, f, s, g) ==
  IF s = {} THEN IF times THEN 1 ELSE 0
  ELSE LET x == CHOOSE y \in s : TRUE
       IN  IF times THEN f[x] * g[s \ {x}] ELSE f[x] + g[s \ {x}]

Recursion(times, f, S, g) == g = [s \in SUBSET S |-> StepOf(times, f, s, g)]

Iteration(times, f, S) == CHOOSE g : Recursion(times, f, S, g)

SumOf(f, S) == SumFunctionOnSet(f, S)

Product(f, S) == FoldFunctionOnSet(LAMBDA x, y : x * y, 1, f, S)

\* The sum of the library is what its recursion gives for the whole set.
LEMMA SumUnfold ==
  ASSUME NEW f, NEW S
  PROVE  SumOf(f, S) = Iteration(FALSE, f, S)[S]
BY DEF SumOf, SumFunctionOnSet, FoldFunctionOnSet, MapThenFoldSet, Iteration,
       Recursion, StepOf

\* So is the product.
LEMMA ProductUnfold ==
  ASSUME NEW f, NEW S
  PROVE  Product(f, S) = Iteration(TRUE, f, S)[S]
BY DEF Product, FoldFunctionOnSet, MapThenFoldSet, Iteration, Recursion, StepOf

\* A function that solves the recursion on every set of n elements at most.
LEMMA IterationExists ==
  ASSUME NEW S, IsFiniteSet(S), NEW f, NEW times \in BOOLEAN
  PROVE  Recursion(times, f, S, Iteration(times, f, S))
<1> DEFINE Level(n) == {t \in SUBSET S : Cardinality(t) <= n}
           T == {n \in Nat : \E g : \A s \in Level(n) : g[s] = StepOf(times, f, s, g)}
<1>1. \A t \in SUBSET S : IsFiniteSet(t) /\ Cardinality(t) \in Nat
  BY FS_Subset, FS_CardinalityType
<1>2. 0 \in T
  <2>1. \A t \in Level(0) : t = {}
    BY <1>1, FS_EmptySet
  <2> DEFINE g == [s \in {{}} |-> IF times THEN 1 ELSE 0]
  <2>2. \A s \in Level(0) : g[s] = StepOf(times, f, s, g)
    BY <2>1 DEF StepOf
  <2> HIDE DEF g
  <2> QED
    BY <2>2
<1>3. ASSUME NEW n \in T PROVE n + 1 \in T
  <2>1. PICK g : \A s \in Level(n) : g[s] = StepOf(times, f, s, g)
    OBVIOUS
  <2> DEFINE h == [s \in SUBSET S |-> IF s \in Level(n) THEN g[s] ELSE StepOf(times, f, s, g)]
  <2>2. ASSUME NEW s \in Level(n + 1), s # {}, NEW x \in s
        PROVE  h[s \ {x}] = g[s \ {x}]
    <3>1. Cardinality(s \ {x}) = Cardinality(s) - 1
      BY <1>1, FS_RemoveElement
    <3>2. s \ {x} \in Level(n)
      BY <1>1, <3>1
    <3> QED
      BY <3>2
  <2>3. \A s \in Level(n + 1) : s # {} => (CHOOSE y \in s : TRUE) \in s
    OBVIOUS
  <2>4. \A s \in Level(n + 1) : StepOf(times, f, s, h) = StepOf(times, f, s, g)
    <3> HIDE DEF h, Level
    <3> TAKE s \in Level(n + 1)
    <3>1. CASE s = {}
      BY <3>1 DEF StepOf
    <3>2. CASE s # {}
      <4> DEFINE x == CHOOSE y \in s : TRUE
      <4>1. x \in s
        BY <3>2
      <4>2. h[s \ {x}] = g[s \ {x}]
        BY <2>2, <3>2, <4>1
      <4>3. /\ StepOf(times, f, s, h) = IF times THEN f[x] * h[s \ {x}] ELSE f[x] + h[s \ {x}]
            /\ StepOf(times, f, s, g) = IF times THEN f[x] * g[s \ {x}] ELSE f[x] + g[s \ {x}]
        BY <3>2 DEF StepOf
      <4> QED
        BY <4>2, <4>3
    <3> QED
      BY <3>1, <3>2
  <2>5. \A s \in Level(n + 1) : h[s] = StepOf(times, f, s, g)
    BY <2>1
  <2>6. \A s \in Level(n + 1) : h[s] = StepOf(times, f, s, h)
    BY <2>4, <2>5
  <2> HIDE DEF h
  <2> QED
    BY <2>6
<1>4. T = Nat
  <2> HIDE DEF T
  <2>1. T \in SUBSET Nat
    BY DEF T
  <2> QED
    BY <1>2, <1>3, <2>1, Induction
<1>5. Cardinality(S) \in T
  BY <1>4, FS_CardinalityType
<1>6. PICK g : \A s \in Level(Cardinality(S)) : g[s] = StepOf(times, f, s, g)
  BY <1>5
<1>7. SUBSET S = Level(Cardinality(S))
  BY FS_Subset
<1> DEFINE h == [s \in SUBSET S |-> g[s]]
<1>8. \A s \in SUBSET S : StepOf(times, f, s, h) = StepOf(times, f, s, g)
  BY DEF StepOf
<1>9. Recursion(times, f, S, h)
  <2>1. \A s \in SUBSET S : h[s] = StepOf(times, f, s, h)
    BY <1>6, <1>7, <1>8
  <2>2. h = [s \in SUBSET S |-> h[s]]
    OBVIOUS
  <2> HIDE DEF h
  <2> QED
    BY <2>1, <2>2 DEF Recursion
<1> QED
  BY <1>9 DEF Iteration

\* A finite set has one solution of the recursion.
LEMMA RecursionUnique ==
  ASSUME NEW S, IsFiniteSet(S), NEW f, NEW times \in BOOLEAN, NEW g, NEW h,
         \A t \in SUBSET S : g[t] = StepOf(times, f, t, g),
         \A t \in SUBSET S : h[t] = StepOf(times, f, t, h)
  PROVE  \A t \in SUBSET S : g[t] = h[t]
<1> DEFINE P == {t \in SUBSET S : g[t] = h[t]}
<1>1. {} \in P
  BY DEF StepOf
<1>2. ASSUME NEW t \in SUBSET S, t # {}, \A x \in t : t \ {x} \in P
      PROVE  t \in P
  <2> DEFINE x == CHOOSE y \in t : TRUE
  <2>1. x \in t
    BY <1>2
  <2>2. g[t \ {x}] = h[t \ {x}]
    BY <1>2, <2>1
  <2>3. /\ g[t] = IF times THEN f[x] * g[t \ {x}] ELSE f[x] + g[t \ {x}]
        /\ h[t] = IF times THEN f[x] * h[t \ {x}] ELSE f[x] + h[t \ {x}]
    BY <1>2 DEF StepOf
  <2> QED
    BY <2>2, <2>3
<1>3. P = SUBSET S
  <2> HIDE DEF P
  <2>1. P \in SUBSET (SUBSET S)
    BY DEF P
  <2> QED
    BY <1>1, <1>2, <2>1, SubsetInduction
<1> QED
  BY <1>3

\* The recursion, unfolded once at the element the library chooses.
LEMMA IterationChosen ==
  ASSUME NEW S, IsFiniteSet(S), NEW f, NEW times \in BOOLEAN, S # {}
  PROVE  LET x == CHOOSE y \in S : TRUE
             T == S \ {x}
             rest == Iteration(times, f, T)[T]
         IN  Iteration(times, f, S)[S] = IF times THEN f[x] * rest ELSE f[x] + rest
<1> DEFINE x == CHOOSE y \in S : TRUE
           T == S \ {x}
           g == Iteration(times, f, S)
           h == Iteration(times, f, T)
<1>1. x \in S /\ T \subseteq S /\ IsFiniteSet(T)
  BY FS_Subset
<1>2. Recursion(times, f, S, g) /\ Recursion(times, f, T, h)
  BY <1>1, IterationExists
<1>3. /\ \A t \in SUBSET S : g[t] = StepOf(times, f, t, g)
      /\ \A t \in SUBSET T : h[t] = StepOf(times, f, t, h)
  BY <1>2 DEF Recursion
<1>4. \A t \in SUBSET T : g[t] = h[t]
  <2>1. \A t \in SUBSET T : g[t] = StepOf(times, f, t, g)
    BY <1>1, <1>3
  <2>2. \A t \in SUBSET T : h[t] = StepOf(times, f, t, h)
    BY <1>3
  <2>3. IsFiniteSet(T)
    BY <1>1
  <2> HIDE DEF g, h, T
  <2> QED
    BY <2>1, <2>2, <2>3, RecursionUnique
<1>5. g[S] = IF times THEN f[x] * g[T] ELSE f[x] + g[T]
  BY <1>3 DEF StepOf
<1>6. g[T] = h[T]
  BY <1>4
<1> QED
  BY <1>5, <1>6

\* The recursion on no element.
LEMMA IterationEmpty ==
  ASSUME NEW f, NEW times \in BOOLEAN
  PROVE  Iteration(times, f, {})[{}] = IF times THEN 1 ELSE 0
<1>1. Recursion(times, f, {}, Iteration(times, f, {}))
  BY FS_EmptySet, IterationExists
<1> QED
  BY <1>1 DEF Recursion, StepOf

\* A sum, unfolded at the element the library chooses.
LEMMA SumChosen ==
  ASSUME NEW S, IsFiniteSet(S), NEW f, S # {}
  PROVE  LET x == CHOOSE y \in S : TRUE IN SumOf(f, S) = f[x] + SumOf(f, S \ {x})
BY IterationChosen, SumUnfold

\* The sum of nothing.
LEMMA SumEmpty ==
  ASSUME NEW f
  PROVE  SumOf(f, {}) = 0
BY IterationEmpty, SumUnfold

\* The product of nothing.
LEMMA ProductEmpty ==
  ASSUME NEW f
  PROVE  Product(f, {}) = 1
BY IterationEmpty, ProductUnfold

\* A product, unfolded at the element the library chooses.
LEMMA ProductChosen ==
  ASSUME NEW S, IsFiniteSet(S), NEW f, S # {}
  PROVE  LET x == CHOOSE y \in S : TRUE
         IN  Product(f, S) = f[x] * Product(f, S \ {x})
BY IterationChosen, ProductUnfold

\* A product of positive numbers is one, and a multiple of each of them.
LEMMA ProductDivisible ==
  ASSUME NEW S, IsFiniteSet(S), NEW f, \A x \in S : f[x] \in Nat \ {0}
  PROVE  /\ Product(f, S) \in Nat \ {0}
         /\ \A x \in S : \E k \in Nat : Product(f, S) = k * f[x]
<1> DEFINE P == {t \in SUBSET S : /\ Product(f, t) \in Nat \ {0}
                                  /\ \A x \in t : \E k \in Nat : Product(f, t) = k * f[x]}
<1>1. {} \in P
  BY ProductEmpty
<1>2. ASSUME NEW t \in SUBSET S, t # {}, \A x \in t : t \ {x} \in P
      PROVE  t \in P
  <2> DEFINE x == CHOOSE y \in t : TRUE
             rest == Product(f, t \ {x})
  <2>1. x \in t
    BY <1>2
  <2>2. rest \in Nat \ {0} /\ f[x] \in Nat \ {0}
    BY <1>2, <2>1
  <2>3. Product(f, t) = f[x] * rest
    BY <1>2, ProductChosen, FS_Subset
  <2>4. Product(f, t) \in Nat \ {0}
    <3> HIDE DEF rest, x
    <3> QED
      BY <2>2, <2>3
  <2>5. ASSUME NEW y \in t PROVE \E k \in Nat : Product(f, t) = k * f[y]
    <3>1. CASE y = x
      <4> HIDE DEF rest, x
      <4> QED
        BY <2>2, <2>3, <3>1
    <3>2. CASE y # x
      <4>1. PICK k \in Nat : rest = k * f[y]
        BY <1>2, <2>1, <3>2
      <4>2. f[y] \in Nat
        OBVIOUS
      <4>3. f[x] * k \in Nat /\ Product(f, t) = (f[x] * k) * f[y]
        <5> HIDE DEF rest, x
        <5> QED
          BY <2>2, <2>3, <4>1, <4>2
      <4> QED
        BY <4>3
    <3> QED
      BY <3>1, <3>2
  <2> QED
    BY <2>4, <2>5
<1>3. P = SUBSET S
  <2> HIDE DEF P
  <2>1. P \in SUBSET (SUBSET S)
    BY DEF P
  <2> QED
    BY <1>1, <1>2, <2>1, SubsetInduction
<1> QED
  BY <1>3

\* A sum of integers is an integer.
LEMMA SumType ==
  ASSUME NEW S, IsFiniteSet(S), NEW f, \A x \in S : f[x] \in Int
  PROVE  SumOf(f, S) \in Int
<1> DEFINE P == {t \in SUBSET S : SumOf(f, t) \in Int}
<1>1. {} \in P
  BY SumEmpty
<1>2. ASSUME NEW t \in SUBSET S, t # {}, \A x \in t : t \ {x} \in P
      PROVE  t \in P
  <2> DEFINE x == CHOOSE y \in t : TRUE
  <2>1. x \in t
    BY <1>2
  <2>2. SumOf(f, t \ {x}) \in Int /\ f[x] \in Int
    BY <1>2, <2>1
  <2>3. SumOf(f, t) = f[x] + SumOf(f, t \ {x})
    BY <1>2, SumChosen, FS_Subset
  <2> QED
    BY <2>2, <2>3
<1>3. P = SUBSET S
  <2> HIDE DEF P
  <2>1. P \in SUBSET (SUBSET S)
    BY DEF P
  <2> QED
    BY <1>1, <1>2, <2>1, SubsetInduction
<1> QED
  BY <1>3

\* A sum, unfolded at an element of the reader's choice.
LEMMA SumRemove ==
  ASSUME NEW S, IsFiniteSet(S), NEW f, \A x \in S : f[x] \in Int, NEW z \in S
  PROVE  SumOf(f, S) = f[z] + SumOf(f, S \ {z})
<1> DEFINE P == {t \in SUBSET S : \A y \in t : SumOf(f, t) = f[y] + SumOf(f, t \ {y})}
<1>0. \A t \in SUBSET S : IsFiniteSet(t) /\ SumOf(f, t) \in Int
  BY FS_Subset, SumType
<1>1. {} \in P
  OBVIOUS
<1>2. ASSUME NEW t \in SUBSET S, t # {}, \A x \in t : t \ {x} \in P
      PROVE  t \in P
  <2> SUFFICES ASSUME NEW y \in t PROVE SumOf(f, t) = f[y] + SumOf(f, t \ {y})
    OBVIOUS
  <2> DEFINE x == CHOOSE w \in t : TRUE
  <2>1. x \in t
    BY <1>2
  <2>2. SumOf(f, t) = f[x] + SumOf(f, t \ {x})
    BY <1>0, <1>2, SumChosen
  <2>3. CASE y # x
    <3>1. SumOf(f, t \ {x}) = f[y] + SumOf(f, (t \ {x}) \ {y})
      BY <1>2, <2>1, <2>3
    <3>2. SumOf(f, t \ {y}) = f[x] + SumOf(f, (t \ {y}) \ {x})
      BY <1>2, <2>1, <2>3
    <3>3. (t \ {x}) \ {y} = (t \ {y}) \ {x}
      OBVIOUS
    <3>4. f[x] \in Int /\ f[y] \in Int /\ SumOf(f, (t \ {x}) \ {y}) \in Int
      BY <1>0, <2>1
    <3>5. SumOf(f, (t \ {x}) \ {y}) = SumOf(f, (t \ {y}) \ {x})
      BY <3>3
    <3> HIDE DEF x
    <3> QED
      BY <2>2, <3>1, <3>2, <3>4, <3>5
  <2> QED
    BY <2>2, <2>3
<1>3. P = SUBSET S
  <2> HIDE DEF P
  <2>1. P \in SUBSET (SUBSET S)
    BY DEF P
  <2> QED
    BY <1>1, <1>2, <2>1, SubsetInduction
<1> QED
  BY <1>3

\* A sum with one element more.
LEMMA SumAdd ==
  ASSUME NEW S, IsFiniteSet(S), NEW f, NEW z, z \notin S,
         \A x \in S \cup {z} : f[x] \in Int
  PROVE  SumOf(f, S \cup {z}) = SumOf(f, S) + f[z]
<1>1. IsFiniteSet(S \cup {z}) /\ (S \cup {z}) \ {z} = S
  BY FS_AddElement
<1>2. SumOf(f, S \cup {z}) = f[z] + SumOf(f, S)
  BY <1>1, SumRemove
<1> QED
  BY <1>2, SumType

\* Equal terms have equal sums.
LEMMA SumSame ==
  ASSUME NEW S, IsFiniteSet(S), NEW f, NEW g,
         \A x \in S : f[x] \in Int /\ f[x] = g[x]
  PROVE  SumOf(f, S) = SumOf(g, S)
<1> DEFINE P == {t \in SUBSET S : SumOf(f, t) = SumOf(g, t)}
<1>1. {} \in P
  BY SumEmpty
<1>2. ASSUME NEW t \in SUBSET S, t # {}, \A x \in t : t \ {x} \in P
      PROVE  t \in P
  <2>1. PICK x \in t : TRUE
    BY <1>2
  <2>2. SumOf(f, t) = f[x] + SumOf(f, t \ {x}) /\ SumOf(g, t) = g[x] + SumOf(g, t \ {x})
    BY FS_Subset, SumRemove
  <2> QED
    BY <1>2, <2>2
<1>3. P = SUBSET S
  <2> HIDE DEF P
  <2>1. P \in SUBSET (SUBSET S)
    BY DEF P
  <2> QED
    BY <1>1, <1>2, <2>1, SubsetInduction
<1> QED
  BY <1>3

\* A larger summand makes a sum no smaller.
LEMMA SumMonotone ==
  ASSUME NEW S, IsFiniteSet(S), NEW f, NEW g,
         \A x \in S : f[x] \in Int /\ g[x] \in Int /\ f[x] <= g[x]
  PROVE  SumOf(f, S) <= SumOf(g, S)
<1> DEFINE P == {t \in SUBSET S : SumOf(f, t) <= SumOf(g, t)}
<1>1. {} \in P
  BY SumEmpty
<1>2. ASSUME NEW t \in SUBSET S, t # {}, \A x \in t : t \ {x} \in P
      PROVE  t \in P
  <2>1. PICK x \in t : TRUE
    BY <1>2
  <2>2. SumOf(f, t) = f[x] + SumOf(f, t \ {x}) /\ SumOf(g, t) = g[x] + SumOf(g, t \ {x})
    BY FS_Subset, SumRemove
  <2>3. SumOf(f, t \ {x}) \in Int /\ SumOf(g, t \ {x}) \in Int
    BY FS_Subset, SumType
  <2>4. SumOf(f, t \ {x}) <= SumOf(g, t \ {x})
    BY <1>2
  <2> QED
    BY <2>2, <2>3, <2>4
<1>3. P = SUBSET S
  <2> HIDE DEF P
  <2>1. P \in SUBSET (SUBSET S)
    BY DEF P
  <2> QED
    BY <1>1, <1>2, <2>1, SubsetInduction
<1> QED
  BY <1>3

\* A sum of natural numbers is one, and no part of it is more than the whole.
LEMMA SumParts ==
  ASSUME NEW S, IsFiniteSet(S), NEW f, \A x \in S : f[x] \in Nat
  PROVE  /\ SumOf(f, S) \in Nat
         /\ \A t \in SUBSET S : SumOf(f, t) \in Nat /\ SumOf(f, t) <= SumOf(f, S)
         /\ \A x \in S : f[x] <= SumOf(f, S)
<1> DEFINE P == {t \in SUBSET S : /\ SumOf(f, t) \in Nat
                                  /\ \A s \in SUBSET t : SumOf(f, s) <= SumOf(f, t)}
<1>1. {} \in P
  <2>1. \A s \in SUBSET {} : s = {}
    OBVIOUS
  <2> QED
    BY <2>1, SumEmpty
<1>2. ASSUME NEW t \in SUBSET S, t # {}, \A x \in t : t \ {x} \in P
      PROVE  t \in P
  <2>1. \A x \in t : SumOf(f, t) = f[x] + SumOf(f, t \ {x})
    <3>1. IsFiniteSet(t) /\ \A x \in t : f[x] \in Int
      BY FS_Subset
    <3> QED
      BY <3>1, SumRemove
  <2>2. \A x \in t : SumOf(f, t \ {x}) \in Nat /\ f[x] \in Nat
    BY <1>2
  <2>3. SumOf(f, t) \in Nat
    <3>1. PICK x \in t : TRUE
      BY <1>2
    <3>2. SumOf(f, t) = f[x] + SumOf(f, t \ {x})
      BY <2>1
    <3>3. SumOf(f, t \ {x}) \in Nat /\ f[x] \in Nat
      BY <2>2
    <3> HIDE <2>1, <2>2
    <3> QED
      BY <3>2, <3>3
  <2>4. ASSUME NEW s \in SUBSET t PROVE SumOf(f, s) <= SumOf(f, t)
    <3>1. CASE s # t
      <4>1. PICK x \in t : x \notin s
        BY <3>1
      <4>2. s \in SUBSET (t \ {x})
        BY <4>1
      <4>3. SumOf(f, s) <= SumOf(f, t \ {x})
        BY <1>2, <4>2
      <4>4. IsFiniteSet(s) /\ \A y \in s : f[y] \in Int
        BY FS_Subset
      <4>5. SumOf(f, s) \in Int
        BY <4>4, SumType
      <4> QED
        BY <2>1, <2>2, <4>3, <4>5
    <3> QED
      BY <2>3, <3>1
  <2> QED
    BY <2>3, <2>4
<1>3. P = SUBSET S
  <2> HIDE DEF P
  <2>1. P \in SUBSET (SUBSET S)
    BY DEF P
  <2> QED
    BY <1>1, <1>2, <2>1, SubsetInduction
<1>4. \A t \in SUBSET S : SumOf(f, t) \in Nat /\ SumOf(f, t) <= SumOf(f, S)
  BY <1>3
<1>5. ASSUME NEW x \in S PROVE f[x] <= SumOf(f, S)
  <2>1. SumOf(f, S) = f[x] + SumOf(f, S \ {x})
    BY SumRemove
  <2> QED
    BY <1>4, <2>1
<1> QED
  BY <1>4, <1>5

\* A common factor leaves a sum.
LEMMA SumScaled ==
  ASSUME NEW S, IsFiniteSet(S), NEW f, NEW g, NEW c \in Int,
         \A x \in S : f[x] \in Int /\ g[x] = c * f[x]
  PROVE  SumOf(g, S) = c * SumOf(f, S)
<1> DEFINE P == {t \in SUBSET S : SumOf(g, t) = c * SumOf(f, t)}
<1>0. \A x \in S : g[x] \in Int
  OBVIOUS
<1>1. {} \in P
  BY SumEmpty
<1>2. ASSUME NEW t \in SUBSET S, t # {}, \A x \in t : t \ {x} \in P
      PROVE  t \in P
  <2>1. PICK x \in t : TRUE
    BY <1>2
  <2>2. SumOf(f, t) = f[x] + SumOf(f, t \ {x}) /\ SumOf(g, t) = g[x] + SumOf(g, t \ {x})
    BY <1>0, FS_Subset, SumRemove
  <2>3. SumOf(f, t \ {x}) \in Int /\ f[x] \in Int /\ g[x] = c * f[x]
    BY FS_Subset, SumType
  <2>4. SumOf(g, t \ {x}) = c * SumOf(f, t \ {x})
    BY <1>2
  <2>5. \A a, b \in Int : c * (a + b) = c * a + c * b
    OBVIOUS
  <2> QED
    BY <2>2, <2>3, <2>4, <2>5
<1>3. P = SUBSET S
  <2> HIDE DEF P
  <2>1. P \in SUBSET (SUBSET S)
    BY DEF P
  <2> QED
    BY <1>1, <1>2, <2>1, SubsetInduction
<1> QED
  BY <1>3

\* A sum of equal terms.
LEMMA SumOfOnes ==
  ASSUME NEW S, IsFiniteSet(S), NEW f, NEW c \in Int, \A x \in S : f[x] = c
  PROVE  SumOf(f, S) = c * Cardinality(S)
<1> DEFINE P == {t \in SUBSET S : SumOf(f, t) = c * Cardinality(t)}
<1>1. {} \in P
  BY SumEmpty, FS_EmptySet
<1>2. ASSUME NEW t \in SUBSET S, t # {}, \A x \in t : t \ {x} \in P
      PROVE  t \in P
  <2>1. PICK x \in t : TRUE
    BY <1>2
  <2>2. SumOf(f, t) = c + SumOf(f, t \ {x})
    BY FS_Subset, SumRemove
  <2>3. Cardinality(t \ {x}) = Cardinality(t) - 1 /\ Cardinality(t) \in Nat
    BY FS_Subset, FS_RemoveElement, FS_CardinalityType
  <2>4. SumOf(f, t \ {x}) = c * Cardinality(t \ {x})
    BY <1>2
  <2>5. \A a \in Int : c + c * (a - 1) = c * a
    OBVIOUS
  <2> QED
    BY <2>2, <2>3, <2>4, <2>5
<1>3. P = SUBSET S
  <2> HIDE DEF P
  <2>1. P \in SUBSET (SUBSET S)
    BY DEF P
  <2> QED
    BY <1>1, <1>2, <2>1, SubsetInduction
<1> QED
  BY <1>3

\* The largest and the smallest of two numbers.
LEMMA MaxOfTwo ==
  ASSUME NEW a \in Int, NEW b \in Int
  PROVE  Max({a, b}) = IF a >= b THEN a ELSE b
BY DEF Max

\* The smaller of two numbers.
LEMMA MinOfTwo ==
  ASSUME NEW a \in Int, NEW b \in Int
  PROVE  Min({a, b}) = IF a <= b THEN a ELSE b
BY DEF Min

\* A sum over one set is a sum over another that it is mapped onto.
Onto(b, S) == {b[x] : x \in S}

\* A sum may be taken over the image of an injection.
LEMMA SumOnto ==
  ASSUME NEW S, IsFiniteSet(S), NEW f, NEW g, NEW b,
         \A x \in S : f[x] \in Int /\ f[x] = g[b[x]],
         \A x, y \in S : b[x] = b[y] => x = y
  PROVE  SumOf(f, S) = SumOf(g, Onto(b, S))
<1> DEFINE P == {t \in SUBSET S : /\ IsFiniteSet(Onto(b, t))
                                  /\ SumOf(f, t) = SumOf(g, Onto(b, t))}
<1>1. {} \in P
  <2>1. Onto(b, {}) = {}
    BY DEF Onto
  <2> QED
    BY <2>1, SumEmpty, FS_EmptySet
<1>2. ASSUME NEW t \in SUBSET S, t # {}, \A x \in t : t \ {x} \in P
      PROVE  t \in P
  <2>1. PICK x \in t : TRUE
    BY <1>2
  <2> DEFINE B == Onto(b, t)
             C == Onto(b, t \ {x})
  <2>2. b[x] \in B /\ B \ {b[x]} = C /\ B = C \cup {b[x]}
    <3>1. \A y, z \in t : b[y] = b[z] => y = z
      OBVIOUS
    <3>2. x \in t
      OBVIOUS
    <3> QED
      BY ONLY <3>1, <3>2 DEF Onto
  <2>3. IsFiniteSet(C) /\ SumOf(f, t \ {x}) = SumOf(g, C)
    <3>1. t \ {x} \in P
      BY <1>2, <2>1
    <3> QED
      BY ONLY <3>1
  <2>4. \A y \in B : g[y] \in Int
    BY DEF Onto
  <2>5. SumOf(f, t) = f[x] + SumOf(f, t \ {x})
    BY FS_Subset, SumRemove
  <2>6. f[x] = g[b[x]]
    OBVIOUS
  <2> HIDE DEF B, C
  <2>7. IsFiniteSet(B)
    <3>1. IsFiniteSet(C \cup {b[x]})
      BY ONLY <2>3, FS_AddElement
    <3> QED
      BY ONLY <2>2, <3>1
  <2>8. SumOf(g, B) = g[b[x]] + SumOf(g, B \ {b[x]})
    BY ONLY <2>2, <2>4, <2>7, SumRemove
  <2>9. SumOf(f, t) = SumOf(g, B)
    BY ONLY <2>2, <2>3, <2>5, <2>6, <2>8
  <2> QED
    BY <2>7, <2>9 DEF B
<1>3. P = SUBSET S
  <2> HIDE DEF P
  <2>1. P \in SUBSET (SUBSET S)
    BY DEF P
  <2>2. IsFiniteSet(S)
    OBVIOUS
  <2> QED
    BY ONLY <1>1, <1>2, <2>1, <2>2, SubsetInduction
<1> QED
  BY <1>3

-----------------------------------------------------------------------------
(* Windows.                                                                *)

\* The sum over a sequence of the values f gives its elements.
Over(f, s) == SumOf([i \in 1..Len(s) |-> f[s[i]]], 1..Len(s))

\* A sum over a sequence is an integer.
LEMMA OverType ==
  ASSUME NEW A, NEW f \in [A -> Int], NEW s \in Seq(A)
  PROVE  Over(f, s) \in Int
<1>1. IsFiniteSet(1..Len(s)) /\ \A i \in 1..Len(s) : s[i] \in A
  BY FS_Interval
<1> QED
  BY <1>1, SumType DEF Over

\* A sequence with one element more.
LEMMA OverAppend ==
  ASSUME NEW A, NEW f \in [A -> Int], NEW s \in Seq(A), NEW o \in A
  PROVE  Over(f, Append(s, o)) = Over(f, s) + f[o]
<1> DEFINE n == Len(s)
           t == Append(s, o)
           I == 1..n
           J == 1..(n + 1)
           z == n + 1
           F == [i \in I |-> f[s[i]]]
           G == [i \in J |-> f[t[i]]]
<1>1. Len(t) = n + 1 /\ n \in Nat
  OBVIOUS
<1>2. J = I \cup {z} /\ z \notin I
  BY <1>1
<1>3. IsFiniteSet(I)
  BY <1>1, FS_Interval
<1>4. G[z] = f[o] /\ f[o] \in Int
  OBVIOUS
<1>5. \A i \in I : F[i] = G[i] /\ F[i] \in Int
  OBVIOUS
<1>6. Over(f, s) = SumOf(F, I) /\ Over(f, t) = SumOf(G, J)
  BY <1>1 DEF Over
<1>7. \A i \in I \cup {z} : G[i] \in Int
  BY <1>4, <1>5
<1> HIDE DEF F, G, I, J, z
<1>8. SumOf(F, I) = SumOf(G, I)
  BY <1>3, <1>5, SumSame
<1>9. SumOf(G, J) = SumOf(G, I) + G[z]
  BY <1>2, <1>3, <1>7, SumAdd
<1> QED
  BY <1>4, <1>6, <1>8, <1>9

\* A sequence without its first element.
LEMMA OverTail ==
  ASSUME NEW A, NEW f \in [A -> Int], NEW s \in Seq(A), s # <<>>
  PROVE  Over(f, s) = f[Head(s)] + Over(f, Tail(s))
<1> DEFINE n == Len(s)
           t == Tail(s)
           I == 1..n
           J == 1..(n - 1)
           F == [i \in I |-> f[s[i]]]
           G == [i \in J |-> f[t[i]]]
           b == [i \in J |-> i + 1]
<1>1. Len(t) = n - 1 /\ n \in Nat \ {0} /\ \A i \in J : t[i] = s[i + 1]
  OBVIOUS
<1>2. IsFiniteSet(I) /\ IsFiniteSet(J) /\ 1 \in I
  BY <1>1, FS_Interval, SMTT(20)
<1>3. \A i \in I : F[i] \in Int
  OBVIOUS
<1>4. I \ {1} = Onto(b, J)
  <2>1. \A i \in J : b[i] = i + 1 /\ b[i] \in I \ {1}
    BY <1>1
  <2>2. \A j \in I \ {1} : j - 1 \in J /\ b[j - 1] = j
    BY <1>1
  <2> HIDE DEF I, J, b
  <2> QED
    BY <2>1, <2>2 DEF Onto
<1>5. \A i \in J : G[i] \in Int /\ G[i] = F[b[i]]
  BY <1>1
<1>6. \A i, j \in J : b[i] = b[j] => i = j
  OBVIOUS
<1>7. F[1] = f[Head(s)]
  BY <1>1
<1>8. Over(f, s) = SumOf(F, I) /\ Over(f, t) = SumOf(G, J)
  BY <1>1 DEF Over
<1> HIDE DEF F, G, I, J, b
<1>9. SumOf(F, I) = F[1] + SumOf(F, I \ {1})
  BY <1>2, <1>3, SumRemove
<1>10. SumOf(G, J) = SumOf(F, Onto(b, J))
  BY <1>2, <1>5, <1>6, SumOnto
<1> QED
  BY <1>4, <1>7, <1>8, <1>9, <1>10

\* A count is the sum of ones.
LEMMA CountIsSum ==
  ASSUME NEW S, IsFiniteSet(S), NEW f, NEW T \in SUBSET S,
         \A x \in S : f[x] = IF x \in T THEN 1 ELSE 0
  PROVE  SumOf(f, S) = Cardinality(T)
<1> DEFINE P == {t \in SUBSET S : SumOf(f, t) = Cardinality(T \cap t)}
<1>1. {} \in P
  <2>1. T \cap {} = {}
    OBVIOUS
  <2> QED
    BY <2>1, SumEmpty, FS_EmptySet
<1>2. ASSUME NEW t \in SUBSET S, t # {}, \A x \in t : t \ {x} \in P
      PROVE  t \in P
  <2>1. PICK x \in t : TRUE
    BY <1>2
  <2>2. SumOf(f, t) = f[x] + SumOf(f, t \ {x})
    BY FS_Subset, SumRemove
  <2>3. SumOf(f, t \ {x}) = Cardinality(T \cap (t \ {x}))
    BY <1>2, <2>1
  <2>4. IsFiniteSet(T \cap t) /\ T \cap (t \ {x}) = (T \cap t) \ {x}
    BY FS_Subset
  <2>5. Cardinality((T \cap t) \ {x})
          = IF x \in T THEN Cardinality(T \cap t) - 1 ELSE Cardinality(T \cap t)
    BY <2>1, <2>4, FS_RemoveElement
  <2>6. Cardinality(T \cap t) \in Nat
    BY <2>4, FS_CardinalityType
  <2>7. f[x] = IF x \in T THEN 1 ELSE 0
    OBVIOUS
  <2>8. SumOf(f, t \ {x}) = Cardinality((T \cap t) \ {x})
    BY ONLY <2>3, <2>4
  <2>9. SumOf(f, t) = Cardinality(T \cap t)
    BY ONLY <2>2, <2>5, <2>6, <2>7, <2>8
  <2> QED
    BY <2>9
<1>3. P = SUBSET S
  <2> HIDE DEF P
  <2>1. P \in SUBSET (SUBSET S)
    BY DEF P
  <2>2. IsFiniteSet(S)
    OBVIOUS
  <2> QED
    BY ONLY <1>1, <1>2, <2>1, <2>2, SubsetInduction
<1>4. T \cap S = T
  OBVIOUS
<1> QED
  BY <1>3, <1>4

\* The occurrences of an outcome are such a sum.
LEMMA OccurrencesOver ==
  ASSUME NEW s \in Seq(Attributable), NEW o \in Attributable
  PROVE  Occurrences(s, o)
           = Over([a \in Attributable |-> IF a = o THEN 1 ELSE 0], s)
<1> DEFINE S == 1..Len(s)
           f == [i \in S |-> [a \in Attributable |-> IF a = o THEN 1 ELSE 0][s[i]]]
           T == {i \in S : s[i] = o}
<1>1. IsFiniteSet(S) /\ DOMAIN s = S
  BY FS_Interval
<1>2. \A i \in S : f[i] = IF i \in T THEN 1 ELSE 0
  OBVIOUS
<1>3. T \in SUBSET S
  OBVIOUS
<1>4. SumOf(f, S) = Cardinality(T)
  <2> HIDE DEF f, S, T
  <2> QED
    BY <1>1, <1>2, <1>3, CountIsSum
<1> QED
  BY <1>1, <1>4 DEF Over, Occurrences

\* So is the penalty of a window.
LEMMA PenaltyOver ==
  ASSUME NEW s \in Seq(Attributable)
  PROVE  Penalty(s) = Over(Weight, s)
<1> DEFINE S == DOMAIN s
           f == [i \in S |-> Weight[s[i]]]
<1>1. \A t \in SUBSET S : t # {} => LET x == CHOOSE y \in t : TRUE
                                    IN  f[x] = Weight[s[x]]
  OBVIOUS
<1>2. ASSUME NEW g
      PROVE  [t \in SUBSET S |-> IF t = {} THEN 0
                ELSE LET x == CHOOSE y \in t : TRUE
                     IN  Weight[s[x]] + g[t \ {x}]]
             = [t \in SUBSET S |-> StepOf(FALSE, f, t, g)]
  BY <1>1 DEF StepOf
<1>3. Penalty(s) = Iteration(FALSE, f, S)[S]
  BY <1>2 DEF Penalty, FoldSeq, FoldFunction, FoldFunctionOnSet,
     MapThenFoldSet, Iteration, Recursion
<1>4. Penalty(s) = SumOf(f, S)
  BY <1>3, SumUnfold
<1>5. DOMAIN s = 1..Len(s)
  OBVIOUS
<1> QED
  BY <1>4, <1>5 DEF Over

\* Sequences with the same elements are the same.
LEMMA SameSequence ==
  ASSUME NEW S, NEW s \in Seq(S), NEW t \in Seq(S), Len(s) = Len(t),
         \A i \in 1..Len(s) : s[i] = t[i]
  PROVE  s = t
OBVIOUS

\* A fresh window is that of no outcomes.
LEMMA FreshWindow ==
  NewWindow = WindowOf(<<>>)
<1> DEFINE s == <<>>
<1>1. s \in Seq(Attributable) /\ 1..Len(s) = {} /\ DOMAIN s = {}
  OBVIOUS
<1>2. Penalty(s) = 0
  BY <1>1, PenaltyOver, SumEmpty DEF Over
<1>3. \A o \in Attributable : Occurrences(s, o) = 0
  BY <1>1, FS_EmptySet DEF Occurrences
<1> QED
  BY <1>2, <1>3 DEF NewWindow, WindowOf

\* The counts and the penalty after one outcome more, or the oldest less.
LEMMA Counts ==
  ASSUME NEW s \in Seq(Attributable)
  PROVE  /\ Penalty(s) \in Int /\ \A a \in Attributable : Occurrences(s, a) \in Int
         /\ \A o \in Attributable :
              /\ Penalty(Append(s, o)) = Penalty(s) + Weight[o]
              /\ \A a \in Attributable :
                   Occurrences(Append(s, o), a)
                     = IF a = o THEN Occurrences(s, a) + 1 ELSE Occurrences(s, a)
         /\ s # <<>> =>
              /\ Penalty(Tail(s)) = Penalty(s) - Weight[Head(s)]
              /\ \A a \in Attributable :
                   Occurrences(Tail(s), a)
                     = IF a = Head(s) THEN Occurrences(s, a) - 1 ELSE Occurrences(s, a)
<1> DEFINE Is(a) == [b \in Attributable |-> IF b = a THEN 1 ELSE 0]
<1>1. Weight \in [Attributable -> Int]
  BY WeightAssumption
<1>2. \A a \in Attributable : Is(a) \in [Attributable -> Int]
  OBVIOUS
<1>3. /\ \A o \in Attributable : Append(s, o) \in Seq(Attributable)
      /\ s # <<>> => Tail(s) \in Seq(Attributable) /\ Head(s) \in Attributable
  OBVIOUS
<1>4. \A t \in Seq(Attributable) :
        Penalty(t) = Over(Weight, t) /\ Over(Weight, t) \in Int
  BY <1>1, PenaltyOver, OverType
<1>5. \A t \in Seq(Attributable) : \A a \in Attributable :
        Occurrences(t, a) = Over(Is(a), t) /\ Over(Is(a), t) \in Int
  BY <1>2, OccurrencesOver, OverType
<1>6. \A a, o \in Attributable : Is(a)[o] = IF a = o THEN 1 ELSE 0
  OBVIOUS
<1> HIDE DEF Is
<1>7. ASSUME NEW o \in Attributable
      PROVE  /\ Penalty(Append(s, o)) = Penalty(s) + Weight[o]
             /\ \A a \in Attributable :
                  Occurrences(Append(s, o), a)
                     = IF a = o THEN Occurrences(s, a) + 1 ELSE Occurrences(s, a)
  <2>1. Over(Weight, Append(s, o)) = Over(Weight, s) + Weight[o]
    BY <1>1, OverAppend
  <2>2. \A a \in Attributable : Over(Is(a), Append(s, o)) = Over(Is(a), s) + Is(a)[o]
    BY <1>2, OverAppend
  <2> DEFINE t == Append(s, o)
  <2>3. t \in Seq(Attributable) /\ Weight[o] \in Int
    BY <1>1, <1>3
  <2>4. /\ Penalty(s) = Over(Weight, s) /\ Over(Weight, s) \in Int
        /\ Penalty(t) = Over(Weight, t)
    BY <1>4, <2>3
  <2>5. ASSUME NEW a \in Attributable
        PROVE  Occurrences(t, a) = IF a = o THEN Occurrences(s, a) + 1 ELSE Occurrences(s, a)
    <3>1. /\ Occurrences(s, a) = Over(Is(a), s) /\ Over(Is(a), s) \in Int
          /\ Occurrences(t, a) = Over(Is(a), t)
      BY <1>5, <2>3
    <3>2. Is(a)[o] = IF a = o THEN 1 ELSE 0
      BY <1>6
    <3>3. Over(Is(a), t) = Over(Is(a), s) + Is(a)[o]
      BY <2>2
    <3> HIDE DEF t
    <3> QED
      BY ONLY <3>1, <3>2, <3>3
  <2>6. Penalty(t) = Penalty(s) + Weight[o]
    BY <2>1, <2>4
  <2> HIDE DEF t
  <2> QED
    BY <2>5, <2>6 DEF t
<1>8. ASSUME s # <<>>
      PROVE  /\ Penalty(Tail(s)) = Penalty(s) - Weight[Head(s)]
             /\ \A a \in Attributable :
                  Occurrences(Tail(s), a)
                     = IF a = Head(s) THEN Occurrences(s, a) - 1 ELSE Occurrences(s, a)
  <2>1. Over(Weight, s) = Weight[Head(s)] + Over(Weight, Tail(s))
    BY <1>1, <1>8, OverTail
  <2>2. \A a \in Attributable : Over(Is(a), s) = Is(a)[Head(s)] + Over(Is(a), Tail(s))
    BY <1>2, <1>8, OverTail
  <2>3. Tail(s) \in Seq(Attributable) /\ Head(s) \in Attributable
        /\ Weight[Head(s)] \in Int
    BY <1>1, <1>3, <1>8
  <2> DEFINE t == Tail(s)
             z == Head(s)
  <2>4. /\ Penalty(s) = Over(Weight, s) /\ Over(Weight, s) \in Int
        /\ Penalty(t) = Over(Weight, t) /\ Over(Weight, t) \in Int
    BY <1>4, <2>3
  <2>5. ASSUME NEW a \in Attributable
        PROVE  Occurrences(t, a) = IF a = z THEN Occurrences(s, a) - 1 ELSE Occurrences(s, a)
    <3>1. /\ Occurrences(s, a) = Over(Is(a), s) /\ Over(Is(a), s) \in Int
          /\ Occurrences(t, a) = Over(Is(a), t) /\ Over(Is(a), t) \in Int
      BY <1>5, <2>3
    <3>2. Is(a)[z] = IF a = z THEN 1 ELSE 0
      BY <1>6, <2>3
    <3>3. Over(Is(a), s) = Is(a)[z] + Over(Is(a), t)
      BY <2>2
    <3> HIDE DEF t, z
    <3> QED
      BY ONLY <3>1, <3>2, <3>3
  <2> HIDE DEF t, z
  <2>6. Penalty(t) = Penalty(s) - Weight[z]
    BY ONLY <2>1, <2>3, <2>4 DEF t, z
  <2> QED
    BY <2>5, <2>6 DEF t, z
<1> QED
  BY <1>4, <1>5, <1>7, <1>8

\* Making room gives up the oldest outcome, of the sequence and the totals.
LEMMA RoomedWindow ==
  ASSUME NEW s \in Seq(Attributable), s # <<>>, Len(s) = group.capacity
  PROVE  Room(WindowOf(s)) = WindowOf(Tail(s))
<1> DEFINE z == Head(s)
           t == Tail(s)
           w == WindowOf(s)
           f == [a \in Attributable |-> Occurrences(s, a)]
           g == [a \in Attributable |-> Occurrences(t, a)]
<1>1. z \in Attributable /\ t \in Seq(Attributable)
  OBVIOUS
<1>2. w = [outcomes |-> s, totals |-> f, penalty_units |-> Penalty(s)]
  BY DEF WindowOf
<1>3. [f EXCEPT ![z] = @ - 1] = g
  <2>1. \A a \in Attributable :
          /\ Occurrences(s, a) \in Int
          /\ Occurrences(t, a) = IF a = z THEN Occurrences(s, a) - 1 ELSE Occurrences(s, a)
    BY Counts
  <2> HIDE DEF z, t
  <2> QED
    BY <1>1, <2>1
<1>4. Penalty(t) = Penalty(s) - Weight[z]
  BY Counts
<1> HIDE DEF f, g
<1>5. RemoveFromTotals(w, z)
        = [outcomes |-> s, totals |-> g, penalty_units |-> Penalty(t)]
  BY <1>2, <1>3, <1>4 DEF RemoveFromTotals
<1> DEFINE v == RemoveFromTotals(w, z)
<1>6. w.outcomes = s /\ v.outcomes = s
  BY <1>2, <1>5
<1>7. Room(w) = [v EXCEPT !.outcomes = Tail(v.outcomes)]
  BY <1>6 DEF Room
<1>8. Room(w) = [v EXCEPT !.outcomes = t]
  BY <1>6, <1>7
<1>9. Room(w) = [outcomes |-> t, totals |-> g, penalty_units |-> Penalty(t)]
  <2> HIDE DEF w, t, z
  <2> QED
    BY ONLY <1>5, <1>8
<1> QED
  BY <1>9 DEF WindowOf, g

\* What an outcome does to a window that has room, or loses its oldest.
LEMMA AppendedWindow ==
  ASSUME NEW s \in Seq(Attributable), NEW o \in Attributable
  PROVE  [AddToTotals(WindowOf(s), o) EXCEPT !.outcomes = Append(@, o)]
           = WindowOf(Append(s, o))
<1> DEFINE t == Append(s, o)
           w == WindowOf(s)
           f == [a \in Attributable |-> Occurrences(s, a)]
           g == [a \in Attributable |-> Occurrences(t, a)]
<1>1. w = [outcomes |-> s, totals |-> f, penalty_units |-> Penalty(s)]
  BY DEF WindowOf
<1>2. [f EXCEPT ![o] = @ + 1] = g
  <2>1. \A a \in Attributable :
          /\ Occurrences(s, a) \in Int
          /\ Occurrences(t, a) = IF a = o THEN Occurrences(s, a) + 1 ELSE Occurrences(s, a)
    BY Counts
  <2> HIDE DEF t
  <2> QED
    BY <2>1
<1>3. Penalty(t) = Penalty(s) + Weight[o]
  BY Counts
<1> HIDE DEF f, g
<1>4. AddToTotals(w, o)
        = [outcomes |-> s, totals |-> g, penalty_units |-> Penalty(t)]
  BY <1>1, <1>2, <1>3 DEF AddToTotals
<1> DEFINE v == AddToTotals(w, o)
<1>5. v.outcomes = s
  BY <1>4
<1>6. [v EXCEPT !.outcomes = Append(v.outcomes, o)]
        = [outcomes |-> t, totals |-> g, penalty_units |-> Penalty(t)]
  <2>1. [v EXCEPT !.outcomes = Append(v.outcomes, o)] = [v EXCEPT !.outcomes = t]
    BY <1>5
  <2> HIDE DEF w, t
  <2> QED
    BY ONLY <1>4, <2>1
<1> QED
  BY <1>6 DEF WindowOf, g

\* A window is recorded into as the last outcomes are.
LEMMA RecordedWindow ==
  ASSUME NEW s \in Seq(Attributable), NEW o \in Attributable,
         group \in Windows, Len(s) <= group.capacity
  PROVE  LET all == Append(s, o)
             t == SubSeq(all, Max({1, Len(all) + 1 - group.capacity}), Len(all))
         IN  /\ t \in Seq(Attributable) /\ Len(t) <= group.capacity
             /\ Recorded(WindowOf(s), o) = WindowOf(t)
<1> DEFINE all == Append(s, o)
           c == group.capacity
           first == Max({1, Len(all) + 1 - c})
           t == SubSeq(all, first, Len(all))
<1>1. c \in Nat \ {0} /\ Len(s) \in Nat /\ Len(all) = Len(s) + 1
  BY WindowsAssumption DEF ValidWindowConfig
<1>2. WindowOf(s).outcomes = s
  BY DEF WindowOf
<1>3. first = IF 1 >= Len(all) + 1 - c THEN 1 ELSE Len(all) + 1 - c
  BY <1>1, MaxOfTwo
<1>4. CASE Len(s) = c
  <2>1. first = 2
    BY <1>1, <1>3, <1>4
  <2>2. s # <<>> /\ Tail(s) \in Seq(Attributable) /\ Len(Tail(s)) = c - 1
    BY <1>1, <1>4
  <2>3. t = Append(Tail(s), o)
    <3>1. t = SubSeq(all, 2, c + 1)
      BY <1>1, <1>4, <2>1
    <3>2. SubSeq(all, 2, c + 1) \in Seq(Attributable) /\ Len(SubSeq(all, 2, c + 1)) = c
      BY <1>1, <1>4
    <3>3. Append(Tail(s), o) \in Seq(Attributable) /\ Len(Append(Tail(s), o)) = c
      BY <1>1, <2>2
    <3>4. \A i \in 1..c : SubSeq(all, 2, c + 1)[i] = Append(Tail(s), o)[i]
      BY <1>1, <1>4, <2>2
    <3> DEFINE u == SubSeq(all, 2, c + 1)
               v == Append(Tail(s), o)
    <3> HIDE DEF u, v, all, t
    <3>5. u = v
      BY <3>2, <3>3, <3>4, SameSequence DEF u, v
    <3> QED
      BY <3>1, <3>5 DEF u, v
  <2>4. Room(WindowOf(s)) = WindowOf(Tail(s))
    BY <1>4, <2>2, RoomedWindow
  <2>5. Recorded(WindowOf(s), o) = WindowOf(Append(Tail(s), o))
    BY <2>2, <2>4, AppendedWindow DEF Recorded
  <2>6. t \in Seq(Attributable) /\ Len(t) <= c
    <3> HIDE DEF t, c
    <3> QED
      BY <1>1, <2>2, <2>3
  <2>7. Recorded(WindowOf(s), o) = WindowOf(t)
    BY <2>3, <2>5
  <2> QED
    BY <2>6, <2>7
<1>5. CASE Len(s) < c
  <2>1. first = 1
    BY <1>1, <1>3, <1>5
  <2>2. t = all /\ all \in Seq(Attributable)
    <3>1. all \in Seq(Attributable)
      OBVIOUS
    <3>2. t = SubSeq(all, 1, Len(all))
      BY <2>1
    <3> HIDE DEF all
    <3>3. SubSeq(all, 1, Len(all)) = all
      BY <3>1, SameSequence
    <3> QED
      BY <3>1, <3>2, <3>3
  <2>3. Room(WindowOf(s)) = WindowOf(s)
    BY <1>2, <1>5 DEF Room
  <2>4. Recorded(WindowOf(s), o) = WindowOf(all)
    BY <2>3, AppendedWindow DEF Recorded
  <2>5. t \in Seq(Attributable) /\ Len(t) <= c
    <3> HIDE DEF t, c, all
    <3> QED
      BY <1>1, <1>5, <2>2
  <2>6. Recorded(WindowOf(s), o) = WindowOf(t)
    BY <2>2, <2>4
  <2> QED
    BY <2>5, <2>6
<1>6. Len(s) = c \/ Len(s) < c
  BY <1>1
<1> HIDE DEF t, c
<1> QED
  BY <1>4, <1>5, <1>6 DEF t, c

\* New windows are exact.
LEMMA WindowsInitInvariant ==
  ASSUME WindowsInit
  PROVE  WindowsIInv
BY FreshWindow, WindowsAssumption DEF WindowsInit, WindowsIInv, ValidWindowConfig

\* record() keeps the windows exact.
LEMMA RecordOutcomeInvariant ==
  ASSUME WindowsIInv, NEW h \in DOMAIN windows, NEW o, RecordOutcome(h, o)
  PROVE  WindowsIInv'
<1>1. CASE o \notin Attributable
  <2>1. windows' = windows /\ lately' = lately /\ group' = group
    BY <1>1 DEF RecordOutcome
  <2> QED
    BY <2>1 DEF WindowsIInv
<1>2. CASE o \in Attributable
  <2> DEFINE H == 1..group.hosts
             s == lately[h]
             all == Append(s, o)
             t == SubSeq(all, Max({1, Len(all) + 1 - group.capacity}), Len(all))
  <2>1. h \in H /\ s \in Seq(Attributable) /\ Len(s) <= group.capacity /\ group \in Windows
        /\ windows[h] = WindowOf(s)
    BY DEF WindowsIInv
  <2>2. t \in Seq(Attributable) /\ Len(t) <= group.capacity
        /\ Recorded(WindowOf(s), o) = WindowOf(t)
    BY <1>2, <2>1, RecordedWindow
  <2>3. lately' = [lately EXCEPT ![h] = t] /\ group' = group
        /\ windows' = [windows EXCEPT ![h] = WindowOf(t)]
    BY <1>2, <2>1, <2>2 DEF RecordOutcome
  <2> HIDE DEF t
  <2>4. lately' \in [H -> Seq(Attributable)] /\ \A g \in H : Len(lately'[g]) <= group.capacity
    BY <2>1, <2>2, <2>3 DEF WindowsIInv
  <2>5. windows' = [g \in H |-> WindowOf(lately'[g])]
    BY <2>1, <2>3 DEF WindowsIInv
  <2> QED
    BY <2>1, <2>3, <2>4, <2>5 DEF WindowsIInv
<1> QED
  BY <1>1, <1>2

\* clear() keeps the windows exact.
LEMMA ClearInvariant ==
  ASSUME WindowsIInv, NEW h \in DOMAIN windows, Clear(h)
  PROVE  WindowsIInv'
<1> DEFINE H == 1..group.hosts
<1>1. h \in H /\ group \in Windows /\ group.capacity \in Nat
  BY WindowsAssumption DEF WindowsIInv, ValidWindowConfig
<1>2. lately' = [lately EXCEPT ![h] = <<>>] /\ group' = group
      /\ windows' = [windows EXCEPT ![h] = WindowOf(<<>>)]
  BY FreshWindow DEF Clear
<1>3. lately' \in [H -> Seq(Attributable)] /\ \A g \in H : Len(lately'[g]) <= group.capacity
  BY <1>1, <1>2 DEF WindowsIInv
<1>4. windows' = [g \in H |-> WindowOf(lately'[g])]
  BY <1>1, <1>2 DEF WindowsIInv
<1> QED
  BY <1>1, <1>2, <1>3, <1>4 DEF WindowsIInv

\* The invariant of the windows says that they are exact.
LEMMA WindowsAreExact ==
  ASSUME WindowsIInv
  PROVE  WindowIsExact
<1> SUFFICES ASSUME NEW h \in DOMAIN windows
             PROVE  LET stats == Stats(windows[h])
                        s == lately[h]
                    IN  /\ stats.successes = Occurrences(s, "success")
                        /\ stats.failures = Occurrences(s, "failure")
                        /\ stats.overloaded = Occurrences(s, "overloaded")
                        /\ stats.penalty =
                             IF Len(s) < group.minimum_samples \/ s = <<>> THEN <<0, 1>>
                             ELSE <<Penalty(s), Len(s)>>
  BY DEF WindowIsExact
<1> DEFINE s == lately[h]
<1>1. windows[h] = WindowOf(s) /\ s \in Seq(Attributable)
  BY DEF WindowsIInv
<1>2. Len(s) = 0 <=> s = <<>>
  BY <1>1
<1>3. {"success", "failure", "overloaded"} = Attributable
  BY DEF Attributable
<1> HIDE DEF s
<1> QED
  BY <1>1, <1>2, <1>3 DEF Stats, WindowOf, s

\* Division without remainder.
LEMMA Multiple ==
  ASSUME NEW k \in Nat, NEW m \in Nat \ {0}
  PROVE  (k * m) % m = 0 /\ (k * m) \div m = k
OBVIOUS

\* A quotient, by its remainder.
LEMMA Divided ==
  ASSUME NEW d \in Nat, NEW m \in Nat \ {0}, d % m = 0
  PROVE  \E q \in Nat : d = q * m
<1>1. d = (d \div m) * m /\ d \div m \in Nat
  OBVIOUS
<1> QED
  BY <1>1

\* The order of the evaluation, and the last of some in this order.
Precedes(r, i, j) == \/ r[i] < r[j]
                     \/ r[i] = r[j] /\ i < j

\* A finite set that an order ranks has a last element.
LEMMA LastInOrder ==
  ASSUME NEW S \in SUBSET Int, IsFiniteSet(S), S # {}, NEW r, \A i \in S : r[i] \in Int
  PROVE  \E m \in S : \A j \in S \ {m} : Precedes(r, j, m)
<1> DEFINE P == {t \in SUBSET S : t # {} => \E m \in t : \A j \in t \ {m} : Precedes(r, j, m)}
<1>1. {} \in P
  OBVIOUS
<1>2. ASSUME NEW t \in SUBSET S, t # {}, \A x \in t : t \ {x} \in P
      PROVE  t \in P
  <2>1. PICK x \in t : TRUE
    BY <1>2
  <2>2. CASE t \ {x} = {}
    BY <2>1, <2>2
  <2>3. CASE t \ {x} # {}
    <3>1. PICK m \in t \ {x} : \A j \in (t \ {x}) \ {m} : Precedes(r, j, m)
      BY <1>2, <2>1, <2>3
    <3>2. Precedes(r, x, m) \/ Precedes(r, m, x)
      <4>1. x \in Int /\ m \in Int /\ r[x] \in Int /\ r[m] \in Int /\ x # m
        BY <2>1, <3>1
      <4> QED
        BY ONLY <4>1 DEF Precedes
    <3>3. CASE Precedes(r, x, m)
      BY <3>1, <3>3
    <3>4. CASE Precedes(r, m, x)
      <4>1. \A j \in t \ {x} : Precedes(r, j, x)
        BY <3>1, <3>4 DEF Precedes
      <4> QED
        BY <4>1
    <3> QED
      BY <3>2, <3>3, <3>4
  <2> QED
    BY <2>2, <2>3
<1>3. P = SUBSET S
  <2> HIDE DEF P
  <2>1. P \in SUBSET (SUBSET S)
    BY DEF P
  <2>2. IsFiniteSet(S)
    OBVIOUS
  <2> QED
    BY ONLY <1>1, <1>2, <2>1, <2>2, SubsetInduction
<1> QED
  BY <1>3

\* There are no more than k of those that fewer than k others precede.
LEMMA FewPrecede ==
  ASSUME NEW O \in SUBSET Int, IsFiniteSet(O), NEW r, \A i \in O : r[i] \in Int,
         NEW k \in Int, NEW E \in SUBSET O, E # {},
         \A i \in E : Cardinality({j \in O : Precedes(r, j, i)}) < k
  PROVE  Cardinality(E) <= k
<1>1. IsFiniteSet(E) /\ Cardinality(E) \in Nat
  BY FS_Subset, FS_CardinalityType
<1>2. PICK m \in E : \A j \in E \ {m} : Precedes(r, j, m)
  BY <1>1, LastInOrder
<1> DEFINE A == {j \in O : Precedes(r, j, m)}
<1>3. A \subseteq O /\ E \ {m} \subseteq A
  BY <1>2
<1>4. IsFiniteSet(A) /\ Cardinality(A) \in Nat
  BY <1>3, FS_Subset, FS_CardinalityType
<1>5. Cardinality(E \ {m}) <= Cardinality(A)
  BY <1>3, <1>4, FS_Subset
<1>6. Cardinality(E \ {m}) = Cardinality(E) - 1
  BY <1>1, FS_RemoveElement
<1>7. Cardinality(A) < k
  OBVIOUS
<1> QED
  BY <1>1, <1>4, <1>5, <1>6, <1>7

\* Statistics of n hosts.
IsGroup(hosts, n) ==
  /\ n \in Nat /\ DOMAIN hosts = 1..n /\ Len(hosts) = n
  /\ \A h \in 1..n : /\ hosts[h].successes \in Nat
                     /\ hosts[h].failures \in Nat
                     /\ hosts[h].overloaded \in Nat

\* The hosts an evaluation considers are finitely many, with samples to judge.
LEMMA ConsideredHosts ==
  ASSUME NEW hosts, NEW n, IsGroup(hosts, n), NEW config, ValidOutlierConfig(config)
  PROVE  LET C == Considered(hosts, config) IN
         /\ IsFiniteSet(C) /\ C \subseteq 1..n /\ Cardinality(C) \in Nat
         /\ \A i \in C : Samples(hosts[i]) \in Nat \ {0} /\ hosts[i].successes \in Nat
         /\ C = {h \in DOMAIN hosts : Samples(hosts[h]) >= config.minimum_samples}
<1>1. \A i \in 1..n : Samples(hosts[i]) \in Nat
  BY DEF IsGroup, Samples
<1>2. IsFiniteSet(1..n) /\ DOMAIN hosts = 1..n
  BY FS_Interval DEF IsGroup
<1> DEFINE C == Considered(hosts, config)
<1>3. C \subseteq 1..n
  BY <1>2 DEF Considered
<1>4. IsFiniteSet(C) /\ Cardinality(C) \in Nat
  BY <1>2, <1>3, FS_Subset, FS_CardinalityType
<1>5. \A i \in C : Samples(hosts[i]) \in Nat \ {0} /\ hosts[i].successes \in Nat
  BY <1>1, <1>3 DEF Considered, IsGroup
<1>6. C = {h \in DOMAIN hosts : Samples(hosts[h]) >= config.minimum_samples}
  BY <1>1, <1>2 DEF Considered, ValidOutlierConfig
<1> QED
  BY <1>3, <1>4, <1>5, <1>6

\* The common denominator of the rates is a product over the hosts.
LEMMA ProductSetOf ==
  ASSUME NEW S
  PROVE  ProductSet(S) = Product([x \in S |-> x], S)
<1> DEFINE f == [x \in S |-> x]
<1>1. \A t \in SUBSET S : t # {} => LET x == CHOOSE y \in t : TRUE IN f[x] = x
  OBVIOUS
<1>2. ASSUME NEW g
      PROVE  [t \in SUBSET S |-> IF t = {} THEN 1
                ELSE LET x == CHOOSE y \in t : TRUE IN x * g[t \ {x}]]
             = [t \in SUBSET S |-> StepOf(TRUE, f, t, g)]
  BY <1>1 DEF StepOf
<1>3. ProductSet(S) = Iteration(TRUE, f, S)[S]
  BY <1>2 DEF ProductSet, FoldSet, MapThenFoldSet, Iteration, Recursion
<1> QED
  BY <1>3, ProductUnfold

\* Every host's samples divide the common denominator.
LEMMA DenominatorDivides ==
  ASSUME NEW hosts, NEW n, IsGroup(hosts, n), NEW config, ValidOutlierConfig(config)
  PROVE  /\ Denominator(hosts, config) \in Nat \ {0}
         /\ \A i \in Considered(hosts, config) :
              Denominator(hosts, config) % Samples(hosts[i]) = 0
<1> DEFINE C == Considered(hosts, config)
           S == {Samples(hosts[i]) : i \in C}
           f == [x \in S |-> x]
           d == Product(f, S)
<1>1. IsFiniteSet(C) /\ \A i \in C : Samples(hosts[i]) \in Nat \ {0}
  BY ConsideredHosts
<1>2. IsFiniteSet(S)
  <2> DEFINE g == [i \in C |-> Samples(hosts[i])]
  <2>1. g \in Surjection(C, S)
    BY DEF Surjection
  <2> HIDE DEF g, S
  <2> QED
    BY <1>1, <2>1, FS_Surjection
<1>3. \A x \in S : f[x] \in Nat \ {0} /\ f[x] = x
  BY <1>1
<1>4. d \in Nat \ {0} /\ \A x \in S : \E k \in Nat : d = k * f[x]
  <2> HIDE DEF f, S
  <2> QED
    BY <1>2, <1>3, ProductDivisible
<1>5. ASSUME NEW i \in C PROVE d % Samples(hosts[i]) = 0
  <2> DEFINE m == Samples(hosts[i])
  <2>1. m \in S /\ m \in Nat \ {0}
    BY <1>1
  <2>2. PICK k \in Nat : d = k * m
    BY <1>3, <1>4, <2>1
  <2> HIDE DEF m, d
  <2> QED
    BY <2>1, <2>2, Multiple DEF m
<1>6. d \in 1..ProductSet(S)
  <2>1. d = ProductSet(S)
    BY ProductSetOf
  <2> HIDE DEF d
  <2> QED
    BY <1>4, <2>1
<1> HIDE DEF d
<1>7. Denominator(hosts, config) \in 1..ProductSet(S)
      /\ \A i \in C : Denominator(hosts, config) % Samples(hosts[i]) = 0
  BY <1>5, <1>6 DEF Denominator
<1>8. ProductSet(S) \in Nat
  BY <1>4, ProductSetOf DEF d
<1> QED
  BY <1>7, <1>8

\* Rates on a common denominator are ordered as the fractions are.
LEMMA RatesCompare ==
  ASSUME NEW a \in Nat, NEW m \in Nat \ {0}, NEW b \in Nat, NEW n \in Nat \ {0},
         NEW d \in Nat \ {0}, d % m = 0, d % n = 0
  PROVE  /\ (a * d) \div m \in Nat /\ (b * d) \div n \in Nat
         /\ a * n < b * m => (a * d) \div m < (b * d) \div n
<1>1. PICK p \in Nat : d = p * m
  BY Divided
<1>2. PICK q \in Nat : d = q * n
  BY Divided
<1> DEFINE u == a * p
           v == b * q
<1>3. u \in Nat /\ v \in Nat
  OBVIOUS
<1>4. a * d = u * m /\ b * d = v * n
  BY <1>1, <1>2
<1>5. (a * d) \div m = u /\ (b * d) \div n = v
  <2> HIDE DEF u, v
  <2> QED
    BY <1>3, <1>4, Multiple
<1>6. ASSUME a * n < b * m PROVE u < v
  <2> SUFFICES ASSUME v <= u PROVE FALSE
    BY <1>3
  <2>1. v * (m * n) <= u * (m * n)
    <3>1. m * n \in Nat
      OBVIOUS
    <3> HIDE DEF u, v
    <3>2. \A x, y, z \in Nat : y <= x => y * z <= x * z
      OBVIOUS
    <3> QED
      BY <1>3, <3>1, <3>2
  <2>2. v * (m * n) = (b * m) * d
    <3>1. v * (m * n) = (v * n) * m
      BY <1>3
    <3>2. (b * d) * m = (b * m) * d
      OBVIOUS
    <3> HIDE DEF v
    <3> QED
      BY <1>4, <3>1, <3>2
  <2>3. u * (m * n) = (a * n) * d
    <3>1. u * (m * n) = (u * m) * n
      BY <1>3
    <3>2. (a * d) * n = (a * n) * d
      OBVIOUS
    <3> HIDE DEF u
    <3> QED
      BY <1>4, <3>1, <3>2
  <2>4. (a * n) * d < (b * m) * d
    <3>1. a * n \in Nat /\ b * m \in Nat
      OBVIOUS
    <3>2. \A x, y \in Nat : x < y => x * d < y * d
      OBVIOUS
    <3> QED
      BY <1>6, <3>1, <3>2
  <2>5. (a * n) * d \in Int /\ (b * m) * d \in Int
    OBVIOUS
  <2> QED
    BY ONLY <2>1, <2>2, <2>3, <2>4, <2>5
<1> QED
  BY <1>3, <1>5, <1>6

\* The rates of the considered hosts, as a function.
Rates(hosts, config) == [i \in Considered(hosts, config) |-> Rate(hosts, config, i)]

\* Rates over the common denominator are ordered as the fractions are.
LEMMA RatesOrdered ==
  ASSUME NEW hosts, NEW n, IsGroup(hosts, n), NEW config, ValidOutlierConfig(config)
  PROVE  LET C == Considered(hosts, config)
             r == Rates(hosts, config)
         IN  /\ \A i \in C : r[i] = Rate(hosts, config, i) /\ r[i] \in Nat
             /\ \A g, h \in C :
                  hosts[g].successes * Samples(hosts[h])
                      < hosts[h].successes * Samples(hosts[g]) => r[g] < r[h]
<1> DEFINE C == Considered(hosts, config)
           r == Rates(hosts, config)
           d == Denominator(hosts, config)
<1>1. \A i \in C : Samples(hosts[i]) \in Nat \ {0} /\ hosts[i].successes \in Nat
  BY ConsideredHosts
<1>2. d \in Nat \ {0} /\ \A i \in C : d % Samples(hosts[i]) = 0
  BY DenominatorDivides
<1>3. \A i \in C : r[i] = (hosts[i].successes * d) \div Samples(hosts[i])
  BY DEF Rates, Rate
<1>4. \A i \in C : r[i] = Rate(hosts, config, i)
  BY DEF Rates
<1> HIDE DEF C, r, d
<1>5. ASSUME NEW g \in C, NEW h \in C
      PROVE  /\ r[g] \in Nat
             /\ hosts[g].successes * Samples(hosts[h])
                      < hosts[h].successes * Samples(hosts[g]) => r[g] < r[h]
  <2> DEFINE a == hosts[g].successes
             m == Samples(hosts[g])
             b == hosts[h].successes
             k == Samples(hosts[h])
  <2>1. a \in Nat /\ m \in Nat \ {0} /\ b \in Nat /\ k \in Nat \ {0}
        /\ d % m = 0 /\ d % k = 0 /\ d \in Nat \ {0}
    BY <1>1, <1>2
  <2>2. r[g] = (a * d) \div m /\ r[h] = (b * d) \div k
    BY <1>3
  <2> HIDE DEF a, m, b, k
  <2>3. r[g] \in Nat /\ (a * k < b * m => r[g] < r[h])
    <3>1. (a * d) \div m \in Nat /\ (a * k < b * m => (a * d) \div m < (b * d) \div k)
      BY ONLY <2>1, RatesCompare
    <3> QED
      BY ONLY <2>2, <3>1
  <2> QED
    BY <2>3 DEF a, m, b, k
<1>6. (\A i \in C : r[i] \in Nat) /\ \A g, h \in C :
        hosts[g].successes * Samples(hosts[h])
          < hosts[h].successes * Samples(hosts[g]) => r[g] < r[h]
  BY <1>5
<1> QED
  BY <1>4, <1>6 DEF C, r

\* The shortfall of a host in terms of the rates.
LEMMA ShortfallOf ==
  ASSUME NEW hosts, NEW n, IsGroup(hosts, n), NEW config, ValidOutlierConfig(config),
         NEW h \in Considered(hosts, config)
  PROVE  LET C == Considered(hosts, config)
             r == Rates(hosts, config)
         IN  /\ SumOf(r, C) \in Int
             /\ Shortfall(hosts, config, h) = SumOf(r, C) - Cardinality(C) * r[h]
<1> DEFINE C == Considered(hosts, config)
           r == Rates(hosts, config)
<1>2. ASSUME NEW g
      PROVE  [t \in SUBSET C |-> IF t = {} THEN 0
                ELSE LET x == CHOOSE y \in t : TRUE
                     IN  Rate(hosts, config, x) + g[t \ {x}]]
             = [t \in SUBSET C |-> StepOf(FALSE, r, t, g)]
  BY DEF StepOf, Rates
<1>3. MapThenSumSet(LAMBDA j : Rate(hosts, config, j), C) = Iteration(FALSE, r, C)[C]
  <2> HIDE DEF C, r
  <2> QED
    BY <1>2 DEF MapThenSumSet, MapThenFoldSet, Iteration, Recursion
<1>4. SumOf(r, C) \in Int
  <2>1. IsFiniteSet(C) /\ \A i \in C : r[i] \in Int
    BY ConsideredHosts, RatesOrdered
  <2> HIDE DEF C, r
  <2> QED
    BY <2>1, SumType
<1>5. r[h] = Rate(hosts, config, h)
  BY DEF Rates
<1> HIDE DEF r
<1> QED
  BY <1>3, <1>4, <1>5, SumUnfold DEF Shortfall, r

\* The sum of the squares, and what an outlier is in terms of it.
SquaresSum(hosts, config) ==
  MapThenSumSet(LAMBDA j : Shortfall(hosts, config, j) * Shortfall(hosts, config, j),
                Considered(hosts, config))

OutlierBy(hosts, config, up, left) ==
  LET right == (config.deviation_tenths * config.deviation_tenths)
                 * SquaresSum(hosts, config)
  IN  left > right \/ (up /\ left = right)

\* What an outlier is, in the terms of the rates.
LEMMA OutlierUnfold ==
  ASSUME NEW hosts, NEW config, NEW up, NEW i
  PROVE  IsOutlier(hosts, config, up, i) <=>
           /\ Shortfall(hosts, config, i) >= 0
           /\ OutlierBy(hosts, config, up,
                100 * Cardinality(Considered(hosts, config))
                  * (Shortfall(hosts, config, i) * Shortfall(hosts, config, i)))
BY DEF IsOutlier, OutlierBy, SquaresSum

\* A host with a lower rate than an outlier is an outlier.
LEMMA OutlierByMore ==
  ASSUME NEW hosts, NEW config, NEW up, NEW x \in Int, NEW y \in Int, x <= y,
         SquaresSum(hosts, config) \in Int, config.deviation_tenths \in Int,
         OutlierBy(hosts, config, up, x)
  PROVE  OutlierBy(hosts, config, up, y)
<1> DEFINE right == (config.deviation_tenths * config.deviation_tenths)
                      * SquaresSum(hosts, config)
<1>1. right \in Int
  OBVIOUS
<1>2. x > right \/ (up /\ x = right)
  BY DEF OutlierBy
<1> HIDE DEF right
<1>3. y > right \/ (up /\ y = right)
  BY <1>1, <1>2
<1> QED
  BY <1>3 DEF OutlierBy, right

\* The sum of the squares is a number.
LEMMA SquaresType ==
  ASSUME NEW hosts, NEW n, IsGroup(hosts, n), NEW config, ValidOutlierConfig(config)
  PROVE  SquaresSum(hosts, config) \in Int
<1> DEFINE C == Considered(hosts, config)
           q == [j \in C |-> Shortfall(hosts, config, j) * Shortfall(hosts, config, j)]
<1>2. ASSUME NEW g
      PROVE  [t \in SUBSET C |-> IF t = {} THEN 0
                ELSE LET x == CHOOSE y \in t : TRUE
                     IN  Shortfall(hosts, config, x) * Shortfall(hosts, config, x)
                           + g[t \ {x}]]
             = [t \in SUBSET C |-> StepOf(FALSE, q, t, g)]
  BY DEF StepOf
<1>3. SquaresSum(hosts, config) = Iteration(FALSE, q, C)[C]
  <2> HIDE DEF q
  <2> QED
    BY <1>2 DEF SquaresSum, MapThenSumSet, MapThenFoldSet, Iteration, Recursion
<1>4. IsFiniteSet(C) /\ \A j \in C : q[j] \in Int
  <2>1. IsFiniteSet(C) /\ Cardinality(C) \in Nat
    BY ConsideredHosts
  <2>2. ASSUME NEW j \in C PROVE q[j] \in Int
    <3>1. /\ SumOf(Rates(hosts, config), C) \in Int
          /\ Shortfall(hosts, config, j)
               = SumOf(Rates(hosts, config), C) - Cardinality(C) * Rates(hosts, config)[j]
      BY ShortfallOf
    <3>2. Rates(hosts, config)[j] \in Nat
      BY RatesOrdered
    <3>3. Shortfall(hosts, config, j) \in Int
      BY <2>1, <3>1, <3>2
    <3> QED
      BY <3>3
  <2> QED
    BY <2>1, <2>2
<1>5. SumOf(q, C) \in Int
  <2> HIDE DEF q, C
  <2> QED
    BY <1>4, SumType
<1> QED
  BY <1>3, <1>5, SumUnfold

\* Whoever has a lower rate than an outlier is one too.
LEMMA OutliersClosed ==
  ASSUME NEW hosts, NEW n, IsGroup(hosts, n), NEW config, ValidOutlierConfig(config),
         NEW up \in BOOLEAN,
         NEW g \in Considered(hosts, config), NEW h \in Considered(hosts, config),
         Rates(hosts, config)[g] < Rates(hosts, config)[h],
         IsOutlier(hosts, config, up, h)
  PROVE  IsOutlier(hosts, config, up, g)
<1> DEFINE C == Considered(hosts, config)
           r == Rates(hosts, config)
           c == Cardinality(C)
           s == Shortfall(hosts, config, g)
           t == Shortfall(hosts, config, h)
<1>1. c \in Nat /\ r[g] \in Nat /\ r[h] \in Nat
  BY ConsideredHosts, RatesOrdered
<1>2. s \in Int /\ t \in Int /\ t <= s
  <2>1. s = SumOf(r, C) - c * r[g] /\ t = SumOf(r, C) - c * r[h] /\ SumOf(r, C) \in Int
    BY ShortfallOf
  <2>2. c * r[g] <= c * r[h] /\ c * r[g] \in Int /\ c * r[h] \in Int
    <3> HIDE DEF c, r
    <3>1. \A x, y, z \in Nat : x < y => z * x <= z * y
      OBVIOUS
    <3>2. \A x, y \in Nat : x * y \in Int
      OBVIOUS
    <3>3. r[g] < r[h]
      BY DEF r
    <3> QED
      BY ONLY <1>1, <3>1, <3>2, <3>3
  <2> HIDE DEF s, t, c, r
  <2> QED
    BY ONLY <2>1, <2>2
<1>3. t >= 0 /\ OutlierBy(hosts, config, up, 100 * c * (t * t))
  BY OutlierUnfold
<1>4. 100 * c * (t * t) <= 100 * c * (s * s)
  <2> HIDE DEF c, s, t
  <2>1. t * t <= s * s /\ t * t \in Nat /\ s * s \in Nat
    <3>1. ASSUME NEW x \in Nat, NEW y \in Nat, x <= y PROVE x * x <= y * y
      <4>1. x * x <= x * y /\ x * y <= y * y
        BY <3>1
      <4> QED
        BY <4>1
    <3>2. t \in Nat /\ s \in Nat
      BY ONLY <1>2, <1>3
    <3>3. \A x \in Nat : x * x \in Nat
      OBVIOUS
    <3> QED
      BY ONLY <1>2, <3>1, <3>2, <3>3
  <2>2. \A x, y, z \in Nat : x <= y => z * x <= z * y
    OBVIOUS
  <2>3. 100 * c \in Nat
    BY <1>1
  <2> QED
    BY ONLY <2>1, <2>2, <2>3
<1>5. 100 * c * (t * t) \in Int /\ 100 * c * (s * s) \in Int
  <2> HIDE DEF c, s, t
  <2> QED
    BY <1>1, <1>2
<1>6. SquaresSum(hosts, config) \in Int /\ config.deviation_tenths \in Int
  BY SquaresType DEF ValidOutlierConfig
<1>7. s >= 0
  <2> HIDE DEF s, t
  <2> QED
    BY ONLY <1>2, <1>3
<1>8. OutlierBy(hosts, config, up, 100 * c * (s * s))
  <2> DEFINE x == 100 * c * (t * t)
             y == 100 * c * (s * s)
  <2> HIDE DEF x, y
  <2> QED
    BY <1>3, <1>4, <1>5, <1>6, OutlierByMore DEF x, y
<1> QED
  BY <1>7, <1>8, OutlierUnfold

\* An outlier that is not the only host considered has not the best rate.
LEMMA OutliersAreNotBest ==
  ASSUME NEW hosts, NEW n, IsGroup(hosts, n), NEW config, ValidOutlierConfig(config),
         NEW h \in Considered(hosts, config),
         Shortfall(hosts, config, h) >= 0,
         Considered(hosts, config) # {h}
  PROVE  \E g \in Considered(hosts, config) \ {h} :
           ~(Rates(hosts, config)[g] < Rates(hosts, config)[h])
<1> DEFINE C == Considered(hosts, config)
           r == Rates(hosts, config)
           c == Cardinality(C)
           D == C \ {h}
           x == r[h]
           f == [i \in D |-> x - 1]
<1> SUFFICES ASSUME \A g \in D : r[g] < x PROVE FALSE
  OBVIOUS
<1>1. IsFiniteSet(C) /\ c \in Nat /\ \A i \in C : r[i] \in Nat
  BY ConsideredHosts, RatesOrdered
<1>2. IsFiniteSet(D) /\ D # {} /\ x \in Nat
  BY <1>1, FS_Subset
<1>3. Cardinality(D) = c - 1 /\ Cardinality(D) \in Nat \ {0}
  BY <1>1, <1>2, FS_RemoveElement, FS_CardinalityType, FS_EmptySet
<1>4. SumOf(r, C) = x + SumOf(r, D)
  <2>1. \A i \in C : r[i] \in Int
    BY <1>1
  <2> HIDE DEF r
  <2> QED
    BY <1>1, <2>1, SumRemove
<1>5. \A g \in D : r[g] \in Int /\ f[g] = x - 1 /\ f[g] \in Int /\ r[g] <= f[g]
  BY <1>1, <1>2
<1>6. SumOf(r, D) \in Int /\ SumOf(r, D) <= SumOf(f, D)
  <2> HIDE DEF r, D, f
  <2> QED
    BY <1>2, <1>5, SumMonotone, SumType
<1>7. SumOf(f, D) = (x - 1) * Cardinality(D)
  <2>1. x - 1 \in Int
    BY <1>2
  <2> HIDE DEF f, D, x
  <2> QED
    BY <1>2, <1>5, <2>1, SumOfOnes
<1>8. SumOf(r, C) - c * x >= 0
  BY ShortfallOf
<1> HIDE DEF c, x, r, D, C, f
<1>9. (x - 1) * (c - 1) = c * x - x - c + 1
  BY <1>1, <1>2
<1>10. c * x \in Int
  BY <1>1, <1>2
<1> QED
  BY <1>1, <1>2, <1>3, <1>4, <1>6, <1>7, <1>8, <1>9, <1>10

\* What the cap allows.
LEMMA CapAllows ==
  ASSUME NEW hosts, NEW n, IsGroup(hosts, n), NEW config, ValidOutlierConfig(config)
  PROVE  /\ EjectionCap(hosts, config) \in Nat
         /\ 100 * EjectionCap(hosts, config) <= Len(hosts) * config.max_ejection_percent
         /\ EjectionCap(hosts, config) > 0 =>
              Len(hosts) - EjectionCap(hosts, config) >= config.minimum_healthy
<1> DEFINE l == Len(hosts)
           p == config.max_ejection_percent
           m == config.minimum_healthy
           q == l * p
           a == q \div 100
           b == Max({0, l - m})
           c == EjectionCap(hosts, config)
<1>1. l \in Nat /\ p \in Nat /\ m \in Nat
  <2>1. n \in Nat /\ l = n
    BY DEF IsGroup
  <2>2. p \in 0..100 /\ m \in Nat
    BY DEF ValidOutlierConfig
  <2> HIDE DEF l, p, m
  <2> QED
    BY <2>1, <2>2
<1>2. q \in Nat
  <2> HIDE DEF l, p
  <2> QED
    BY <1>1
<1>3. a \in Nat /\ 100 * a <= q
  <2> HIDE DEF q
  <2> QED
    BY <1>2
<1>4. b = IF 0 >= l - m THEN 0 ELSE l - m
  <2> HIDE DEF l, m
  <2> QED
    BY <1>1, MaxOfTwo
<1>5. b \in Nat /\ (b > 0 => l - b >= m)
  <2> HIDE DEF l, m, b
  <2> QED
    BY <1>1, <1>4
<1>6. c = IF a <= b THEN a ELSE b
  <2> HIDE DEF a, b
  <2>1. c = Min({a, b})
    BY DEF EjectionCap, a, b
  <2> QED
    BY <1>3, <1>5, <2>1, MinOfTwo
<1>7. c \in Nat /\ 100 * c <= q /\ (c > 0 => l - c >= m)
  <2> HIDE DEF a, b, c, q, l, m
  <2> QED
    BY <1>1, <1>2, <1>3, <1>5, <1>6
<1> QED
  BY <1>7

\* The ranks of the evaluation are those of the rates.
LEMMA RanksPrecede ==
  ASSUME NEW hosts, NEW config, NEW i \in Considered(hosts, config),
         NEW j \in Considered(hosts, config)
  PROVE  WorseThan(hosts, config, i, j) <=> Precedes(Rates(hosts, config), i, j)
BY DEF WorseThan, Precedes, Rates

\* What every evaluation of every group keeps to.
EjectionsKeepTo(hosts, config, ejected) ==
  LET C == {h \in DOMAIN hosts : Samples(hosts[h]) >= config.minimum_samples}
      Worse(g, h) == hosts[g].successes * Samples(hosts[h])
                       < hosts[h].successes * Samples(hosts[g])
  IN  /\ 100 * Cardinality(ejected) <= Len(hosts) * config.max_ejection_percent
      /\ ejected # {} =>
           /\ Len(hosts) - Cardinality(ejected) >= config.minimum_healthy
           /\ Cardinality(C) >= config.minimum_hosts
      /\ ejected \subseteq C
      /\ \A h \in ejected : \A g \in C : Worse(g, h) => g \in ejected
      /\ \A h \in ejected : C # {h} => \E g \in C \ {h} : ~Worse(g, h)

\* An evaluation that finds too few hosts ejects nobody.
LEMMA NobodyEjected ==
  ASSUME NEW hosts, NEW n, IsGroup(hosts, n), NEW config, ValidOutlierConfig(config)
  PROVE  EjectionsKeepTo(hosts, config, {})
<1> DEFINE l == Len(hosts)
           p == config.max_ejection_percent
<1>1. l \in Nat /\ p \in Nat
  <2>1. n \in Nat /\ l = n
    BY DEF IsGroup
  <2>2. p \in 0..100
    BY DEF ValidOutlierConfig
  <2> HIDE DEF l, p
  <2> QED
    BY <2>1, <2>2
<1>2. 100 * Cardinality({}) <= l * p
  <2>1. 0 <= l * p
    <3> HIDE DEF l, p
    <3> QED
      BY <1>1
  <2> QED
    BY <2>1, FS_EmptySet
<1> QED
  BY <1>2 DEF EjectionsKeepTo

\* Whatever the windows hold, an evaluation ejects within its limits.
LEMMA EvaluationKeepsTo ==
  ASSUME NEW hosts, NEW n, IsGroup(hosts, n), NEW config, ValidOutlierConfig(config),
         NEW up \in BOOLEAN
  PROVE  EjectionsKeepTo(hosts, config, Evaluate(hosts, config, up))
<1> DEFINE C == Considered(hosts, config)
           r == Rates(hosts, config)
           O == {i \in C : IsOutlier(hosts, config, up, i)}
           k == EjectionCap(hosts, config)
           Preceding(i) == {j \in O : Precedes(r, j, i)}
           E == {i \in O : Cardinality(Preceding(i)) < k}
<1>1. CASE Cardinality(C) < config.minimum_hosts
  BY <1>1, NobodyEjected DEF Evaluate
<1>2. CASE ~(Cardinality(C) < config.minimum_hosts)
  <2>1. Evaluate(hosts, config, up) = E
    <3>1. \A i \in O : {j \in O : WorseThan(hosts, config, j, i)} = Preceding(i)
      BY RanksPrecede
    <3> QED
      BY <1>2, <3>1 DEF Evaluate
  <2>2. /\ IsFiniteSet(C) /\ C \subseteq 1..n /\ Cardinality(C) \in Nat
        /\ C = {h \in DOMAIN hosts : Samples(hosts[h]) >= config.minimum_samples}
        /\ n \in Nat
    BY ConsideredHosts DEF IsGroup
  <2>3. /\ \A i \in C : r[i] \in Nat
        /\ \A g, h \in C : hosts[g].successes * Samples(hosts[h])
                     < hosts[h].successes * Samples(hosts[g]) => r[g] < r[h]
    BY RatesOrdered
  <2>4. IsFiniteSet(O) /\ O \in SUBSET Int /\ \A i \in O : r[i] \in Int
    BY <2>2, <2>3, FS_Subset
  <2>5. /\ k \in Nat /\ 100 * k <= Len(hosts) * config.max_ejection_percent
        /\ k > 0 => Len(hosts) - k >= config.minimum_healthy
    BY CapAllows
  <2>6. E # {} => Cardinality(E) <= k
    <3> SUFFICES ASSUME E # {} PROVE Cardinality(E) <= k
      OBVIOUS
    <3>1. E \in SUBSET O /\ k \in Int /\ \A i \in E : Cardinality({j \in O : Precedes(r, j, i)}) < k
      BY <2>5
    <3> HIDE DEF O, r, k, E
    <3> QED
      BY <2>4, <3>1, FewPrecede
  <2>7. IsFiniteSet(E) /\ Cardinality(E) \in Nat /\ (E = {} => Cardinality(E) = 0)
    <3>1. E \subseteq O
      OBVIOUS
    <3> HIDE DEF E, O
    <3> QED
      BY <2>4, <3>1, FS_Subset, FS_CardinalityType, FS_EmptySet
  <2>8. (E # {} => k > 0)
    <3>1. \A i \in O : Preceding(i) \subseteq O
      OBVIOUS
    <3>2. \A i \in O : Cardinality(Preceding(i)) \in Nat
      <4> HIDE DEF O, Preceding
      <4> QED
        BY <2>4, <3>1, FS_Subset, FS_CardinalityType
    <3> HIDE DEF Preceding, O
    <3> QED
      BY <2>5, <3>2
  <2>9. /\ 100 * Cardinality(E) <= Len(hosts) * config.max_ejection_percent
        /\ E # {} => Len(hosts) - Cardinality(E) >= config.minimum_healthy
    <3> DEFINE l == Len(hosts)
               m == config.minimum_healthy
               q == l * config.max_ejection_percent
               e == Cardinality(E)
    <3>1. l \in Nat /\ m \in Nat
      BY DEF IsGroup, ValidOutlierConfig
    <3>2. q \in Nat
      <4>1. config.max_ejection_percent \in Nat
        BY DEF ValidOutlierConfig
      <4> HIDE DEF l
      <4> QED
        BY <3>1, <4>1
    <3>3. e <= k
      <4> HIDE DEF E, k
      <4> QED
        BY <2>5, <2>6, <2>7
    <3>4. e \in Nat /\ k \in Nat /\ 100 * k <= q /\ (k > 0 => l - k >= m)
      BY <2>5, <2>7
    <3>5. E # {} => k > 0
      BY <2>8
    <3> HIDE DEF l, m, q, e, k, E
    <3>6. 100 * e <= q /\ (E # {} => l - e >= m)
      BY <3>1, <3>2, <3>3, <3>4, <3>5
    <3> QED
      BY <3>6 DEF l, m, q, e
  <2>10. Cardinality(C) >= config.minimum_hosts
    <3>1. config.minimum_hosts \in Nat
      BY DEF ValidOutlierConfig
    <3> HIDE DEF C
    <3> QED
      BY <1>2, <2>2, <3>1
  <2>11. ASSUME NEW h \in E, NEW g \in C,
                hosts[g].successes * Samples(hosts[h])
                  < hosts[h].successes * Samples(hosts[g])
         PROVE  g \in E
    <3>1. h \in C /\ r[g] < r[h]
      BY <2>3, <2>11
    <3>2. g \in O
      BY <3>1, OutliersClosed
    <3>3. Preceding(g) \subseteq Preceding(h)
      <4>1. \A j \in O : r[j] \in Int /\ r[g] \in Int /\ r[h] \in Int
        BY <2>3, <2>4, <3>1
      <4> HIDE DEF O, r
      <4> QED
        BY <3>1, <4>1 DEF Precedes
    <3>4. IsFiniteSet(Preceding(h))
      <4>1. Preceding(h) \subseteq O
        OBVIOUS
      <4> HIDE DEF Preceding, O
      <4> QED
        BY <2>4, <4>1, FS_Subset
    <3>5. /\ Cardinality(Preceding(g)) <= Cardinality(Preceding(h))
          /\ Cardinality(Preceding(g)) \in Nat /\ Cardinality(Preceding(h)) \in Nat
      <4> HIDE DEF Preceding
      <4> QED
        BY <3>3, <3>4, FS_Subset, FS_CardinalityType
    <3>6. Cardinality(Preceding(h)) < k
      OBVIOUS
    <3>7. Cardinality(Preceding(g)) < k
      <4> HIDE DEF Preceding, k
      <4> QED
        BY <2>5, <3>5, <3>6
    <3> HIDE DEF O, Preceding, k
    <3> QED
      BY <3>2, <3>7
  <2>12. ASSUME NEW h \in E, C # {h}
         PROVE  \E g \in C \ {h} : ~(hosts[g].successes * Samples(hosts[h])
                                       < hosts[h].successes * Samples(hosts[g]))
    <3>1. h \in C /\ Shortfall(hosts, config, h) >= 0
      BY DEF IsOutlier
    <3>2. PICK g \in C \ {h} : ~(r[g] < r[h])
      BY <2>12, <3>1, OutliersAreNotBest
    <3> HIDE DEF C, r
    <3> QED
      BY <2>3, <3>1, <3>2
  <2>13. E \subseteq C
    OBVIOUS
  <2> HIDE DEF E, C
  <2> QED
    BY <2>1, <2>2, <2>9, <2>10, <2>11, <2>12, <2>13 DEF EjectionsKeepTo
<1> QED
  BY <1>1, <1>2

\* The statistics of the windows are a group an evaluation may be given.
LEMMA GroupOfWindows ==
  ASSUME WindowsIInv
  PROVE  LET hosts == [h \in DOMAIN windows |-> Stats(windows[h])]
         IN  IsGroup(hosts, group.hosts)
<1> DEFINE hosts == [h \in DOMAIN windows |-> Stats(windows[h])]
           n == group.hosts
<1>1. n \in Nat
  BY WindowsAssumption DEF WindowsIInv
<1>2. DOMAIN hosts = 1..n /\ Len(hosts) = n
  <2>1. DOMAIN windows = 1..n
    BY DEF WindowsIInv
  <2> QED
    BY <1>1, <2>1
<1>3. ASSUME NEW h \in 1..n, NEW o \in Attributable
      PROVE  windows[h].totals[o] \in Nat
  <2>1. windows[h].totals[o] = Occurrences(lately[h], o)
    BY DEF WindowsIInv, WindowOf
  <2>2. lately[h] \in Seq(Attributable)
    BY DEF WindowsIInv
  <2> DEFINE s == lately[h]
             D == DOMAIN s
  <2>3. D = 1..Len(s) /\ Len(s) \in Nat
    BY <2>2
  <2>4. IsFiniteSet({i \in D : s[i] = o})
    <3>1. IsFiniteSet(D) /\ {i \in D : s[i] = o} \subseteq D
      <4> HIDE DEF D, s
      <4> QED
        BY <2>3, FS_Interval
    <3> QED
      BY <3>1, FS_Subset
  <2> QED
    BY <2>1, <2>4, FS_CardinalityType DEF Occurrences
<1>4. ASSUME NEW h \in 1..n
      PROVE  /\ hosts[h].successes \in Nat
             /\ hosts[h].failures \in Nat
             /\ hosts[h].overloaded \in Nat
  <2>1. hosts[h] = Stats(windows[h])
    BY <1>2
  <2>2. {"success", "failure", "overloaded"} = Attributable
    BY DEF Attributable
  <2> QED
    BY <1>3, <2>1, <2>2 DEF Stats
<1> QED
  BY <1>1, <1>2, <1>4 DEF IsGroup

\* The invariant of the windows bounds the ejections.
LEMMA EjectionsKept ==
  ASSUME WindowsIInv
  PROVE  EjectionsAreCapped
<1> DEFINE hosts == [h \in DOMAIN windows |-> Stats(windows[h])]
<1>1. IsGroup(hosts, group.hosts)
  BY GroupOfWindows
<1>2. ASSUME NEW config \in OutlierConfigs, NEW ejected \in Evaluations(hosts, config)
      PROVE  EjectionsKeepTo(hosts, config, ejected)
  <2>1. ValidOutlierConfig(config)
    BY OutlierConfigsAssumption
  <2>2. PICK up \in BOOLEAN : ejected = Evaluate(hosts, config, up)
    BY DEF Evaluations
  <2> HIDE DEF hosts
  <2> QED
    BY <1>1, <2>1, <2>2, EvaluationKeepsTo
<1> HIDE DEF hosts
<1>3. \A config \in OutlierConfigs : \A ejected \in Evaluations(hosts, config) :
        EjectionsKeepTo(hosts, config, ejected)
  BY <1>2
<1> QED
  BY <1>3 DEF EjectionsAreCapped, EjectionsKeepTo, hosts

\* The windows are only recorded and cleared.
THEOREM WindowsInvariance == Spec => []WindowsIInv
<1>1. Init => WindowsIInv
  BY WindowsInitInvariant DEF Init
<1>2. WindowsIInv /\ [Next]_vars => WindowsIInv'
  <2> SUFFICES ASSUME WindowsIInv, [Next]_vars PROVE WindowsIInv'
    OBVIOUS
  <2>1. CASE UNCHANGED windowVars
    BY <2>1 DEF WindowsIInv, windowVars
  <2>2. CASE Judging
    <3>1. CASE \E h \in DOMAIN windows : \E k \in DOMAIN AttemptKinds :
                 RecordOutcome(h, AttemptKinds[k])
      BY <3>1, RecordOutcomeInvariant
    <3>2. CASE \E h \in DOMAIN windows : Clear(h)
      BY <3>2, ClearInvariant
    <3> QED
      BY <2>2, <3>1, <3>2 DEF Judging
  <2> QED
    BY <2>1, <2>2 DEF Next, ObservedPick, ResetPolicy, Observing, vars
<1> QED
  BY <1>1, <1>2, PTL DEF Spec

\* The totals of every window are those of the outcomes it holds, and these are
\* the last ones recorded: OutcomeWindow::record and clear, for any capacity.
THEOREM WindowsExact == Spec => []WindowIsExact
<1>1. WindowsIInv => WindowIsExact
  BY WindowsAreExact
<1> QED
  BY <1>1, WindowsInvariance, PTL

\* An evaluation never ejects more than the group can lose, nor a host that does
\* better than one it keeps: OutlierDetector::evaluate, for any group and windows.
THEOREM EjectionsCapped == Spec => []EjectionsAreCapped
<1>1. WindowsIInv => EjectionsAreCapped
  BY EjectionsKept
<1> QED
  BY <1>1, WindowsInvariance, PTL

\* A number that saturates.
Capped(n) == Min({MaxCount, n})

\* What the largest count makes of a number.
LEMMA CappedIs ==
  ASSUME NEW n \in Nat
  PROVE  /\ Capped(n) = IF MaxCount <= n THEN MaxCount ELSE n
         /\ Capped(n) \in 0..MaxCount
<1>1. MaxCount \in Nat
  BY MaxCountAssumption
<1>2. Capped(n) = IF MaxCount <= n THEN MaxCount ELSE n
  BY <1>1, MinOfTwo DEF Capped
<1> QED
  BY <1>1, <1>2

\* Saturating twice is saturating once.
LEMMA CappedTwice ==
  ASSUME NEW m \in Nat, NEW n \in Nat
  PROVE  Capped(Capped(m) + n) = Capped(m + n)
<1>1. MaxCount \in Nat
  BY MaxCountAssumption
<1>2. Capped(m) \in Nat /\ Capped(m) = IF MaxCount <= m THEN MaxCount ELSE m
  BY <1>1, CappedIs
<1>3. Capped(Capped(m) + n)
        = IF MaxCount <= Capped(m) + n THEN MaxCount ELSE Capped(m) + n
  BY <1>2, CappedIs
<1>4. Capped(m + n) = IF MaxCount <= m + n THEN MaxCount ELSE m + n
  BY CappedIs
<1> QED
  BY <1>1, <1>2, <1>3, <1>4

\* Saturation keeps the order.
LEMMA CappedMonotone ==
  ASSUME NEW m \in Nat, NEW n \in Nat, m <= n
  PROVE  Capped(m) <= Capped(n)
<1>1. MaxCount \in Nat
  BY MaxCountAssumption
<1> QED
  BY <1>1, CappedIs

\* A sum saturates as the sum of what saturates does.
LEMMA SumCapped ==
  ASSUME NEW S, IsFiniteSet(S), NEW f, NEW g,
         \A x \in S : f[x] \in Nat /\ g[x] = Capped(f[x])
  PROVE  Capped(SumOf(f, S)) = Capped(SumOf(g, S))
<1>1. MaxCount \in Nat
  BY MaxCountAssumption
<1>2. \A x \in S : g[x] \in Nat /\ g[x] = IF MaxCount <= f[x] THEN MaxCount ELSE f[x]
  BY <1>1, CappedIs
<1>3. SumOf(f, S) \in Nat /\ \A x \in S : f[x] <= SumOf(f, S)
  BY SumParts
<1>4. SumOf(g, S) \in Nat /\ \A x \in S : g[x] <= SumOf(g, S)
  BY <1>2, SumParts
<1>5. CASE \A x \in S : f[x] <= MaxCount
  <2>1. \A x \in S : f[x] \in Int /\ f[x] = g[x]
    BY <1>1, <1>2, <1>5
  <2>2. SumOf(f, S) = SumOf(g, S)
    BY <2>1, SumSame
  <2> QED
    BY <2>2
<1>6. CASE ~(\A x \in S : f[x] <= MaxCount)
  <2>1. PICK x \in S : ~(f[x] <= MaxCount)
    BY <1>6
  <2>2. g[x] = MaxCount /\ MaxCount <= f[x]
    BY <1>1, <1>2, <2>1
  <2>3. MaxCount <= SumOf(f, S) /\ MaxCount <= SumOf(g, S)
    BY <1>1, <1>3, <1>4, <2>2
  <2> QED
    BY <1>3, <1>4, <2>3, CappedIs
<1> QED
  BY <1>5, <1>6

\* A sum of which one term changes.
LEMMA SumChanged ==
  ASSUME NEW S, IsFiniteSet(S), NEW f, NEW g, NEW z \in S,
         \A x \in S : f[x] \in Int /\ g[x] \in Int /\ (x # z => f[x] = g[x])
  PROVE  SumOf(g, S) - g[z] = SumOf(f, S) - f[z]
<1>1. IsFiniteSet(S \ {z})
  BY FS_Subset
<1>2. SumOf(f, S) = f[z] + SumOf(f, S \ {z}) /\ SumOf(g, S) = g[z] + SumOf(g, S \ {z})
  BY SumRemove
<1>3. SumOf(f, S \ {z}) = SumOf(g, S \ {z})
  BY <1>1, SumSame
<1>4. SumOf(f, S \ {z}) \in Int
  BY <1>1, SumType
<1> QED
  BY <1>2, <1>3, <1>4

\* The sums of the model, as sums of functions.
TruthOf(tr, c) == [t \in Tellers |-> tr[t][c]]

TotalIn(tr, T, c) == Capped(SumOf(TruthOf(tr, c), T))

AmountFor(c) == [a \in Additions |-> IF a.counter = c THEN a.amount ELSE 0]

\* The amounts of additions are integers.
LEMMA AmountForType ==
  ASSUME NEW c
  PROVE  AmountFor(c) \in [Additions -> Int]
BY DEF AmountFor, Additions

\* The amount an event adds to a counter is a sum over its additions.
LEMMA AmountSum ==
  ASSUME NEW c, NEW adds \in Seq(Additions)
  PROVE  AmountOf(adds, c) = Over(AmountFor(c), adds) /\ AmountOf(adds, c) \in Nat
<1> DEFINE D == DOMAIN adds
           f == [k \in D |-> AmountFor(c)[adds[k]]]
<1>1. D = 1..Len(adds) /\ IsFiniteSet(D)
  BY FS_Interval
<1>2. \A k \in D : f[k] \in Nat /\ f[k] = IF adds[k].counter = c THEN adds[k].amount ELSE 0
  <2>1. \A k \in D : adds[k] \in Additions
    OBVIOUS
  <2> QED
    BY <2>1 DEF AmountFor, Additions
<1>4. ASSUME NEW g
      PROVE  [t \in SUBSET D |-> IF t = {} THEN 0
                ELSE LET x == CHOOSE y \in t : TRUE
                     IN  (IF adds[x].counter = c THEN adds[x].amount ELSE 0) + g[t \ {x}]]
             = [t \in SUBSET D |-> StepOf(FALSE, f, t, g)]
  <2> HIDE DEF f, D
  <2> QED
    BY <1>2 DEF StepOf
<1>6. AmountOf(adds, c) = SumOf(f, D)
  <2> HIDE DEF f
  <2> QED
    BY <1>4, SumUnfold, ZenonT(20) DEF AmountOf, MapThenSumSet, MapThenFoldSet, Iteration, Recursion
<1>7. SumOf(f, D) \in Nat
  <2> HIDE DEF f, D
  <2> QED
    BY <1>1, <1>2, SumParts
<1> HIDE DEF f
<1>8. SumOf(f, D) = Over(AmountFor(c), adds)
  BY <1>1 DEF Over, f
<1> QED
  BY <1>6, <1>7, <1>8

\* An addition less to come, and the last of them.
LEMMA AmountOfTail ==
  ASSUME NEW c, NEW adds \in Seq(Additions), adds # <<>>
  PROVE  /\ Tail(adds) \in Seq(Additions) /\ Head(adds) \in Additions
         /\ Len(adds) \in Nat \ {0} /\ (Tail(adds) = <<>> <=> Len(adds) = 1)
         /\ AmountOf(adds, c)
              = AmountOf(Tail(adds), c)
                  + IF Head(adds).counter = c THEN Head(adds).amount ELSE 0
         /\ AmountOf(adds, c) \in Nat /\ AmountOf(Tail(adds), c) \in Nat
<1>1. /\ Tail(adds) \in Seq(Additions) /\ Head(adds) \in Additions
      /\ Len(adds) \in Nat \ {0} /\ (Tail(adds) = <<>> <=> Len(adds) = 1)
  <2>1. /\ Tail(adds) \in Seq(Additions) /\ Head(adds) \in Additions
        /\ Len(adds) \in Nat \ {0} /\ Len(Tail(adds)) = Len(adds) - 1
    OBVIOUS
  <2>2. \A s \in Seq(Additions) : s = <<>> <=> Len(s) = 0
    OBVIOUS
  <2>3. Tail(adds) = <<>> <=> Len(Tail(adds)) = 0
    BY <2>1, <2>2
  <2> QED
    BY ONLY <2>1, <2>3
<1>2. AmountOf(adds, c) = Over(AmountFor(c), adds)
      /\ AmountOf(Tail(adds), c) = Over(AmountFor(c), Tail(adds))
      /\ AmountOf(adds, c) \in Nat /\ AmountOf(Tail(adds), c) \in Nat
  BY <1>1, AmountSum
<1>3. Over(AmountFor(c), adds) = AmountFor(c)[Head(adds)] + Over(AmountFor(c), Tail(adds))
  BY AmountForType, OverTail
<1>4. AmountFor(c)[Head(adds)] = IF Head(adds).counter = c THEN Head(adds).amount ELSE 0
  BY <1>1 DEF AmountFor
<1>5. AmountFor(c)[Head(adds)] \in Int
  BY <1>1, AmountForType
<1> QED
  BY <1>1, <1>2, <1>3, <1>4, <1>5

\* No addition adds nothing.
LEMMA AmountOfNothing ==
  ASSUME NEW c
  PROVE  AmountOf(<<>>, c) = 0
<1>1. <<>> \in Seq(Additions) /\ 1..Len(<<>>) = {}
  OBVIOUS
<1> QED
  BY <1>1, AmountSum, SumEmpty DEF Over

\* What an event has still to add is a number.
LEMMA ToComeType ==
  ASSUME NEW e \in Telling, NEW s \in Sinks, NEW c
  PROVE  ToCome(e, s, c) \in Nat
<1>1. CASE e = Silent
  BY <1>1 DEF ToCome
<1>2. CASE e # Silent
  <2>1. e.adds \in Seq(Additions) /\ e.left \in Seq(Additions)
    BY <1>2 DEF Telling, Recording
  <2> QED
    BY <2>1, AmountSum DEF ToCome
<1> QED
  BY <1>1, <1>2

\* One addition less is to come, and no other changes.
LEMMA Advances ==
  ASSUME NEW e \in Telling, e # Silent
  PROVE  /\ Advanced(e) \in Telling
         /\ e.sink \in Sinks /\ Head(e.left) \in Additions
         /\ \A s \in Sinks, c \in Counters :
              ToCome(e, s, c) = ToCome(Advanced(e), s, c)
                + IF s = e.sink /\ Head(e.left).counter = c THEN Head(e.left).amount ELSE 0
<1>1. /\ e \in [sink : Sinks, adds : Recording, left : Recording]
      /\ e.sink \in Sinks /\ e.sink # 0
      /\ e.adds \in Seq(Additions) /\ e.adds # <<>>
      /\ e.left \in Seq(Additions) /\ e.left # <<>>
  BY DEF Telling, Recording, Sinks
<1>2. /\ Tail(e.left) \in Seq(Additions) /\ Head(e.left) \in Additions
      /\ Len(e.left) \in Nat \ {0} /\ (Tail(e.left) = <<>> <=> Len(e.left) = 1)
  BY <1>1, AmountOfTail
<1>3. \A c \in Counters :
        /\ AmountOf(e.left, c) = AmountOf(Tail(e.left), c)
             + IF Head(e.left).counter = c THEN Head(e.left).amount ELSE 0
        /\ AmountOf(e.left, c) \in Nat /\ AmountOf(Tail(e.left), c) \in Nat
        /\ AmountOf(e.adds, c) \in Nat
  BY <1>1, AmountOfTail, AmountSum
<1>4. \A s \in Sinks, c \in Counters :
        ToCome(e, s, c) = IF s < e.sink THEN 0
                          ELSE IF s = e.sink THEN AmountOf(e.left, c)
                          ELSE AmountOf(e.adds, c)
  BY <1>1 DEF ToCome
<1> DEFINE a == [sink |-> e.sink, adds |-> e.adds, left |-> Tail(e.left)]
           b == [sink |-> e.sink + 1, adds |-> e.adds, left |-> e.adds]
<1>5. CASE Len(e.left) > 1
  <2>1. Advanced(e) = a
    BY <1>2, <1>5 DEF Advanced
  <2>2. a \in Telling /\ a # Silent
    BY <1>1, <1>2, <1>5 DEF Telling, Recording, Silent
  <2>3. \A s \in Sinks, c \in Counters :
          ToCome(a, s, c) = IF s < e.sink THEN 0
                            ELSE IF s = e.sink THEN AmountOf(Tail(e.left), c)
                            ELSE AmountOf(e.adds, c)
    BY <2>2 DEF ToCome
  <2>4. \A s \in Sinks : s \in Int
    BY DEF Sinks
  <2> HIDE DEF a
  <2> QED
    BY <1>1, <1>2, <1>3, <1>4, <2>1, <2>2, <2>3, <2>4
<1>6. CASE Len(e.left) = 1 /\ e.sink + 1 \in Sinks
  <2>1. Advanced(e) = b
    BY <1>2, <1>6 DEF Advanced
  <2>2. b \in Telling /\ b # Silent
    BY <1>1, <1>6 DEF Telling, Recording, Silent, Sinks
  <2>3. \A s \in Sinks, c \in Counters :
          ToCome(b, s, c) = IF s < e.sink + 1 THEN 0 ELSE AmountOf(e.adds, c)
    BY <2>2 DEF ToCome
  <2>4. \A s \in Sinks : s \in Int
    BY DEF Sinks
  <2>5. \A c \in Counters : AmountOf(Tail(e.left), c) = 0
    BY <1>2, <1>6, AmountOfNothing
  <2>6. \A s \in Sinks : (s < e.sink + 1 <=> s < e.sink \/ s = e.sink)
    BY <1>1, <2>4
  <2> HIDE DEF b
  <2> QED
    BY <1>1, <1>2, <1>3, <1>4, <2>1, <2>2, <2>3, <2>4, <2>5, <2>6
<1>7. CASE Len(e.left) = 1 /\ e.sink + 1 \notin Sinks
  <2>1. Advanced(e) = Silent
    BY <1>2, <1>7 DEF Advanced
  <2>2. \A s \in Sinks, c \in Counters : ToCome(Silent, s, c) = 0
    BY DEF ToCome
  <2>3. \A c \in Counters : AmountOf(Tail(e.left), c) = 0
    BY <1>2, <1>7, AmountOfNothing
  <2>4. \A s \in Sinks : s \in Int /\ (s < e.sink \/ s = e.sink)
    BY <1>1, <1>7 DEF Sinks
  <2>5. Silent \in Telling
    BY DEF Telling
  <2> HIDE DEF Silent
  <2> QED
    BY <1>1, <1>2, <1>3, <1>4, <2>1, <2>2, <2>3, <2>4, <2>5
<1> QED
  BY <1>1, <1>2, <1>5, <1>6, <1>7

\* There are finitely many tellers.
LEMMA TellersFinite == IsFiniteSet(Tellers)
<1>1. IsFiniteSet(Attempt \cup {"policy"})
  BY AttemptAssumption, FS_AddElement
<1>2. IsFiniteSet((Attempt \cup {"policy"}) \cup {"endpoint"})
  BY <1>1, FS_AddElement
<1>3. Tellers = (Attempt \cup {"policy"}) \cup {"endpoint"}
  BY DEF Tellers
<1> QED
  BY <1>2, <1>3

\* The invariant, part by part.
AllAccounted ==
  \A s \in Sinks : \A c \in Counters :
    \E added \in [Tellers -> 0..MaxCount] : Accounted(s, c, added)

TruthTyped(tr) == tr \in [Tellers -> [Counters -> 0..MaxCount]]

\* What the events of some tellers come to, and its type.
LEMMA TotalIs ==
  ASSUME NEW tr, TruthTyped(tr), NEW c \in Counters, NEW T \in SUBSET Tellers
  PROVE  /\ TotalIn(tr, T, c) = Capped(SumOf(TruthOf(tr, c), T))
         /\ SumOf(TruthOf(tr, c), T) \in Nat
         /\ TotalIn(tr, T, c) \in 0..MaxCount
         /\ \A t \in Tellers : /\ TruthOf(tr, c)[t] = tr[t][c]
                               /\ tr[t][c] \in 0..MaxCount /\ tr[t][c] \in Nat
<1> DEFINE f == TruthOf(tr, c)
<1>2. MaxCount \in Nat
  BY MaxCountAssumption
<1>3. \A t \in Tellers : f[t] = tr[t][c] /\ tr[t][c] \in 0..MaxCount /\ f[t] \in Nat
  BY <1>2 DEF TruthTyped, TruthOf
<1>4. IsFiniteSet(T)
  BY TellersFinite, FS_Subset
<1>5. SumOf(f, T) \in Nat
  <2> HIDE DEF f
  <2> QED
    BY <1>3, <1>4, SumParts
<1> HIDE DEF f
<1>6. TotalIn(tr, T, c) = Capped(SumOf(f, T))
  BY DEF f, TotalIn
<1> QED
  BY <1>3, <1>5, <1>6, CappedIs DEF f

\* More truth, a larger total.
LEMMA TotalGrows ==
  ASSUME NEW tr, TruthTyped(tr), NEW more, TruthTyped(more), NEW c \in Counters,
         \A t \in Tellers : tr[t][c] <= more[t][c]
  PROVE  TotalIn(tr, Tellers, c) <= TotalIn(more, Tellers, c)
<1> DEFINE f == TruthOf(tr, c)
           g == TruthOf(more, c)
<1>1. \A t \in Tellers : f[t] \in Int /\ g[t] \in Int /\ f[t] <= g[t]
  BY TotalIs
<1>2. /\ TotalIn(tr, Tellers, c) = Capped(SumOf(f, Tellers)) /\ SumOf(f, Tellers) \in Nat
      /\ TotalIn(more, Tellers, c) = Capped(SumOf(g, Tellers)) /\ SumOf(g, Tellers) \in Nat
  BY TotalIs
<1> HIDE DEF f, g
<1>3. SumOf(f, Tellers) <= SumOf(g, Tellers)
  BY <1>1, TellersFinite, SumMonotone
<1> QED
  BY <1>2, <1>3, CappedMonotone

\* An account of a counter, in saturated sums.
LEMMA AccountedIs ==
  ASSUME NEW s, NEW c, NEW added
  PROVE  Accounted(s, c, added) <=>
           /\ metrics[s][c] = Capped(SumOf(added, Tellers))
           /\ \A t \in Tellers :
                truth[t][c] = Capped(added[t] + ToCome(telling[t], s, c))
BY DEF Accounted, Capped, SumOf

\* Before any event every counter is accounted for.
LEMMA InitiallyAccounted ==
  ASSUME ObservabilityInit
  PROVE  AllAccounted
<1> SUFFICES ASSUME NEW s \in Sinks, NEW c \in Counters
             PROVE  \E added \in [Tellers -> 0..MaxCount] : Accounted(s, c, added)
  BY DEF AllAccounted
<1> DEFINE zero == [t \in Tellers |-> 0]
<1>1. MaxCount \in Nat \ {0}
  BY MaxCountAssumption
<1>2. zero \in [Tellers -> 0..MaxCount]
  BY <1>1
<1>3. SumOf(zero, Tellers) = 0
  <2>1. \A t \in Tellers : zero[t] = 0
    OBVIOUS
  <2>2. SumOf(zero, Tellers) = 0 * Cardinality(Tellers) /\ Cardinality(Tellers) \in Nat
    <3> HIDE DEF zero
    <3> QED
      BY <2>1, TellersFinite, SumOfOnes, FS_CardinalityType
  <2> HIDE DEF zero
  <2> QED
    BY <2>2
<1>4. Capped(0) = 0
  BY <1>1, CappedIs
<1>5. metrics[s][c] = 0 /\ \A t \in Tellers : truth[t][c] = 0 /\ telling[t] = Silent
  BY DEF ObservabilityInit
<1>6. \A t \in Tellers : zero[t] + ToCome(telling[t], s, c) = 0
  BY <1>5 DEF ToCome
<1>7. Accounted(s, c, zero)
  <2> HIDE DEF zero
  <2> QED
    BY <1>3, <1>4, <1>5, <1>6, AccountedIs
<1> QED
  BY <1>2, <1>7

\* An addition takes from what is to come.
LEMMA TellAccounted ==
  ASSUME AllAccounted, telling \in [Tellers -> Telling],
         metrics \in [Sinks -> [Counters -> 0..MaxCount]],
         NEW t \in Tellers, Tell(t)
  PROVE  AllAccounted' /\ telling' \in [Tellers -> Telling]
         /\ metrics' \in [Sinks -> [Counters -> 0..MaxCount]]
         /\ \A s \in Sinks, c \in Counters : metrics[s][c] <= metrics'[s][c]
<1> DEFINE e == telling[t]
           add == Head(e.left)
           amount(s, c) == IF s = e.sink /\ add.counter = c THEN add.amount ELSE 0
<1>0. MaxCount \in Nat
  BY MaxCountAssumption
<1>1. e \in Telling /\ e # Silent
  BY DEF Tell
<1>2. /\ Advanced(e) \in Telling
      /\ e.sink \in Sinks /\ add \in Additions
      /\ \A s \in Sinks, c \in Counters :
           ToCome(e, s, c) = ToCome(Advanced(e), s, c) + amount(s, c)
  <2> HIDE DEF e
  <2> QED
    BY <1>1, Advances
<1>3. /\ telling' = [telling EXCEPT ![t] = Advanced(e)]
      /\ metrics' = [metrics EXCEPT ![e.sink] = Added(metrics[e.sink], add)]
      /\ truth' = truth
  BY DEF Tell
<1> HIDE DEF e, add
<1>4. add.amount \in Nat /\ add.counter \in Counters
  BY <1>2 DEF Additions
<1>5. \A s \in Sinks, c \in Counters : amount(s, c) \in Nat
  BY <1>4
<1>6. ASSUME NEW s \in Sinks, NEW c \in Counters
      PROVE  /\ metrics'[s][c] = Capped(metrics[s][c] + amount(s, c))
             /\ metrics[s][c] \in 0..MaxCount
             /\ metrics'[s] = [d \in Counters |-> metrics'[s][d]]
  <2>1. /\ metrics[s] = [d \in Counters |-> metrics[s][d]]
        /\ metrics[s][c] \in 0..MaxCount
    OBVIOUS
  <2>2. Capped(metrics[s][c] + 0) = metrics[s][c]
    BY <1>0, <2>1, CappedIs
  <2>3. CASE s # e.sink
    <3>1. metrics'[s] = metrics[s]
      BY <1>3, <2>3
    <3>2. amount(s, c) = 0
      BY <2>3
    <3> HIDE DEF amount
    <3> QED
      BY <2>1, <2>2, <3>1, <3>2
  <2>4. CASE s = e.sink
    <3>1. metrics'[s] = Added(metrics[s], add)
      BY <1>2, <1>3, <2>4
    <3>2. /\ metrics'[s][c] = IF c = add.counter
                              THEN Min({MaxCount, metrics[s][c] + add.amount}) ELSE metrics[s][c]
          /\ metrics'[s] = [d \in Counters |-> metrics'[s][d]]
      BY <2>1, <3>1 DEF Added
    <3>3. amount(s, c) = IF c = add.counter THEN add.amount ELSE 0
      BY <2>4
    <3> HIDE DEF amount
    <3>4. CASE c = add.counter
      BY <2>1, <3>2, <3>3, <3>4 DEF Capped
    <3>5. CASE c # add.counter
      BY <2>1, <2>2, <3>2, <3>3, <3>5
    <3> QED
      BY <3>4, <3>5
  <2> QED
    BY <2>3, <2>4
<1>7. ASSUME NEW s \in Sinks, NEW c \in Counters
      PROVE  metrics'[s][c] \in 0..MaxCount /\ metrics[s][c] <= metrics'[s][c]
  <2>1. metrics[s][c] + amount(s, c) \in Nat /\ metrics[s][c] \in 0..MaxCount
        /\ amount(s, c) \in Nat
    <3>1. metrics[s][c] \in 0..MaxCount /\ amount(s, c) \in Nat
      BY <1>5, <1>6
    <3> HIDE DEF amount
    <3> QED
      BY <1>0, <3>1
  <2>2. metrics'[s][c] = Capped(metrics[s][c] + amount(s, c))
    BY <1>6
  <2> HIDE DEF amount
  <2> QED
    BY <1>0, <2>1, <2>2, CappedIs
<1>8. metrics' \in [Sinks -> [Counters -> 0..MaxCount]]
  <2>1. metrics' \in [Sinks -> [Counters -> 0..MaxCount]]
        <=> metrics' = [s \in Sinks |-> [c \in Counters |-> metrics'[s][c]]]
            /\ \A s \in Sinks, c \in Counters : metrics'[s][c] \in 0..MaxCount
    OBVIOUS
  <2>2. metrics' = [s \in Sinks |-> metrics'[s]]
    BY <1>3
  <2>3. \A s \in Sinks : metrics'[s] = [c \in Counters |-> metrics'[s][c]]
    BY ONLY <1>4, <1>6
  <2> QED
    BY <1>7, <2>1, <2>2, <2>3
<1>9. telling' \in [Tellers -> Telling]
  BY <1>2, <1>3
<1>10. AllAccounted'
  <2> SUFFICES ASSUME NEW s \in Sinks, NEW c \in Counters
               PROVE  \E added \in [Tellers -> 0..MaxCount] : Accounted(s, c, added)'
    BY DEF AllAccounted
  <2>1. PICK added \in [Tellers -> 0..MaxCount] :
          /\ metrics[s][c] = Capped(SumOf(added, Tellers))
          /\ \A x \in Tellers : truth[x][c] = Capped(added[x] + ToCome(telling[x], s, c))
    BY AccountedIs DEF AllAccounted
  <2> DEFINE a == amount(s, c)
             more == [added EXCEPT ![t] = Capped(@ + a)]
             exact == [added EXCEPT ![t] = @ + a]
  <2>2. a \in Nat /\ \A x \in Tellers : added[x] \in Nat /\ added[x] \in 0..MaxCount
    BY <1>0, <1>5
  <2>3. /\ \A x \in Tellers : exact[x] \in Nat /\ (x # t => exact[x] = added[x])
        /\ exact[t] = added[t] + a
    <3> HIDE DEF a
    <3> QED
      BY <2>2
  <2>4. \A x \in Tellers : more[x] = Capped(exact[x]) /\ more[x] \in 0..MaxCount
    <3> HIDE DEF a
    <3>1. \A x \in Tellers : Capped(added[x]) = added[x]
      BY <1>0, <2>2, CappedIs
    <3>2. \A x \in Tellers : Capped(exact[x]) \in 0..MaxCount
      BY <2>3, CappedIs
    <3>3. \A x \in Tellers : more[x] = Capped(exact[x])
      BY <2>3, <3>1
    <3> QED
      BY <3>2, <3>3
  <2>5. more \in [Tellers -> 0..MaxCount]
    <3>1. more = [x \in Tellers |-> more[x]]
      <4> HIDE DEF a
      <4> QED
        OBVIOUS
    <3> HIDE DEF more
    <3> QED
      BY <2>4, <3>1
  <2>6. SumOf(exact, Tellers) = SumOf(added, Tellers) + a /\ SumOf(added, Tellers) \in Nat
    <3>1. SumOf(exact, Tellers) - exact[t] = SumOf(added, Tellers) - added[t]
      <4>1. \A x \in Tellers : added[x] \in Int /\ exact[x] \in Int
                               /\ (x # t => added[x] = exact[x])
        BY <2>2, <2>3
      <4> HIDE DEF exact
      <4> QED
        BY <4>1, TellersFinite, SumChanged
    <3>2. SumOf(added, Tellers) \in Nat /\ SumOf(exact, Tellers) \in Nat
      <4> HIDE DEF exact
      <4> QED
        BY <2>2, <2>3, TellersFinite, SumParts
    <3>3. exact[t] = added[t] + a /\ added[t] \in Nat /\ a \in Nat
      BY <2>2, <2>3
    <3> HIDE DEF exact, a
    <3> QED
      BY ONLY <3>1, <3>2, <3>3
  <2>7. Capped(SumOf(more, Tellers)) = Capped(SumOf(exact, Tellers))
    <3> HIDE DEF more, exact
    <3> QED
      BY <2>3, <2>4, TellersFinite, SumCapped
  <2>8. metrics'[s][c] = Capped(SumOf(more, Tellers))
    <3>1. metrics'[s][c] = Capped(metrics[s][c] + a)
      BY <1>6
    <3>2. Capped(Capped(SumOf(added, Tellers)) + a) = Capped(SumOf(added, Tellers) + a)
      <4> HIDE DEF a
      <4> QED
        BY <2>2, <2>6, CappedTwice
    <3> HIDE DEF a, more, exact
    <3> QED
      BY <2>1, <2>6, <2>7, <3>1, <3>2
  <2>9. ASSUME NEW x \in Tellers
        PROVE  truth'[x][c] = Capped(more[x] + ToCome(telling'[x], s, c))
    <3>1. truth'[x][c] = Capped(added[x] + ToCome(telling[x], s, c))
      BY <1>3, <2>1
    <3>2. CASE x # t
      <4>1. telling'[x] = telling[x]
        BY <1>3, <3>2
      <4>2. more[x] = added[x]
        BY <3>2
      <4> HIDE DEF more
      <4> QED
        BY <3>1, <4>1, <4>2
    <3>3. CASE x = t
      <4> DEFINE later == ToCome(Advanced(e), s, c)
      <4>1. telling'[x] = Advanced(e)
        BY <1>3, <3>3
      <4>2. later \in Nat
        BY <1>2, ToComeType
      <4>3. ToCome(telling[x], s, c) = later + a
        BY <1>2, <3>3 DEF e
      <4>4. more[x] = Capped(added[t] + a)
        BY <3>3
      <4>5. Capped(Capped(added[t] + a) + later) = Capped((added[t] + a) + later)
        <5> HIDE DEF a, later
        <5>1. added[t] + a \in Nat
          BY <2>2
        <5> QED
          BY <4>2, <5>1, CappedTwice
      <4>6. (added[t] + a) + later = added[t] + (later + a)
        <5> HIDE DEF a, later
        <5> QED
          BY <2>2, <4>2
      <4>7. ToCome(telling'[x], s, c) = later
        BY <4>1
      <4> HIDE DEF a, later, more
      <4> QED
        BY <3>1, <3>3, <4>3, <4>4, <4>5, <4>6, <4>7
    <3> QED
      BY <3>2, <3>3
  <2>10. \E z \in [Tellers -> 0..MaxCount] :
           /\ metrics'[s][c] = Capped(SumOf(z, Tellers))
           /\ \A x \in Tellers :
                truth'[x][c] = Capped(z[x] + ToCome(telling'[x], s, c))
    <3> HIDE DEF more
    <3> QED
      BY <2>5, <2>8, <2>9
  <2> QED
    BY <2>10 DEF Accounted, Capped, SumOf
<1> QED
  BY <1>7, <1>8, <1>9, <1>10

\* An event calls for what it is about to add.
LEMMA EventAccounted ==
  ASSUME AllAccounted, telling \in [Tellers -> Telling], TruthTyped(truth),
         NEW t \in Tellers, telling[t] = Silent, NEW adds \in Recording,
         Observe(t, adds), Happened(t, adds), metrics' = metrics
  PROVE  AllAccounted' /\ telling' \in [Tellers -> Telling] /\ TruthTyped(truth')
         /\ \A c \in Counters : Total(Tellers, c) <= Total(Tellers, c)'
<1> DEFINE e == [sink |-> 1, adds |-> adds, left |-> adds]
<1>0. MaxCount \in Nat
  BY MaxCountAssumption
<1>1. e \in Telling /\ e # Silent
  BY DEF Telling, Silent, Sinks
<1>2. telling' = [telling EXCEPT ![t] = e]
  BY DEF Observe
<1>3. telling' \in [Tellers -> Telling]
  <2> HIDE DEF e
  <2> QED
    BY <1>1, <1>2
<1>4. ASSUME NEW c \in Counters PROVE AmountOf(adds, c) \in Nat
  BY AmountSum DEF Recording
<1>5. ASSUME NEW c \in Counters, NEW s \in Sinks PROVE ToCome(e, s, c) = AmountOf(adds, c)
  <2>1. ~(s < e.sink)
    BY DEF Sinks
  <2> QED
    BY <1>1, <2>1 DEF ToCome
<1>6. truth' = [truth EXCEPT ![t] = [c \in Counters |-> Capped(truth[t][c] + AmountOf(adds, c))]]
  BY DEF Happened, Capped
<1>7. ASSUME NEW c \in Counters, NEW x \in Tellers
      PROVE  /\ x # t => truth'[x][c] = truth[x][c]
             /\ x = t => truth'[x][c] = Capped(truth[x][c] + AmountOf(adds, c))
             /\ truth[x][c] \in Nat /\ truth[x][c] \in 0..MaxCount
             /\ truth'[x][c] \in 0..MaxCount
             /\ truth[x][c] <= truth'[x][c]
  <2>1. truth[x][c] \in 0..MaxCount /\ truth[x][c] \in Nat
    BY <1>0 DEF TruthTyped
  <2>2. /\ x # t => truth'[x] = truth[x]
        /\ x = t => truth'[x] = [d \in Counters |-> Capped(truth[t][d] + AmountOf(adds, d))]
    BY <1>6 DEF TruthTyped
  <2>3. /\ x # t => truth'[x][c] = truth[x][c]
        /\ x = t => truth'[x][c] = Capped(truth[x][c] + AmountOf(adds, c))
    BY <2>2
  <2> DEFINE a == AmountOf(adds, c)
             u == truth[x][c]
  <2>4. u + a \in Nat /\ u \in 0..MaxCount /\ a \in Nat
    <3>1. a \in Nat
      BY <1>4
    <3> HIDE DEF a
    <3> QED
      BY <2>1, <3>1
  <2>5. Capped(u + a) \in 0..MaxCount /\ u <= Capped(u + a)
    <3> HIDE DEF u, a
    <3> QED
      BY <1>0, <2>4, CappedIs
  <2> QED
    BY <1>0, <2>1, <2>3, <2>5
<1>8. TruthTyped(truth')
  <2>1. ASSUME NEW x \in Tellers PROVE truth'[x] \in [Counters -> 0..MaxCount]
    <3>1. CASE x # t
      BY <1>6, <3>1 DEF TruthTyped
    <3>2. CASE x = t
      <4>1. truth'[x] = [d \in Counters |-> Capped(truth[t][d] + AmountOf(adds, d))]
        BY <1>6, <3>2 DEF TruthTyped
      <4>2. truth'[x] = [d \in Counters |-> truth'[x][d]]
        BY <4>1
      <4> QED
        BY <1>7, <4>2
    <3> QED
      BY <3>1, <3>2
  <2>2. truth' = [x \in Tellers |-> truth'[x]]
    BY <1>6 DEF TruthTyped
  <2> QED
    BY <2>1, <2>2 DEF TruthTyped
<1>9. \A c \in Counters : Total(Tellers, c) <= Total(Tellers, c)'
  <2>1. \A c \in Counters : TotalIn(truth, Tellers, c) <= TotalIn(truth', Tellers, c)
    BY <1>7, <1>8, TotalGrows
  <2>2. ASSUME NEW c \in Counters PROVE Total(Tellers, c) <= Total(Tellers, c)'
    <3>1. Total(Tellers, c) = TotalIn(truth, Tellers, c)
      BY DEF TotalIn, Total, TruthOf, SumOf, Capped
    <3>2. Total(Tellers, c)' = TotalIn(truth', Tellers, c)
      BY DEF TotalIn, Total, TruthOf, SumOf, Capped
    <3> QED
      BY <2>1, <3>1, <3>2
  <2> QED
    BY <2>2
<1>10. AllAccounted'
  <2> SUFFICES ASSUME NEW s \in Sinks, NEW c \in Counters
               PROVE  \E added \in [Tellers -> 0..MaxCount] : Accounted(s, c, added)'
    BY DEF AllAccounted
  <2>1. PICK added \in [Tellers -> 0..MaxCount] :
          /\ metrics[s][c] = Capped(SumOf(added, Tellers))
          /\ \A x \in Tellers : truth[x][c] = Capped(added[x] + ToCome(telling[x], s, c))
    BY AccountedIs DEF AllAccounted
  <2>2. ASSUME NEW x \in Tellers
        PROVE  truth'[x][c] = Capped(added[x] + ToCome(telling'[x], s, c))
    <3>1. CASE x # t
      <4>1. telling'[x] = telling[x]
        <5> HIDE DEF e
        <5> QED
          BY <1>2, <3>1
      <4> QED
        BY <1>7, <2>1, <3>1, <4>1
    <3>2. CASE x = t
      <4>1. telling'[x] = e
        <5> HIDE DEF e
        <5> QED
          BY <1>2, <3>2
      <4>2. ToCome(telling'[x], s, c) = AmountOf(adds, c)
        BY <1>5, <4>1
      <4>3. ToCome(telling[x], s, c) = 0
        BY <3>2 DEF ToCome
      <4>4. added[x] \in Nat /\ added[x] + 0 = added[x]
        BY <1>0
      <4>5. truth[x][c] = Capped(added[x])
        BY <2>1, <4>3, <4>4
      <4>6. truth'[x][c] = Capped(truth[x][c] + AmountOf(adds, c))
        BY <1>7, <3>2
      <4>7. Capped(Capped(added[x]) + AmountOf(adds, c)) = Capped(added[x] + AmountOf(adds, c))
        BY <1>4, <4>4, CappedTwice
      <4> QED
        BY <4>2, <4>5, <4>6, <4>7
    <3> QED
      BY <3>1, <3>2
  <2>3. metrics'[s][c] = Capped(SumOf(added, Tellers))
    BY <2>1
  <2> QED
    BY <2>2, <2>3 DEF Accounted, Capped, SumOf
<1> QED
  BY <1>3, <1>8, <1>9, <1>10

\* No counter is ahead of what happened, and none is behind what those who
\* are not in the middle of an event did.
LEMMA CountersBetween ==
  ASSUME AllAccounted, telling \in [Tellers -> Telling], TruthTyped(truth),
         NEW s \in Sinks, NEW c \in Counters
  PROVE  /\ metrics[s][c] \in 0..MaxCount
         /\ metrics[s][c] <= Total(Tellers, c)
         /\ \A T \in SUBSET Tellers :
              (\A t \in T : telling[t] = Silent) => Total(T, c) <= metrics[s][c]
<1>0. MaxCount \in Nat
  BY MaxCountAssumption
<1>1. PICK added \in [Tellers -> 0..MaxCount] :
        /\ metrics[s][c] = Capped(SumOf(added, Tellers))
        /\ \A x \in Tellers : truth[x][c] = Capped(added[x] + ToCome(telling[x], s, c))
  BY AccountedIs DEF AllAccounted
<1> DEFINE f == TruthOf(truth, c)
<1>2. \A T \in SUBSET Tellers : Total(T, c) = TotalIn(truth, T, c)
  BY DEF TotalIn, Total, TruthOf, SumOf, Capped
<1>3. \A T \in SUBSET Tellers : /\ Total(T, c) = Capped(SumOf(f, T))
                                /\ SumOf(f, T) \in Nat
  BY <1>2, TotalIs
<1>4. \A x \in Tellers : f[x] = truth[x][c] /\ f[x] \in Nat
  BY TotalIs
<1>5. \A x \in Tellers : added[x] \in Nat /\ added[x] = Capped(added[x])
  BY <1>0, CappedIs
<1>6. \A T \in SUBSET Tellers : IsFiniteSet(T)
  BY TellersFinite, FS_Subset
<1>7. SumOf(added, Tellers) \in Nat
      /\ \A T \in SUBSET Tellers : SumOf(added, T) \in Nat
                                   /\ SumOf(added, T) <= SumOf(added, Tellers)
  BY <1>5, TellersFinite, SumParts
<1>8. ASSUME NEW x \in Tellers PROVE added[x] <= f[x]
  <2>1. ToCome(telling[x], s, c) \in Nat
    BY ToComeType
  <2>2. Capped(added[x]) <= Capped(added[x] + ToCome(telling[x], s, c))
    BY <1>5, <2>1, CappedMonotone
  <2> HIDE DEF f
  <2> QED
    BY <1>1, <1>4, <1>5, <2>2
<1> HIDE DEF f
<1>9. metrics[s][c] <= Total(Tellers, c)
  <2>1. SumOf(added, Tellers) <= SumOf(f, Tellers)
    <3>1. \A x \in Tellers : added[x] \in Int /\ f[x] \in Int /\ added[x] <= f[x]
      BY <1>4, <1>5, <1>8
    <3> QED
      BY <3>1, TellersFinite, SumMonotone
  <2>2. SumOf(f, Tellers) \in Nat /\ Total(Tellers, c) = Capped(SumOf(f, Tellers))
    BY <1>3
  <2>3. Capped(SumOf(added, Tellers)) <= Capped(SumOf(f, Tellers))
    BY <1>7, <2>1, <2>2, CappedMonotone
  <2> QED
    BY <1>1, <2>2, <2>3
<1>10. ASSUME NEW T \in SUBSET Tellers, \A t \in T : telling[t] = Silent
       PROVE  Total(T, c) <= metrics[s][c]
  <2>1. \A x \in T : ToCome(telling[x], s, c) = 0
    BY <1>10 DEF ToCome
  <2>2. \A x \in T : added[x] + 0 = added[x]
    BY <1>5
  <2>3. \A x \in T : f[x] = added[x] /\ f[x] \in Int
    BY <1>1, <1>4, <1>5, <2>1, <2>2
  <2>4. SumOf(f, T) = SumOf(added, T)
    BY <1>6, <2>3, SumSame
  <2>5. Capped(SumOf(added, T)) <= Capped(SumOf(added, Tellers))
    BY <1>7, CappedMonotone
  <2>6. Total(T, c) = Capped(SumOf(f, T))
    BY <1>3
  <2> QED
    BY <1>1, <2>4, <2>5, <2>6
<1>11. metrics[s][c] \in 0..MaxCount
  BY <1>1, <1>7, CappedIs
<1> QED
  BY <1>9, <1>10, <1>11

\* A counter that is accounted for has every event once.
LEMMA CountedOnce ==
  ASSUME AllAccounted, telling \in [Tellers -> Telling], TruthTyped(truth)
  PROVE  EachEventIsCountedOnce
<1> SUFFICES ASSUME NEW s \in Sinks, NEW c \in Counters
             PROVE  /\ metrics[s][c] <= Total(Tellers, c)
                    /\ (\A t \in Tellers : telling[t] = Silent) => metrics[s][c] = Total(Tellers, c)
  BY DEF EachEventIsCountedOnce
<1>1. Total(Tellers, c) = TotalIn(truth, Tellers, c)
  BY DEF TotalIn, Total, TruthOf, SumOf, Capped
<1>2. Total(Tellers, c) \in 0..MaxCount
  BY <1>1, TotalIs
<1>3. metrics[s][c] \in 0..MaxCount /\ metrics[s][c] <= Total(Tellers, c)
  BY CountersBetween
<1>4. (\A t \in Tellers : telling[t] = Silent) => Total(Tellers, c) <= metrics[s][c]
  BY CountersBetween
<1>5. MaxCount \in Nat
  BY MaxCountAssumption
<1> QED
  BY <1>2, <1>3, <1>4, <1>5

\* The invariant of the snapshot says that it is an interval.
LEMMA BetweenCounters ==
  ASSUME SnapshotIInv
  PROVE  SnapshotsAreIntervals
<1>1. CASE snapshot = NoSnapshot
  BY <1>1 DEF SnapshotsAreIntervals, Loaded, NoSnapshot
<1>2. CASE snapshot # NoSnapshot
  BY <1>2 DEF SnapshotsAreIntervals, SnapshotIInv
<1> QED
  BY <1>1, <1>2

\* A snapshot in progress stays right while counters and totals only grow.
LEMMA SnapshotKept ==
  ASSUME SnapshotIInv, snapshot' = snapshot,
         \A s \in Sinks, c \in Counters :
           /\ metrics[s][c] \in Int /\ metrics'[s][c] \in Int
           /\ metrics[s][c] <= metrics'[s][c],
         \A c \in Counters :
           /\ Total(Tellers, c) \in Int /\ Total(Tellers, c)' \in Int
           /\ Total(Tellers, c) <= Total(Tellers, c)'
  PROVE  SnapshotIInv'
<1>1. CASE snapshot = NoSnapshot
  <2>1. snapshot' = NoSnapshot
    BY <1>1
  <2> QED
    BY <2>1 DEF SnapshotIInv, NoSnapshot
<1>2. CASE snapshot # NoSnapshot
  <2>1. /\ snapshot.sink \in Sinks /\ Loaded \subseteq Counters
        /\ \A c \in Counters : /\ snapshot.before[c] \in Nat
                               /\ snapshot.before[c] <= metrics[snapshot.sink][c]
        /\ \A c \in Loaded : /\ snapshot.loaded[c] \in Nat
                             /\ snapshot.before[c] <= snapshot.loaded[c]
                             /\ snapshot.loaded[c] <= Total(Tellers, c)
    BY <1>2 DEF SnapshotIInv
  <2>2. Loaded' = Loaded
    BY DEF Loaded
  <2>3. ASSUME NEW c \in Counters PROVE snapshot.before[c] <= metrics'[snapshot.sink][c]
    <3>1. /\ metrics[snapshot.sink][c] \in Int /\ metrics'[snapshot.sink][c] \in Int
          /\ metrics[snapshot.sink][c] <= metrics'[snapshot.sink][c]
      BY <2>1
    <3>2. snapshot.before[c] \in Nat /\ snapshot.before[c] <= metrics[snapshot.sink][c]
      BY <2>1
    <3> QED
      BY ONLY <3>1, <3>2
  <2>4. ASSUME NEW c \in Loaded PROVE snapshot.loaded[c] <= Total(Tellers, c)'
    <3>1. /\ Total(Tellers, c) \in Int /\ Total(Tellers, c)' \in Int
          /\ Total(Tellers, c) <= Total(Tellers, c)'
      BY <2>1
    <3>2. snapshot.loaded[c] \in Nat /\ snapshot.loaded[c] <= Total(Tellers, c)
      BY <2>1
    <3> QED
      BY ONLY <3>1, <3>2
  <2>5. snapshot' = snapshot
    OBVIOUS
  <2> QED
    BY ONLY <2>1, <2>2, <2>3, <2>4, <2>5 DEF SnapshotIInv
<1> QED
  BY <1>1, <1>2

\* The parts of the invariant that say what the state is made of.
Typed ==
  /\ metrics \in [Sinks -> [Counters -> 0..MaxCount]]
  /\ telling \in [Tellers -> Telling]
  /\ TruthTyped(truth)

AttemptsInv ==
  /\ attempt \in [Attempt -> [phase : {"new", "running", "completed", "dropped"},
                              finished : BOOLEAN]]
  /\ \A a \in Attempt :
       attempt[a].finished = (attempt[a].phase \in {"completed", "dropped"})
  /\ \A a \in Attempt : attempt[a].phase \in {"new", "running"} => telling[a] = Silent

\* The parts of the invariant of the observability.
LEMMA InvariantParts ==
  ObservabilityIInv <=> /\ Typed /\ AttemptsInv /\ AllAccounted /\ SnapshotIInv
<1>1. ASSUME ObservabilityIInv PROVE Typed /\ AttemptsInv /\ AllAccounted /\ SnapshotIInv
  BY <1>1 DEF ObservabilityIInv, ObservabilityTypeOK, Typed, AttemptsInv, AllAccounted, TruthTyped
<1>2. ASSUME Typed, AttemptsInv, AllAccounted, SnapshotIInv PROVE ObservabilityIInv
  <2>1. \A t \in Tellers : telling[t].sink \in Sinks \cup {0}
    BY <1>2 DEF Typed, Telling, Silent
  <2>2. Loaded \subseteq Counters
    BY <1>2 DEF SnapshotIInv, Loaded, NoSnapshot
  <2>3. \A a \in Attempt : attempt[a].phase \in {"new", "running", "completed", "dropped"}
    BY <1>2 DEF AttemptsInv
  <2> QED
    BY <1>2, <2>1, <2>2, <2>3
    DEF ObservabilityIInv, ObservabilityTypeOK, Typed, AttemptsInv, AllAccounted, TruthTyped
<1> QED
  BY <1>1, <1>2

\* ... after a step.
LEMMA InvariantKept ==
  ASSUME Typed', AttemptsInv', AllAccounted', SnapshotIInv'
  PROVE  ObservabilityIInv'
<1>1. (ObservabilityIInv <=> Typed /\ AttemptsInv /\ AllAccounted /\ SnapshotIInv)'
  BY InvariantParts, PTL
<1> QED
  BY <1>1

\* An attempt that moves on, and its observer, keep the attempts as they should be.
LEMMA AttemptsKept ==
  ASSUME AttemptsInv, NEW a \in Attempt, NEW finished \in BOOLEAN,
         NEW phase \in {"new", "running", "completed", "dropped"},
         finished <=> phase \in {"completed", "dropped"},
         attempt' = [attempt EXCEPT ![a] = [phase |-> phase, finished |-> finished]],
         \A x \in Attempt \ {a} : telling'[x] = telling[x],
         phase \in {"new", "running"} => telling'[a] = Silent
  PROVE  AttemptsInv'
<1>1. /\ attempt'[a] = [phase |-> phase, finished |-> finished]
      /\ \A x \in Attempt \ {a} : attempt'[x] = attempt[x]
      /\ attempt' \in [Attempt -> [phase : {"new", "running", "completed", "dropped"},
                                   finished : BOOLEAN]]
  BY DEF AttemptsInv
<1>2. ASSUME NEW x \in Attempt
      PROVE  /\ attempt'[x].finished = (attempt'[x].phase \in {"completed", "dropped"})
             /\ attempt'[x].phase \in {"new", "running"} => telling'[x] = Silent
  <2>1. CASE x # a
    <3>1. attempt'[x] = attempt[x] /\ telling'[x] = telling[x]
      BY <1>1, <2>1
    <3> QED
      BY <3>1 DEF AttemptsInv
  <2>2. CASE x = a
    <3>1. attempt'[x].finished = finished /\ attempt'[x].phase = phase
      BY <1>1, <2>2
    <3>2. finished = (phase \in {"completed", "dropped"})
      OBVIOUS
    <3> QED
      BY <2>2, <3>1, <3>2
  <2> QED
    BY <2>1, <2>2
<1> QED
  BY <1>1, <1>2 DEF AttemptsInv

\* Before any event the invariant holds.
LEMMA ObservabilityInitInvariant ==
  ASSUME ObservabilityInit
  PROVE  ObservabilityIInv
<1>1. MaxCount \in Nat
  BY MaxCountAssumption
<1>2. Typed
  BY <1>1 DEF ObservabilityInit, Typed, Telling, TruthTyped
<1>3. AttemptsInv
  <2>1. Attempt \subseteq Tellers
    BY DEF Tellers
  <2>2. \A a \in Attempt : attempt[a] = [phase |-> "new", finished |-> FALSE]
                           /\ telling[a] = Silent
    BY <2>1 DEF ObservabilityInit
  <2>3. \A a \in Attempt : attempt[a].finished = FALSE /\ attempt[a].phase = "new"
    BY <2>2
  <2>4. attempt \in [Attempt -> [phase : {"new", "running", "completed", "dropped"},
                                 finished : BOOLEAN]]
    BY DEF ObservabilityInit
  <2>5. "new" \notin {"completed", "dropped"}
    OBVIOUS
  <2>6. ASSUME NEW a \in Attempt
        PROVE attempt[a].finished = (attempt[a].phase \in {"completed", "dropped"})
    <3>1. attempt[a].finished = FALSE /\ attempt[a].phase = "new"
      BY <2>3
    <3>2. (attempt[a].phase \in {"completed", "dropped"}) = FALSE
      BY <2>5, <3>1
    <3> QED
      BY <3>1, <3>2
  <2> QED
    BY <2>2, <2>4, <2>6 DEF AttemptsInv
<1>4. SnapshotIInv
  BY DEF ObservabilityInit, SnapshotIInv
<1> QED
  BY <1>2, <1>3, <1>4, InitiallyAccounted, InvariantParts

\* Totals are numbers.
LEMMA TotalsAreInt ==
  ASSUME TruthTyped(truth)
  PROVE  \A c \in Counters : \A T \in SUBSET Tellers : Total(T, c) \in 0..MaxCount
                                                      /\ Total(T, c) \in Nat
<1> SUFFICES ASSUME NEW c \in Counters, NEW T \in SUBSET Tellers
             PROVE  Total(T, c) \in 0..MaxCount /\ Total(T, c) \in Nat
  OBVIOUS
<1>1. Total(T, c) = TotalIn(truth, T, c)
  BY DEF TotalIn, Total, TruthOf, SumOf, Capped
<1>2. MaxCount \in Nat
  BY MaxCountAssumption
<1> QED
  BY <1>1, <1>2, TotalIs

\* One addition to one counter keeps the invariant.
LEMMA TellInvariant ==
  ASSUME ObservabilityIInv, NEW t \in Tellers, Tell(t)
  PROVE  ObservabilityIInv'
<1>1. Typed /\ AttemptsInv /\ AllAccounted /\ SnapshotIInv
  BY InvariantParts
<1>2. AllAccounted' /\ telling' \in [Tellers -> Telling]
      /\ metrics' \in [Sinks -> [Counters -> 0..MaxCount]]
      /\ \A s \in Sinks, c \in Counters : metrics[s][c] <= metrics'[s][c]
  BY <1>1, TellAccounted DEF Typed
<1>3. truth' = truth /\ attempt' = attempt /\ snapshot' = snapshot
  BY DEF Tell
<1>4. Typed'
  BY <1>1, <1>2, <1>3 DEF Typed, TruthTyped
<1>5. AttemptsInv'
  <2>1. telling[t] # Silent /\ telling' = [telling EXCEPT ![t] = Advanced(@)]
    BY DEF Tell
  <2>2. \A a \in Attempt : telling[a] = Silent => telling'[a] = Silent
    <3>1. Attempt \subseteq Tellers
      BY DEF Tellers
    <3> QED
      BY <1>1, <2>1, <3>1 DEF Typed
  <2> QED
    BY <1>1, <1>3, <2>2 DEF AttemptsInv
<1>6. SnapshotIInv'
  <2>1. MaxCount \in Nat
    BY MaxCountAssumption
  <2>2. \A s \in Sinks, c \in Counters : metrics[s][c] \in Int /\ metrics'[s][c] \in Int
    BY <1>1, <1>2, <2>1 DEF Typed
  <2>3. ASSUME NEW c \in Counters
        PROVE /\ Total(Tellers, c) \in Int /\ Total(Tellers, c)' \in Int
              /\ Total(Tellers, c) <= Total(Tellers, c)'
    <3>1. Total(Tellers, c) \in Nat
      BY <1>1, TotalsAreInt DEF Typed
    <3>2. Total(Tellers, c)' = Total(Tellers, c)
      BY <1>3 DEF Total
    <3> QED
      BY <3>1, <3>2
  <2> QED
    BY <1>1, <1>2, <1>3, <2>2, <2>3, SnapshotKept
<1> QED
  BY <1>2, <1>4, <1>5, <1>6, InvariantKept

\* An event that starts leaves everything but the attempts as it should be.
LEMMA EventInvariant ==
  ASSUME ObservabilityIInv, NEW t \in Tellers, telling[t] = Silent,
         NEW adds \in Recording, Observe(t, adds), Happened(t, adds),
         metrics' = metrics, snapshot' = snapshot, AttemptsInv'
  PROVE  ObservabilityIInv'
<1>1. Typed /\ AllAccounted /\ SnapshotIInv
  BY InvariantParts
<1>2. AllAccounted' /\ telling' \in [Tellers -> Telling] /\ TruthTyped(truth')
      /\ \A c \in Counters : Total(Tellers, c) <= Total(Tellers, c)'
  BY <1>1, EventAccounted DEF Typed
<1>3. Typed'
  BY <1>1, <1>2 DEF Typed, TruthTyped
<1>4. SnapshotIInv'
  <2>1. MaxCount \in Nat
    BY MaxCountAssumption
  <2>2. \A s \in Sinks, c \in Counters : /\ metrics[s][c] \in Int /\ metrics'[s][c] \in Int
                                         /\ metrics[s][c] <= metrics'[s][c]
    BY <1>1, <2>1 DEF Typed
  <2>3. ASSUME NEW c \in Counters
        PROVE  /\ Total(Tellers, c) \in Int /\ Total(Tellers, c)' \in Int
               /\ Total(Tellers, c) <= Total(Tellers, c)'
    <3>1. Total(Tellers, c) \in Nat
      BY <1>1, TotalsAreInt DEF Typed
    <3>2. Total(Tellers, c)' = TotalIn(truth', Tellers, c)
      BY DEF TotalIn, Total, TruthOf, SumOf, Capped
    <3>3. TotalIn(truth', Tellers, c) \in 0..MaxCount
      BY <1>2, TotalIs
    <3> QED
      BY <1>2, <2>1, <3>1, <3>2, <3>3
  <2> QED
    BY <1>1, <2>2, <2>3, SnapshotKept
<1> QED
  BY <1>2, <1>3, <1>4, InvariantKept

\* The least of some numbers is one of them.
LEMMA MinIs ==
  ASSUME NEW S \in SUBSET Nat, S # {}
  PROVE  Min(S) \in S /\ \A n \in S : Min(S) <= n
<1>1. PICK n \in S : \A m \in S : ~(<<m, n>> \in OpToRel(<, Nat))
  BY NatLessThanWellFounded, WFMin
<1>2. \A m \in S : ~(m < n)
  BY <1>1 DEF OpToRel
<1>3. \A m \in S : n <= m
  BY <1>2
<1> QED
  BY <1>3 DEF Min

\* The bucket of a duration is one of the histogram's.
LEMMA BucketIs ==
  ASSUME NEW elapsed \in Nat
  PROVE  BucketFor(elapsed) \in 1..(Len(Bounds) + 1)
<1> DEFINE S == {b \in DOMAIN Bounds : elapsed <= Bounds[b]} \cup {Len(Bounds) + 1}
<1>1. Len(Bounds) \in Nat /\ DOMAIN Bounds = 1..Len(Bounds)
  BY BoundsAssumption
<1>2. S \in SUBSET Nat /\ S # {} /\ S \subseteq 1..(Len(Bounds) + 1)
  BY <1>1
<1>3. Min(S) \in S
  <2> HIDE DEF S
  <2> QED
    BY <1>2, MinIs
<1> QED
  BY <1>2, <1>3 DEF BucketFor

\* The events the observers record.
LEMMA Recordings ==
  /\ \A kind \in {"success", "failure", "overloaded", "cancelled"} :
       \A elapsed \in Elapsed : RecordAttempt(kind, elapsed) \in Recording
  /\ \A kind \in DecisionKinds : RecordDecision(kind) \in Recording
  /\ RecordReadinessFailure \in Recording
<1>1. ASSUME NEW kind \in {"success", "failure", "overloaded", "cancelled"},
             NEW elapsed \in Elapsed
      PROVE  RecordAttempt(kind, elapsed) \in Recording
  <2>1. elapsed \in Nat
    BY ElapsedAssumption
  <2>2. Of(kind) \in Counters
    <3>1. PICK k \in DOMAIN AttemptKinds : AttemptKinds[k] = kind
      BY DEF AttemptKinds
    <3> QED
      BY <3>1 DEF Counters, Attempts
  <2>3. Bucket(BucketFor(elapsed)) \in Counters
    BY <2>1, BucketIs DEF Counters, Buckets
  <2>4. Micros \in Counters
    BY DEF Counters
  <2>5. /\ Add(Of(kind), 1) \in Additions
        /\ Add(Bucket(BucketFor(elapsed)), 1) \in Additions
        /\ Add(Micros, elapsed) \in Additions
    BY <2>1, <2>2, <2>3, <2>4 DEF Add, Additions
  <2> QED
    BY <2>5 DEF RecordAttempt, Recording
<1>2. ASSUME NEW kind \in DecisionKinds PROVE RecordDecision(kind) \in Recording
  <2>1. DecisionOf(kind) \in Counters
    BY DEF Counters, Decisions
  <2>2. Add(DecisionOf(kind), 1) \in Additions
    BY <2>1 DEF Add, Additions
  <2> QED
    BY <2>2 DEF RecordDecision, Recording
<1>3. RecordReadinessFailure \in Recording
  <2>1. Readiness \in Counters
    BY DEF Counters
  <2>2. Add(Readiness, 1) \in Additions
    BY <2>1 DEF Add, Additions
  <2> QED
    BY <2>2 DEF RecordReadinessFailure, Recording
<1> QED
  BY <1>1, <1>2, <1>3

\* A decision or a readiness failure keeps the invariant.
LEMMA NoticeInvariant ==
  ASSUME ObservabilityIInv, NEW t \in {"policy", "endpoint"}, NEW adds \in Recording,
         Notice(t, adds)
  PROVE  ObservabilityIInv'
<1>1. t \in Tellers /\ t \notin Attempt
  BY AttemptAssumption DEF Tellers
<1>2. AttemptsInv /\ Typed
  BY InvariantParts
<1>3. AttemptsInv'
  <2>1. \A a \in Attempt : telling'[a] = telling[a]
    BY <1>1, <1>2 DEF Notice, Observe, Typed, Tellers
  <2>2. attempt' = attempt
    BY DEF Notice
  <2> QED
    BY <1>2, <2>1, <2>2 DEF AttemptsInv
<1> QED
  BY <1>1, <1>3, EventInvariant DEF Notice

\* An attempt ends: whoever ends it first is observed.
LEMMA EndInvariant ==
  ASSUME ObservabilityIInv, NEW a \in Attempt, attempt[a].phase = "running",
         NEW kind \in {"success", "failure", "overloaded", "cancelled"},
         NEW phase \in {"completed", "dropped"},
         Finish(a, kind, phase), Happened(a, telling'[a].adds),
         metrics' = metrics, snapshot' = snapshot
  PROVE  ObservabilityIInv'
<1>1. Typed /\ AttemptsInv /\ a \in Tellers
  BY InvariantParts DEF Tellers
<1>2. attempt[a].finished = FALSE /\ telling[a] = Silent
  BY <1>1 DEF AttemptsInv
<1>3. PICK elapsed \in Elapsed : Observe(a, RecordAttempt(kind, elapsed))
  BY <1>2 DEF Finish
<1> DEFINE adds == RecordAttempt(kind, elapsed)
<1>4. adds \in Recording
  BY Recordings
<1>5. telling'[a].adds = adds
  <2> HIDE DEF adds
  <2>1. telling' = [telling EXCEPT ![a] = [sink |-> 1, adds |-> adds, left |-> adds]]
    BY <1>3 DEF Observe, adds
  <2> QED
    BY <1>1, <2>1 DEF Typed
<1>6. attempt' = [attempt EXCEPT ![a] = [phase |-> phase, finished |-> TRUE]]
  BY DEF Finish
<1>7. AttemptsInv'
  <2>1. \A x \in Attempt \ {a} : telling'[x] = telling[x]
    BY <1>1, <1>3 DEF Observe, Typed, Tellers
  <2> QED
    BY <1>1, <1>6, <2>1, AttemptsKept
<1> HIDE DEF adds
<1> QED
  BY <1>1, <1>2, <1>3, <1>4, <1>5, <1>7, EventInvariant DEF adds

\* What a sequence of sets has in all.
Covered(s) == UNION {s[n] : n \in DOMAIN s}

\* What two sequences of sets cover.
LEMMA CoveredConcat ==
  ASSUME NEW S, NEW s \in Seq(S), NEW t \in Seq(S)
  PROVE  s \o t \in Seq(S) /\ Covered(s \o t) = Covered(s) \cup Covered(t)
<1> DEFINE u == s \o t
           m == Len(s)
           n == Len(t)
<1>1. /\ u \in Seq(S) /\ m \in Nat /\ n \in Nat
      /\ DOMAIN s = 1..m /\ DOMAIN t = 1..n /\ DOMAIN u = 1..(m + n)
      /\ \A i \in 1..m : u[i] = s[i]
      /\ \A i \in 1..n : u[m + i] = t[i]
  OBVIOUS
<1>2. \A i \in 1..(m + n) : i \in 1..m \/ (i - m \in 1..n /\ m + (i - m) = i)
  <2> HIDE DEF m, n
  <2> QED
    BY <1>1
<1>3. \A i \in 1..m : i \in 1..(m + n)
  <2> HIDE DEF m, n
  <2> QED
    BY <1>1
<1>4. \A i \in 1..n : m + i \in 1..(m + n)
  <2> HIDE DEF m, n
  <2> QED
    BY <1>1
<1> HIDE DEF u, m, n
<1>5. Covered(u) \subseteq Covered(s) \cup Covered(t)
  <2> SUFFICES ASSUME NEW i \in DOMAIN u PROVE u[i] \subseteq Covered(s) \cup Covered(t)
    BY DEF Covered
  <2>1. CASE i \in 1..m
    BY <1>1, <2>1 DEF Covered
  <2>2. CASE i - m \in 1..n /\ m + (i - m) = i
    BY <1>1, <2>2 DEF Covered
  <2> QED
    BY <1>1, <1>2, <2>1, <2>2
<1>6. Covered(s) \subseteq Covered(u)
  BY <1>1, <1>3 DEF Covered
<1>7. Covered(t) \subseteq Covered(u)
  BY <1>1, <1>4 DEF Covered
<1> QED
  BY <1>1, <1>5, <1>6, <1>7 DEF u

\* A snapshot loads every counter and nothing else.
LEMMA LoadsAreCounters ==
  /\ Loads \in Seq(SUBSET Counters)
  /\ Covered(Loads) = Counters
<1> DEFINE S == SUBSET Counters
           a == <<Decisions>>
           b == [k \in DOMAIN AttemptKinds |-> {Of(AttemptKinds[k])}]
           c == [x \in 1..(Len(Bounds) + 1) |-> {Bucket(x)}]
           d == <<{Readiness}, {Micros}>>
<1>1. a \in Seq(S) /\ Covered(a) = Decisions
  <2>1. Decisions \subseteq Counters
    BY DEF Counters
  <2> HIDE DEF S
  <2>2. Decisions \in S
    BY <2>1 DEF S
  <2> QED
    BY <2>2 DEF Covered
<1>2. b \in Seq(S) /\ Covered(b) = Attempts
  <2>1. DOMAIN AttemptKinds = 1..4
    BY DEF AttemptKinds
  <2>2. \A k \in 1..4 : {Of(AttemptKinds[k])} \in S
    BY <2>1 DEF Counters, Attempts
  <2>3. b = [k \in 1..4 |-> {Of(AttemptKinds[k])}]
    BY <2>1
  <2>4. b \in Seq(S)
    <3> HIDE DEF S, b
    <3> QED
      BY <2>2, <2>3
  <2> QED
    BY <2>1, <2>4 DEF Covered, Attempts
<1>3. c \in Seq(S) /\ Covered(c) = Buckets
  <2>1. Len(Bounds) + 1 \in Nat
    BY BoundsAssumption
  <2>2. \A k \in 1..(Len(Bounds) + 1) : {Bucket(k)} \in S
    BY DEF Counters, Buckets
  <2>3. c \in Seq(S)
    <3> DEFINE n == Len(Bounds) + 1
    <3> HIDE DEF S, n
    <3> QED
      BY <2>1, <2>2 DEF n
  <2> QED
    BY <2>3 DEF Covered, Buckets
<1>4. d \in Seq(S) /\ Covered(d) = {Micros, Readiness}
  <2>1. {Readiness} \in S /\ {Micros} \in S
    BY DEF Counters
  <2>2. d \in Seq(S)
    <3> HIDE DEF S
    <3> QED
      BY <2>1
  <2>3. DOMAIN d = {1, 2} /\ d[1] = {Readiness} /\ d[2] = {Micros}
    OBVIOUS
  <2> HIDE DEF d
  <2> QED
    BY <2>2, <2>3 DEF Covered
<1>5. Loads = ((a \o b) \o c) \o d
  BY DEF Loads
<1> HIDE DEF a, b, c, d, S
<1>6. a \o b \in Seq(S) /\ Covered(a \o b) = Decisions \cup Attempts
  BY <1>1, <1>2, CoveredConcat
<1> DEFINE ab == a \o b
           abc == ab \o c
<1>7. abc \in Seq(S) /\ Covered(abc) = (Decisions \cup Attempts) \cup Buckets
  <2> HIDE DEF ab
  <2>1. ab \in Seq(S) /\ Covered(ab) = Decisions \cup Attempts
    BY <1>6 DEF ab
  <2>2. abc \in Seq(S) /\ Covered(abc) = Covered(ab) \cup Covered(c)
    BY <1>3, <2>1, CoveredConcat
  <2> QED
    BY <1>3, <2>1, <2>2
<1>8. /\ abc \o d \in Seq(S)
      /\ Covered(abc \o d) = ((Decisions \cup Attempts) \cup Buckets) \cup {Micros, Readiness}
  <2> HIDE DEF ab, abc
  <2>1. abc \o d \in Seq(S) /\ Covered(abc \o d) = Covered(abc) \cup Covered(d)
    BY <1>4, <1>7, CoveredConcat
  <2> QED
    BY <1>4, <1>7, <2>1
<1>9. Loads = abc \o d
  BY <1>5
<1> HIDE DEF ab, abc
<1> QED
  BY <1>8, <1>9 DEF Counters, S

\* The account depends on the counters and the events alone.
LEMMA AccountedKept ==
  ASSUME AllAccounted, metrics' = metrics, telling' = telling, truth' = truth
  PROVE  AllAccounted'
BY DEF AllAccounted, Accounted

\* Beginning a snapshot keeps the invariant.
LEMMA TakeSnapshotInvariant ==
  ASSUME ObservabilityIInv, NEW s \in Sinks, TakeSnapshot(s)
  PROVE  ObservabilityIInv'
<1>1. Typed /\ AttemptsInv /\ AllAccounted
  BY InvariantParts
<1> DEFINE recorded == {t \in Tellers : telling[t] = Silent}
<1>2. snapshot' = [sink |-> s, loaded |-> NoSnapshot.loaded,
                   before |-> [c \in Counters |-> Total(recorded, c)]]
      /\ metrics' = metrics /\ telling' = telling /\ attempt' = attempt /\ truth' = truth
  BY DEF TakeSnapshot
<1>3. ASSUME NEW c \in Counters
      PROVE  Total(recorded, c) \in Nat /\ Total(recorded, c) <= metrics[s][c]
  BY <1>1, TotalsAreInt, CountersBetween DEF Typed
<1>4. SnapshotIInv'
  <2>1. snapshot'.sink \in Sinks
    BY <1>2
  <2>2. Loaded' = {}
    BY <1>2 DEF Loaded, NoSnapshot
  <2>3. \A c \in Counters : snapshot'.before[c] = Total(recorded, c)
    <3> HIDE DEF recorded
    <3> QED
      BY <1>2
  <2>4. \A c \in Counters : /\ snapshot'.before[c] \in Nat
                            /\ snapshot'.before[c] <= metrics'[snapshot'.sink][c]
    <3> HIDE DEF recorded
    <3> QED
      BY <1>2, <1>3, <2>3
  <2> QED
    BY ONLY <2>1, <2>2, <2>4 DEF SnapshotIInv
<1>5. Typed' /\ AttemptsInv'
  BY <1>1, <1>2 DEF Typed, AttemptsInv, TruthTyped
<1>6. AllAccounted'
  <2>1. metrics' = metrics /\ telling' = telling /\ truth' = truth
    BY <1>2
  <2> QED
    BY <1>1, <2>1, AccountedKept
<1> QED
  BY <1>4, <1>5, <1>6, InvariantKept

\* Loading a counter keeps the invariant.
LEMMA LoadInvariant ==
  ASSUME ObservabilityIInv, Load
  PROVE  ObservabilityIInv'
<1>1. Typed /\ AttemptsInv /\ AllAccounted /\ SnapshotIInv
  BY InvariantParts
<1>2. /\ snapshot.sink \in Sinks /\ Loaded \subseteq Counters
      /\ \A c \in Counters : /\ snapshot.before[c] \in Nat
                             /\ snapshot.before[c] <= metrics[snapshot.sink][c]
      /\ \A c \in Loaded : /\ snapshot.loaded[c] \in Nat
                           /\ snapshot.before[c] <= snapshot.loaded[c]
                           /\ snapshot.loaded[c] <= Total(Tellers, c)
  BY <1>1 DEF Load, SnapshotIInv
<1> DEFINE N == {n \in DOMAIN Loads : ~(Loads[n] \subseteq Loaded)}
           next == Loads[Min(N)]
<1>3. next \subseteq Counters
  <2>1. Loads \in Seq(SUBSET Counters) /\ Covered(Loads) = Counters
    BY LoadsAreCounters
  <2>2. PICK c \in Counters : c \notin Loaded
    BY <1>2 DEF Load
  <2>3. PICK n \in DOMAIN Loads : c \in Loads[n]
    BY <2>1, <2>2 DEF Covered
  <2>4. N # {} /\ N \subseteq Nat
    BY <2>1, <2>2, <2>3
  <2>5. Min(N) \in N
    <3> HIDE DEF N
    <3> QED
      BY <2>4, MinIs
  <2>6. Min(N) \in DOMAIN Loads
    <3>1. N \subseteq DOMAIN Loads
      OBVIOUS
    <3> HIDE DEF N
    <3> QED
      BY <2>5, <3>1
  <2> HIDE DEF N
  <2> QED
    BY <2>1, <2>6
<1>4. snapshot' = [sink |-> snapshot.sink, before |-> snapshot.before,
                   loaded |-> [c \in Loaded \cup next |->
                                 IF c \in next THEN metrics[snapshot.sink][c]
                                               ELSE snapshot.loaded[c]]]
      /\ metrics' = metrics /\ telling' = telling /\ attempt' = attempt /\ truth' = truth
  BY DEF Load
<1> HIDE DEF next
<1>5. /\ snapshot'.sink = snapshot.sink /\ snapshot'.before = snapshot.before
      /\ Loaded' = Loaded \cup next
      /\ \A c \in Loaded \cup next :
           snapshot'.loaded[c] = IF c \in next THEN metrics[snapshot.sink][c]
                                 ELSE snapshot.loaded[c]
  BY <1>4 DEF Loaded
<1>6. ASSUME NEW c \in Counters
      PROVE  metrics[snapshot.sink][c] \in Nat /\ metrics[snapshot.sink][c] <= Total(Tellers, c)
  <2>1. MaxCount \in Nat
    BY MaxCountAssumption
  <2>2. metrics[snapshot.sink][c] \in 0..MaxCount
        /\ metrics[snapshot.sink][c] <= Total(Tellers, c)
    BY <1>1, <1>2, CountersBetween DEF Typed
  <2> QED
    BY <2>1, <2>2
<1>7. SnapshotIInv'
  <2>1. \A c \in Counters : Total(Tellers, c)' = Total(Tellers, c)
    BY <1>4 DEF Total
  <2>2. ASSUME NEW c \in Loaded \cup next
        PROVE  /\ snapshot'.loaded[c] \in Nat
               /\ snapshot'.before[c] <= snapshot'.loaded[c]
               /\ snapshot'.loaded[c] <= Total(Tellers, c)'
    <3>1. c \in Counters
      BY <1>2, <1>3
    <3>2. Total(Tellers, c)' = Total(Tellers, c)
      BY <2>1, <3>1
    <3>3. CASE c \in next
      <4>1. snapshot'.loaded[c] = metrics[snapshot.sink][c]
        BY <1>5, <3>3
      <4>2. snapshot'.before[c] <= metrics[snapshot.sink][c]
        BY <1>2, <1>5, <3>1
      <4> QED
        BY <1>6, <3>1, <3>2, <4>1, <4>2
    <3>4. CASE c \notin next
      <4>1. c \in Loaded /\ snapshot'.loaded[c] = snapshot.loaded[c]
        BY <1>5, <3>4
      <4> QED
        BY <1>2, <1>5, <3>2, <4>1
    <3> QED
      BY <3>3, <3>4
  <2>3. snapshot'.sink \in Sinks /\ Loaded' \subseteq Counters
    BY <1>2, <1>3, <1>5
  <2>4. \A c \in Counters : /\ snapshot'.before[c] \in Nat
                            /\ snapshot'.before[c] <= metrics'[snapshot'.sink][c]
    BY <1>2, <1>4, <1>5
  <2>5. Loaded' = Loaded \cup next
    BY <1>5
  <2> QED
    BY ONLY <2>2, <2>3, <2>4, <2>5 DEF SnapshotIInv
<1>8. Typed' /\ AttemptsInv'
  BY <1>1, <1>4 DEF Typed, AttemptsInv, TruthTyped
<1>9. AllAccounted'
  BY <1>1, <1>4, AccountedKept
<1> QED
  BY <1>7, <1>8, <1>9, InvariantKept

\* Beginning, completing and dropping an attempt keep the invariant.
LEMMA AttemptInvariant ==
  ASSUME ObservabilityIInv, NEW a \in Attempt, Begin(a) \/ Complete(a) \/ Drop(a)
  PROVE  ObservabilityIInv'
<1>1. Typed /\ AttemptsInv /\ AllAccounted /\ SnapshotIInv
  BY InvariantParts
<1>2. ASSUME metrics' = metrics, telling' = telling, truth' = truth, snapshot' = snapshot,
             AttemptsInv'
      PROVE  ObservabilityIInv'
  <2>1. Typed'
    BY <1>1, <1>2 DEF Typed, TruthTyped
  <2>2. AllAccounted'
    BY <1>1, <1>2, AccountedKept
  <2>3. SnapshotIInv'
    BY <1>1, <1>2 DEF SnapshotIInv, Loaded, Total
  <2> QED
    BY <1>2, <2>1, <2>2, <2>3, InvariantKept
<1>3. CASE Begin(a)
  <2>1. /\ attempt[a].phase = "new" /\ attempt' = [attempt EXCEPT ![a].phase = "running"]
        /\ metrics' = metrics /\ telling' = telling /\ truth' = truth /\ snapshot' = snapshot
    BY <1>3 DEF Begin
  <2>2. attempt[a].finished = FALSE /\ telling[a] = Silent
    BY <1>1, <2>1 DEF AttemptsInv
  <2>3. attempt[a] \in [phase : {"new", "running", "completed", "dropped"}, finished : BOOLEAN]
    BY <1>1 DEF AttemptsInv
  <2>4. attempt' = [attempt EXCEPT ![a] = [phase |-> "running", finished |-> FALSE]]
    <3> DEFINE r == attempt[a]
    <3>1. r = [phase |-> r.phase, finished |-> r.finished]
      BY <2>3
    <3>2. [r EXCEPT !.phase = "running"] = [phase |-> "running", finished |-> r.finished]
      BY <3>1
    <3> QED
      BY <2>1, <2>2, <3>2
  <2>5. AttemptsInv'
    BY <1>1, <2>1, <2>2, <2>4, AttemptsKept
  <2> QED
    BY <1>2, <2>1, <2>5
<1>4. CASE Complete(a)
  <2>1. PICK kind \in Verdict : Finish(a, kind, "completed")
    BY <1>4 DEF Complete
  <2>2. kind \in {"success", "failure", "overloaded", "cancelled"}
    BY VerdictAssumption
  <2> QED
    BY <1>4, <2>1, <2>2, EndInvariant DEF Complete
<1>5. CASE Drop(a) /\ attempt[a].phase = "running"
  BY <1>5, EndInvariant DEF Drop
<1>6. CASE Drop(a) /\ attempt[a].phase = "completed"
  <2>1. attempt[a].finished = TRUE
    BY <1>1, <1>6 DEF AttemptsInv
  <2>2. /\ attempt' = [attempt EXCEPT ![a] = [phase |-> "dropped", finished |-> TRUE]]
        /\ metrics' = metrics /\ telling' = telling /\ truth' = truth /\ snapshot' = snapshot
    BY <1>6, <2>1 DEF Drop, Finish
  <2>3. AttemptsInv'
    BY <1>1, <2>2, AttemptsKept
  <2> QED
    BY <1>2, <2>2, <2>3
<1> QED
  BY <1>3, <1>4, <1>5, <1>6 DEF Drop

\* A strict order of some, as a relation.
Orders(R, S) ==
  /\ \A i, j \in S : i # j => (<<i, j>> \in R \/ <<j, i>> \in R)
  /\ \A i, j, k \in S : <<i, j>> \in R /\ <<j, k>> \in R => <<i, k>> \in R
  /\ \A i \in S : <<i, i>> \notin R

\* Finitely many have a first in every order, and only one.
LEMMA FirstOf ==
  ASSUME NEW S, IsFiniteSet(S), S # {}, NEW R, Orders(R, S)
  PROVE  \E m \in S : \A j \in S \ {m} : <<m, j>> \in R
<1> DEFINE P == {t \in SUBSET S : t # {} => \E m \in t : \A j \in t \ {m} : <<m, j>> \in R}
<1>1. {} \in P
  OBVIOUS
<1>2. ASSUME NEW t \in SUBSET S, t # {}, \A x \in t : t \ {x} \in P
      PROVE  t \in P
  <2>1. PICK x \in t : TRUE
    BY <1>2
  <2>2. CASE t \ {x} = {}
    BY <2>1, <2>2
  <2>3. CASE t \ {x} # {}
    <3>1. PICK m \in t \ {x} : \A j \in (t \ {x}) \ {m} : <<m, j>> \in R
      BY <1>2, <2>1, <2>3
    <3>2. <<x, m>> \in R \/ <<m, x>> \in R
      BY <2>1, <3>1 DEF Orders
    <3>3. CASE <<m, x>> \in R
      BY <3>1, <3>3
    <3>4. CASE <<x, m>> \in R
      <4>1. \A j \in t \ {x} : <<x, j>> \in R
        BY <2>1, <3>1, <3>4 DEF Orders
      <4> QED
        BY <2>1, <4>1
    <3> QED
      BY <3>2, <3>3, <3>4
  <2> QED
    BY <2>2, <2>3
<1>3. P = SUBSET S
  <2> HIDE DEF P
  <2>1. P \in SUBSET (SUBSET S)
    BY DEF P
  <2>2. IsFiniteSet(S)
    OBVIOUS
  <2> QED
    BY ONLY <1>1, <1>2, <2>1, <2>2, SubsetInduction
<1> QED
  BY <1>3

\* Slices, and the sums over them.
IsSlice(slice) ==
  /\ Len(slice) \in Nat /\ Len(slice) <= MaxU64
  /\ DOMAIN slice = 1..Len(slice)
  /\ slice \in Seq({slice[i] : i \in DOMAIN slice})
  /\ \A i \in DOMAIN slice : IsCandidate(slice[i])

\* The slices of the application are slices.
LEMMA SlicesAreSlices ==
  ASSUME NEW p \in Policies, NEW slice \in Slices[p.inputs]
  PROVE  IsSlice(slice)
<1>1. p.inputs \in DOMAIN Slices
  BY PoliciesAssumption
<1>2. /\ slice \in Seq({slice[i] : i \in DOMAIN slice}) /\ Len(slice) <= MaxU64
      /\ \A i \in DOMAIN slice : IsCandidate(slice[i])
  BY <1>1, SlicesAssumption
<1> DEFINE V == {slice[i] : i \in DOMAIN slice}
<1>3. Len(slice) \in Nat /\ DOMAIN slice = 1..Len(slice)
  <2>1. slice \in Seq(V)
    BY <1>2
  <2> HIDE DEF V
  <2> QED
    BY <2>1
<1> QED
  BY <1>2, <1>3 DEF IsSlice

\* The types of a candidate.
LEMMA CandidateIs ==
  ASSUME NEW slice, IsSlice(slice), NEW i \in DOMAIN slice
  PROVE  /\ i \in Nat /\ i # 0 /\ i \in 1..Len(slice)
         /\ slice[i].id \in Id /\ slice[i].weight \in Nat \ {0} /\ slice[i].load \in Nat
         /\ slice[i].status \in Statuses /\ slice[i].healthy \in BOOLEAN
         /\ slice[i].priority \in Nat /\ slice[i].allow_in_panic \in BOOLEAN
         /\ slice[i].locality \in Nat /\ slice[i].locality_weight \in Nat \ {0}
<1>1. MaxU64 \in Nat
  BY MaxU64Assumption
<1>2. IsCandidate(slice[i]) /\ i \in 1..Len(slice)
  BY DEF IsSlice
<1> QED
  BY <1>1, <1>2 DEF IsCandidate, IsBackend, IsHealthChecked, IsPrioritized, IsLocalized

\* The eligible candidates are finitely many.
LEMMA EligibleIs ==
  ASSUME NEW slice, IsSlice(slice)
  PROVE  /\ IsFiniteSet(DOMAIN slice)
         /\ IsFiniteSet(Eligible(slice)) /\ Eligible(slice) \subseteq DOMAIN slice
         /\ (slice = <<>> <=> DOMAIN slice = {})
<1>1. DOMAIN slice = 1..Len(slice) /\ Len(slice) \in Nat
  BY DEF IsSlice
<1>2. IsFiniteSet(DOMAIN slice)
  BY <1>1, FS_Interval
<1>3. Eligible(slice) \subseteq DOMAIN slice
  BY DEF Eligible
<1>4. slice = <<>> <=> DOMAIN slice = {}
  <2> DEFINE V == {slice[i] : i \in DOMAIN slice}
  <2>1. slice \in Seq(V)
    BY DEF IsSlice
  <2>2. slice = <<>> <=> Len(slice) = 0
    <3> HIDE DEF V
    <3> QED
      BY <2>1
  <2> QED
    BY <1>1, <2>2
<1> QED
  BY <1>2, <1>3, <1>4, FS_Subset

WeightsOf(slice) == [i \in DOMAIN slice |-> slice[i].weight]
LoadsOf(slice) == [i \in DOMAIN slice |-> slice[i].load]

\* The total weight of some candidates, as a sum.
LEMMA TotalWeightIs ==
  ASSUME NEW slice, IsSlice(slice), NEW S \in SUBSET DOMAIN slice
  PROVE  /\ TotalWeight(slice, S) = SumOf(WeightsOf(slice), S)
         /\ TotalWeight(slice, S) \in Nat /\ IsFiniteSet(S)
         /\ \A i \in S : WeightsOf(slice)[i] = slice[i].weight
                         /\ slice[i].weight \in Nat \ {0}
                         /\ slice[i].weight <= TotalWeight(slice, S)
<1> DEFINE f == WeightsOf(slice)
<1>1. ASSUME NEW g
      PROVE  [t \in SUBSET S |-> IF t = {} THEN 0
                ELSE LET x == CHOOSE y \in t : TRUE IN slice[x].weight + g[t \ {x}]]
             = [t \in SUBSET S |-> StepOf(FALSE, f, t, g)]
  BY DEF StepOf, WeightsOf
<1>4. \A i \in S : f[i] = slice[i].weight /\ slice[i].weight \in Nat \ {0}
  BY CandidateIs DEF WeightsOf
<1>5. IsFiniteSet(S)
  BY EligibleIs, FS_Subset
<1> HIDE DEF f
<1>6. TotalWeight(slice, S) = SumOf(f, S)
  BY <1>1, SumUnfold DEF TotalWeight, MapThenSumSet, MapThenFoldSet, Iteration, Recursion
<1>7. SumOf(f, S) \in Nat /\ \A i \in S : f[i] <= SumOf(f, S)
  BY <1>4, <1>5, SumParts
<1> QED
  BY <1>4, <1>5, <1>6, <1>7 DEF f

\* The total load of some candidates, as a sum.
LEMMA TotalLoadIs ==
  ASSUME NEW slice, IsSlice(slice), NEW S \in SUBSET DOMAIN slice
  PROVE  /\ TotalLoad(slice, S) = SumOf(LoadsOf(slice), S)
         /\ TotalLoad(slice, S) \in Nat /\ IsFiniteSet(S)
         /\ \A i \in S : LoadsOf(slice)[i] = slice[i].load /\ slice[i].load \in Nat
<1> DEFINE f == LoadsOf(slice)
<1>1. ASSUME NEW g
      PROVE  [t \in SUBSET S |-> IF t = {} THEN 0
                ELSE LET x == CHOOSE y \in t : TRUE IN slice[x].load + g[t \ {x}]]
             = [t \in SUBSET S |-> StepOf(FALSE, f, t, g)]
  BY DEF StepOf, LoadsOf
<1>4. \A i \in S : f[i] = slice[i].load /\ slice[i].load \in Nat
  BY CandidateIs DEF LoadsOf
<1>5. IsFiniteSet(S)
  BY EligibleIs, FS_Subset
<1> HIDE DEF f
<1>6. TotalLoad(slice, S) = SumOf(f, S)
  BY <1>1, SumUnfold DEF TotalLoad, MapThenSumSet, MapThenFoldSet, Iteration, Recursion
<1>7. SumOf(f, S) \in Nat
  BY <1>4, <1>5, SumParts
<1> QED
  BY <1>4, <1>5, <1>6, <1>7 DEF f

\* The first of some in a numbering of them.
LEMMA LeastOf ==
  ASSUME NEW S, S # {}, NEW f, \A i \in S : f[i] \in Nat
  PROVE  \E i \in S : \A j \in S : f[i] <= f[j]
<1> DEFINE V == {f[i] : i \in S}
<1>1. V \in SUBSET Nat /\ V # {}
  OBVIOUS
<1>2. Min(V) \in V /\ \A n \in V : Min(V) <= n
  <2> HIDE DEF V
  <2> QED
    BY <1>1, MinIs
<1>3. PICK i \in S : f[i] = Min(V)
  BY <1>2
<1>4. \A j \in S : Min(V) <= f[j]
  BY <1>2
<1> HIDE DEF V
<1> QED
  BY <1>3, <1>4

\* Nobody to select, and one selected of some.
Nobody(slice, r) == r = Failed(NoCandidateError(slice))

OneOf(S, r) == \E i \in S : r = Selected(i)

\* Round robin takes the nearest candidate past the cursor.
LEMMA AdvanceIs ==
  ASSUME NEW slice, IsSlice(slice), NEW from \in Nat, NEW S \in SUBSET DOMAIN slice
  PROVE  LET o == Advance(slice, from, S)
         IN  /\ S = {} => Nobody(slice, o.result) /\ o.cursor = from
             /\ S # {} => \E i \in S : /\ o.result = Selected(i) /\ o.cursor = i
                                       /\ i = FirstFrom(slice, from, S)
                                       /\ \A j \in S : Distance(slice, from, i)
                                                         <= Distance(slice, from, j)
<1> DEFINE o == Advance(slice, from, S)
<1>1. CASE S = {}
  BY <1>1 DEF Advance, Nobody
<1>2. CASE S # {}
  <2> DEFINE f == [i \in S |-> Distance(slice, from, i)]
  <2>1. ASSUME NEW i \in S PROVE f[i] \in Nat
    <3>1. i \in Nat /\ i \in 1..Len(slice) /\ Len(slice) \in Nat
      BY CandidateIs DEF IsSlice
    <3>2. f[i] = (i - 1 - from) % Len(slice)
      BY DEF Distance
    <3>3. Len(slice) \in Nat \ {0} /\ i - 1 - from \in Int
      BY <3>1
    <3> DEFINE a == i - 1 - from
               b == Len(slice)
    <3> HIDE DEF a, b
    <3> QED
      BY <3>2, <3>3 DEF a, b
  <2>2. \E i \in S : \A j \in S : f[i] <= f[j]
    <3> HIDE DEF f
    <3> QED
      BY <1>2, <2>1, LeastOf
  <2>3. \E i \in S : \A j \in S : Distance(slice, from, i) <= Distance(slice, from, j)
    BY <2>2
  <2>4. /\ FirstFrom(slice, from, S) \in S
        /\ \A j \in S : Distance(slice, from, FirstFrom(slice, from, S))
                          <= Distance(slice, from, j)
    BY <2>3 DEF FirstFrom
  <2>5. /\ o.result = Selected(FirstFrom(slice, from, S))
        /\ o.cursor = FirstFrom(slice, from, S)
    BY <1>2 DEF Advance
  <2> QED
    BY <1>2, <2>4, <2>5
<1> QED
  BY <1>1, <1>2

\* Some candidate has the least load, if there is any.
LEMMA LeastLoadedIs ==
  ASSUME NEW slice, IsSlice(slice)
  PROVE  /\ LeastLoadedOf(slice) \subseteq Eligible(slice)
         /\ LeastLoadedOf(slice) = {} <=> Eligible(slice) = {}
<1> DEFINE E == Eligible(slice)
           f == LoadsOf(slice)
<1>1. CASE E # {}
  <2>1. \A i \in E : f[i] \in Nat /\ f[i] = slice[i].load
    BY EligibleIs, TotalLoadIs
  <2>2. \E i \in E : \A j \in E : f[i] <= f[j]
    <3> HIDE DEF f, E
    <3> QED
      BY <1>1, <2>1, LeastOf
  <2> HIDE DEF f
  <2> QED
    BY <1>1, <2>1, <2>2 DEF LeastLoadedOf
<1> QED
  BY <1>1 DEF LeastLoadedOf

\* What a draw returns.
LEMMA DrawIs ==
  ASSUME NEW slice, NEW S, NEW r \in Draw(slice, S)
  PROVE  /\ S = {} => Nobody(slice, r)
         /\ S # {} => OneOf(S, r)
BY DEF Draw, Nobody, OneOf

\* What two choices return.
LEMMA PowerOfTwoIs ==
  ASSUME NEW slice, IsSlice(slice), NEW r \in PowerOfTwoChoices(slice)
  PROVE  LET E == Eligible(slice)
             S == {i \in E : \/ E = {i}
                             \/ \E j \in E \ {i} : slice[i].load <= slice[j].load}
         IN  /\ E = {} => Nobody(slice, r)
             /\ E # {} => OneOf(S, r)
<1> DEFINE E == Eligible(slice)
           S == {i \in E : \/ E = {i}
                           \/ \E j \in E \ {i} : slice[i].load <= slice[j].load}
<1>1. E # {} => S # {}
  <2> SUFFICES ASSUME E # {} PROVE S # {}
    OBVIOUS
  <2>1. PICK i \in LeastLoadedOf(slice) : TRUE
    BY LeastLoadedIs
  <2>2. i \in E /\ \A j \in E : slice[i].load <= slice[j].load
    BY <2>1 DEF LeastLoadedOf
  <2>3. E = {i} \/ \E j \in E \ {i} : TRUE
    BY <2>2
  <2> HIDE DEF E
  <2> QED
    BY <2>2, <2>3
<1>2. r \in Draw(slice, S)
  BY DEF PowerOfTwoChoices
<1>3. E = {} => S = {}
  OBVIOUS
<1> HIDE DEF S, E
<1> QED
  BY <1>1, <1>2, <1>3, DrawIs DEF E, S

-----------------------------------------------------------------------------

\* The states smooth weighted round robin keeps between decisions.
SmoothOK(m) ==
  /\ DOMAIN m.states \subseteq Id
  /\ \A id \in DOMAIN m.states : /\ m.states[id].current \in Int
                                 /\ m.states[id].seen_in \in 0..m.epoch
  /\ m.epoch \in 0..MaxEpoch
  /\ m = [states |-> m.states, epoch |-> m.epoch]

\* Every decision has an epoch later than any state, and none is epoch 0.
LEMMA NextEpochIs ==
  ASSUME NEW m, SmoothOK(m)
  PROVE  LET next == NextEpoch(m)
         IN  /\ next = [states |-> next.states, epoch |-> next.epoch]
             /\ next.epoch \in 1..MaxEpoch
             /\ DOMAIN next.states \subseteq Id
             /\ \A id \in DOMAIN next.states : /\ next.states[id].current \in Int
                                               /\ next.states[id].seen_in \in 0..(next.epoch - 1)
             /\ next.states = IF m.epoch = MaxEpoch THEN NoStates ELSE m.states
             /\ next.epoch = IF m.epoch = MaxEpoch THEN 1 ELSE m.epoch + 1
<1>1. MaxEpoch \in Nat \ {0, 1}
  BY MaxEpochAssumption
<1>2. CASE m.epoch = MaxEpoch
  <2>1. NextEpoch(m) = [states |-> NoStates, epoch |-> 1] /\ DOMAIN NoStates = {}
    BY <1>2 DEF NextEpoch, NoStates
  <2> QED
    BY <1>1, <1>2, <2>1
<1>3. CASE m.epoch # MaxEpoch
  <2>1. NextEpoch(m) = [states |-> m.states, epoch |-> m.epoch + 1]
    <3>1. NextEpoch(m) = [m EXCEPT !.epoch = @ + 1]
      BY <1>3 DEF NextEpoch
    <3>2. m = [states |-> m.states, epoch |-> m.epoch]
      BY DEF SmoothOK
    <3> DEFINE a == m.states
               b == m.epoch
    <3>3. [[states |-> a, epoch |-> b] EXCEPT !.epoch = @ + 1] = [states |-> a, epoch |-> b + 1]
      OBVIOUS
    <3> QED
      BY <3>1, <3>2, <3>3
  <2> QED
    BY <1>1, <1>3, <2>1 DEF SmoothOK
<1> QED
  BY <1>2, <1>3

\* No stale epoch makes an identity look repeated.
LEMMA SeenTwiceIs ==
  ASSUME NEW m, SmoothOK(m), NEW slice
  PROVE  SeenTwice(slice, NextEpoch(m)) <=> Repeats(slice, Eligible(slice))
<1> DEFINE next == NextEpoch(m)
<1>1. /\ next.epoch \in 1..MaxEpoch
      /\ \A id \in DOMAIN next.states : next.states[id].seen_in \in 0..(next.epoch - 1)
  BY NextEpochIs
<1>2. MaxEpoch \in Nat
  BY MaxEpochAssumption
<1> HIDE DEF next
<1>3. \A i \in Eligible(slice) :
        next.epoch # IF slice[i].id \in DOMAIN next.states
                     THEN next.states[slice[i].id].seen_in ELSE 0
  BY <1>1, <1>2
<1>4. SeenTwice(slice, next) <=> Repeats(slice, Eligible(slice))
  BY <1>3 DEF SeenTwice
<1> QED
  BY <1>4 DEF next

\* Credits are integers.
LEMMA CreditType ==
  ASSUME NEW slice, IsSlice(slice), NEW states,
         \A id \in DOMAIN states : states[id].current \in Int,
         NEW i \in Eligible(slice)
  PROVE  Credit(slice, states, i) \in Int
<1>1. slice[i].weight \in Nat
  BY EligibleIs, CandidateIs
<1> QED
  BY <1>1 DEF Credit

\* The winner has a largest credit.
LEMMA WinnerIs ==
  ASSUME NEW slice, IsSlice(slice), NEW states,
         \A id \in DOMAIN states : states[id].current \in Int,
         Eligible(slice) # {}
  PROVE  /\ Winner(slice, states) \in Eligible(slice)
         /\ \A j \in Eligible(slice) :
              Credit(slice, states, Winner(slice, states)) >= Credit(slice, states, j)
<1> DEFINE E == Eligible(slice)
           c == [i \in E |-> Credit(slice, states, i)]
           Ahead2(i, j) == c[i] > c[j] \/ (c[i] = c[j] /\ i < j)
           R == {p \in E \X E : Ahead2(p[1], p[2])}
<1>1. IsFiniteSet(E) /\ \A i \in E : i \in Nat /\ c[i] \in Int
  BY EligibleIs, CandidateIs, CreditType
<1>2. \A i, j \in E : <<i, j>> \in R <=> Ahead2(i, j)
  OBVIOUS
<1>3. Orders(R, E)
  <2> HIDE DEF R, c, E
  <2>1. \A i, j \in E : i # j => (Ahead2(i, j) \/ Ahead2(j, i))
    BY <1>1
  <2>2. \A i, j, k \in E : Ahead2(i, j) /\ Ahead2(j, k) => Ahead2(i, k)
    BY <1>1
  <2>3. \A i \in E : ~Ahead2(i, i)
    BY <1>1
  <2> HIDE DEF Ahead2
  <2> QED
    BY <1>2, <2>1, <2>2, <2>3 DEF Orders
<1>4. PICK i \in E : \A j \in E \ {i} : Ahead2(i, j)
  <2>1. \E i \in E : \A j \in E \ {i} : <<i, j>> \in R
    <3> HIDE DEF R, E
    <3> QED
      BY <1>1, <1>3, FirstOf DEF E
  <2> HIDE DEF Ahead2, R
  <2> QED
    BY <1>2, <2>1
<1>5. ASSUME NEW j \in E PROVE c[i] > c[j] \/ (c[i] = c[j] /\ i <= j)
  <2>1. CASE j = i
    <3> HIDE DEF c
    <3> QED
      BY <1>1, <2>1
  <2>2. CASE j # i
    <3>1. Ahead2(i, j)
      BY <1>4, <2>2
    <3> HIDE DEF c
    <3> QED
      BY <1>1, <3>1
  <2> QED
    BY <2>1, <2>2
<1>6. LET w == Winner(slice, states)
      IN  /\ w \in E
          /\ \A j \in E : \/ Credit(slice, states, w) > Credit(slice, states, j)
                          \/ Credit(slice, states, w) = Credit(slice, states, j) /\ w <= j
  BY <1>5 DEF Winner
<1>7. \A j \in E : Credit(slice, states, j) \in Int
  BY CreditType
<1> QED
  BY <1>6, <1>7

\* What a decision leaves is typed, and of its epoch.
LEMMA DecidedTyped ==
  ASSUME NEW slice, IsSlice(slice), NEW m, DOMAIN m.states \subseteq Id,
         \A id \in DOMAIN m.states : m.states[id].current \in Int,
         NEW w
  PROVE  /\ DOMAIN Decided(slice, m, w) \subseteq Id
         /\ \A id \in DOMAIN Decided(slice, m, w) :
              /\ Decided(slice, m, w)[id].current \in Int
              /\ Decided(slice, m, w)[id].seen_in = m.epoch
<1> DEFINE E == Eligible(slice)
           new == Decided(slice, m, w)
           At(id) == CHOOSE i \in E : slice[i].id = id
<1>1. DOMAIN new = {slice[i].id : i \in E}
  BY DEF Decided
<1>2. DOMAIN new \subseteq Id
  BY <1>1, EligibleIs, CandidateIs
<1>3. TotalWeight(slice, E) \in Nat
  BY EligibleIs, TotalWeightIs
<1>4. \A id \in DOMAIN new :
        new[id] = [current |-> Credit(slice, m.states, At(id))
                                 - IF At(id) = w THEN TotalWeight(slice, E) ELSE 0,
                   seen_in |-> m.epoch]
  BY DEF Decided
<1>5. \A id \in DOMAIN new : At(id) \in E /\ slice[At(id)].id = id
  BY <1>1
<1>6. ASSUME NEW id \in DOMAIN new PROVE new[id].current \in Int /\ new[id].seen_in = m.epoch
  <2>1. Credit(slice, m.states, At(id)) \in Int
    BY <1>5, CreditType
  <2> DEFINE d == IF At(id) = w THEN TotalWeight(slice, E) ELSE 0
             c == Credit(slice, m.states, At(id))
  <2>2. d \in Int /\ c \in Int
    BY <1>3, <2>1
  <2>3. new[id] = [current |-> c - d, seen_in |-> m.epoch]
    BY <1>4
  <2> HIDE DEF new, c, d
  <2> QED
    BY <2>2, <2>3
<1> HIDE DEF new, At, E
<1>7. \A id \in DOMAIN new : new[id].current \in Int /\ new[id].seen_in = m.epoch
  BY <1>6
<1> QED
  BY <1>2, <1>7 DEF new

\* What a decision leaves of the credits of the eligible.
LEMMA DecidedIs ==
  ASSUME NEW slice, IsSlice(slice), NEW m, NEW w, ~Repeats(slice, Eligible(slice))
  PROVE  /\ DOMAIN Decided(slice, m, w) = {slice[i].id : i \in Eligible(slice)}
         /\ \A i \in Eligible(slice) :
              LET current == Decided(slice, m, w)[slice[i].id].current
                  credit == Credit(slice, m.states, i)
              IN  /\ i = w => current = credit - TotalWeight(slice, Eligible(slice))
                  /\ i # w => current = credit - 0
<1> DEFINE E == Eligible(slice)
           new == Decided(slice, m, w)
           At(id) == CHOOSE i \in E : slice[i].id = id
<1>1. DOMAIN new = {slice[i].id : i \in E}
  BY DEF Decided
<1>2. \A id \in DOMAIN new :
        new[id] = [current |-> Credit(slice, m.states, At(id))
                                 - IF At(id) = w THEN TotalWeight(slice, E) ELSE 0,
                   seen_in |-> m.epoch]
  BY DEF Decided
<1>3. \A id \in DOMAIN new : At(id) \in E /\ slice[At(id)].id = id
  BY <1>1
<1>4. ASSUME NEW i \in E
      PROVE  /\ i = w => new[slice[i].id].current
                           = Credit(slice, m.states, i) - TotalWeight(slice, E)
             /\ i # w => new[slice[i].id].current = Credit(slice, m.states, i) - 0
  <2>1. slice[i].id \in DOMAIN new
    BY <1>1
  <2>2. At(slice[i].id) = i
    BY <1>3, <1>4, <2>1 DEF Repeats
  <2> HIDE DEF At, E, new
  <2> QED
    BY <1>2, <2>1, <2>2
<1> HIDE DEF new, At, E
<1> QED
  BY <1>1, <1>4 DEF E, new

\* What one decision of smooth weighted round robin returns and leaves.
LEMMA SmoothIs ==
  ASSUME NEW slice, IsSlice(slice), NEW m, SmoothOK(m)
  PROVE  LET o == SmoothWeightedRoundRobin(slice, m)
             E == Eligible(slice)
             next == NextEpoch(m)
         IN  /\ SmoothOK(o.smooth)
             /\ slice = <<>> => o.result = Failed("Empty")
             /\ slice # <<>> /\ Repeats(slice, E) => o.result = Failed("DuplicateIdentity")
             /\ slice # <<>> /\ E = {} => o.result = Failed("NoEligibleCandidates")
             /\ E # {} /\ ~Repeats(slice, E) =>
                  LET w == Winner(slice, next.states)
                  IN  /\ w \in E /\ o.result = Selected(w)
                      /\ o.smooth = [states |-> Decided(slice, next, w), epoch |-> next.epoch]
<1> DEFINE o == SmoothWeightedRoundRobin(slice, m)
           E == Eligible(slice)
           next == NextEpoch(m)
           w == Winner(slice, next.states)
<1>1. /\ next = [states |-> next.states, epoch |-> next.epoch]
      /\ next.epoch \in 1..MaxEpoch
      /\ DOMAIN next.states \subseteq Id
      /\ \A id \in DOMAIN next.states : /\ next.states[id].current \in Int
                                        /\ next.states[id].seen_in \in 0..(next.epoch - 1)
  BY NextEpochIs
<1>2. MaxEpoch \in Nat \ {0, 1}
  BY MaxEpochAssumption
<1>3. SeenTwice(slice, next) <=> Repeats(slice, E)
  BY SeenTwiceIs
<1>4. slice = <<>> => E = {}
  BY EligibleIs
<1>5. E = {} => ~Repeats(slice, E)
  BY DEF Repeats
<1>6. DOMAIN NoStates = {}
  BY DEF NoStates
<1>7. m = [states |-> m.states, epoch |-> m.epoch] /\ m.epoch \in 0..MaxEpoch
  BY DEF SmoothOK
<1>8. ASSUME NEW x, NEW e, NEW y PROVE [[states |-> x, epoch |-> e] EXCEPT !.states = y]
                                          = [states |-> y, epoch |-> e]
  OBVIOUS
<1>9. CASE slice = <<>>
  <2>1. o = [result |-> Failed("Empty"), smooth |-> [m EXCEPT !.states = NoStates]]
    BY <1>9 DEF SmoothWeightedRoundRobin
  <2>2. [m EXCEPT !.states = NoStates] = [states |-> NoStates, epoch |-> m.epoch]
    BY <1>7, <1>8
  <2>3. SmoothOK([states |-> NoStates, epoch |-> m.epoch])
    BY <1>6, <1>7 DEF SmoothOK
  <2> QED
    BY <1>4, <1>9, <2>1, <2>2, <2>3
<1>10. CASE slice # <<>> /\ Repeats(slice, E)
  <2>1. o = [result |-> Failed("DuplicateIdentity"),
             smooth |-> [states |-> NoStates, epoch |-> 0]]
    <3> HIDE DEF E, w
    <3> QED
      BY <1>3, <1>5, <1>10 DEF SmoothWeightedRoundRobin, E
  <2>2. SmoothOK([states |-> NoStates, epoch |-> 0])
    BY <1>2, <1>6 DEF SmoothOK
  <2> QED
    BY <1>5, <1>10, <2>1, <2>2
<1>11. CASE slice # <<>> /\ ~Repeats(slice, E) /\ E = {}
  <2>1. o = [result |-> Failed("NoEligibleCandidates"),
             smooth |-> [next EXCEPT !.states = NoStates]]
    BY <1>3, <1>11 DEF SmoothWeightedRoundRobin
  <2>2. [next EXCEPT !.states = NoStates] = [states |-> NoStates, epoch |-> next.epoch]
    <3> HIDE DEF next
    <3> QED
      BY <1>1, <1>8
  <2>3. SmoothOK([states |-> NoStates, epoch |-> next.epoch])
    <3> HIDE DEF next
    <3> QED
      BY <1>1, <1>2, <1>6 DEF SmoothOK
  <2> QED
    BY <1>11, <2>1, <2>2, <2>3
<1>12. CASE slice # <<>> /\ ~Repeats(slice, E) /\ E # {}
  <2>1. o = [result |-> Selected(w),
             smooth |-> [next EXCEPT !.states = Decided(slice, next, w)]]
    BY <1>3, <1>12 DEF SmoothWeightedRoundRobin
  <2>2. [next EXCEPT !.states = Decided(slice, next, w)]
          = [states |-> Decided(slice, next, w), epoch |-> next.epoch]
    <3> HIDE DEF next
    <3> QED
      BY <1>1, <1>8
  <2>3. w \in E
    BY <1>1, <1>12, WinnerIs
  <2>4. SmoothOK([states |-> Decided(slice, next, w), epoch |-> next.epoch])
    <3> DEFINE new == Decided(slice, next, w)
    <3>1. /\ DOMAIN new \subseteq Id
          /\ \A id \in DOMAIN new : new[id].current \in Int /\ new[id].seen_in = next.epoch
      <4>1. DOMAIN next.states \subseteq Id
        BY <1>1
      <4>2. \A id \in DOMAIN next.states : next.states[id].current \in Int
        BY <1>1
      <4>3. IsSlice(slice)
        OBVIOUS
      <4> HIDE DEF next, w
      <4> QED
        BY ONLY <4>1, <4>2, <4>3, DecidedTyped DEF new
    <3> DEFINE e == next.epoch
               o2 == [states |-> new, epoch |-> e]
    <3>2. e \in 1..MaxEpoch
      BY <1>1
    <3> HIDE DEF new, e
    <3>3. o2.states = new /\ o2.epoch = e
      OBVIOUS
    <3>4. \A id \in DOMAIN new : new[id].seen_in \in 0..e
      BY <1>2, <3>1, <3>2 DEF e
    <3>5. e \in 0..MaxEpoch
      BY <1>2, <3>2
    <3>6. SmoothOK(o2)
      <4> HIDE DEF o2
      <4>1. o2 = [states |-> o2.states, epoch |-> o2.epoch]
        BY <3>3 DEF o2
      <4> QED
        BY <3>1, <3>3, <3>4, <3>5, <4>1 DEF SmoothOK
    <3> QED
      BY <3>6 DEF e, new
  <2> QED
    BY <1>12, <2>1, <2>2, <2>3, <2>4
<1> QED
  BY <1>4, <1>9, <1>10, <1>11, <1>12

\* What multiplication by a positive number keeps of an order.
LEMMA Scaling ==
  ASSUME NEW x \in Int, NEW y \in Int, NEW z \in Nat \ {0}
  PROVE  /\ x < y <=> x * z < y * z
         /\ x <= y <=> x * z <= y * z
         /\ x = y <=> x * z = y * z
<1>1. x < y => x * z < y * z
  <2> SUFFICES ASSUME x < y PROVE x * z < y * z
    OBVIOUS
  <2>1. PICK d \in Nat \ {0} : y = x + d
    <3>1. y - x \in Nat \ {0} /\ y = x + (y - x)
      OBVIOUS
    <3> QED
      BY <3>1
  <2>2. d * z \in Nat \ {0}
    BY <2>1
  <2>3. y * z = x * z + d * z
    BY <2>1
  <2>4. x * z \in Int
    OBVIOUS
  <2> QED
    BY <2>2, <2>3, <2>4
<1>2. y < x => y * z < x * z
  <2> SUFFICES ASSUME y < x PROVE y * z < x * z
    OBVIOUS
  <2>1. PICK d \in Nat \ {0} : x = y + d
    <3>1. x - y \in Nat \ {0} /\ x = y + (x - y)
      OBVIOUS
    <3> QED
      BY <3>1
  <2>2. d * z \in Nat \ {0}
    BY <2>1
  <2>3. x * z = y * z + d * z
    BY <2>1
  <2>4. y * z \in Int
    OBVIOUS
  <2> QED
    BY <2>2, <2>3, <2>4
<1>3. x * z \in Int /\ y * z \in Int
  OBVIOUS
<1> QED
  BY <1>1, <1>2, <1>3

\* Fractions a/u, b/v, c/w are compared by cross multiplication.
LEMMA CrossMultiplied ==
  ASSUME NEW a \in Nat, NEW b \in Nat, NEW c \in Nat,
         NEW u \in Nat \ {0}, NEW v \in Nat \ {0}, NEW w \in Nat \ {0},
         a * v <= b * u, b * w <= c * v
  PROVE  /\ a * w <= c * u
         /\ (a * v < b * u \/ b * w < c * v) <=> a * w < c * u
<1> DEFINE aw == a * w
           cu == c * u
           x == aw * v
           y == (b * u) * w
           z == cu * v
<1>1. aw \in Nat /\ cu \in Nat /\ x \in Nat /\ y \in Nat /\ z \in Nat
  OBVIOUS
<1>2. x = (a * v) * w /\ z = (c * v) * u /\ y = (b * w) * u
  OBVIOUS
<1>3. a * v \in Int /\ b * u \in Int /\ b * w \in Int /\ c * v \in Int
  OBVIOUS
<1>4. x <= y /\ (a * v < b * u <=> x < y)
  <2>1. (a * v <= b * u <=> (a * v) * w <= (b * u) * w)
        /\ (a * v < b * u <=> (a * v) * w < (b * u) * w)
    BY <1>3, Scaling
  <2> QED
    BY <1>2, <2>1
<1>5. y <= z /\ (b * w < c * v <=> y < z)
  <2>1. (b * w <= c * v <=> (b * w) * u <= (c * v) * u)
        /\ (b * w < c * v <=> (b * w) * u < (c * v) * u)
    BY <1>3, Scaling
  <2> QED
    BY <1>2, <2>1
<1>6. (aw <= cu <=> x <= z) /\ (aw < cu <=> x < z)
  <2> HIDE DEF aw, cu
  <2> QED
    BY <1>1, Scaling
<1> HIDE DEF x, y, z
<1> QED
  BY <1>1, <1>4, <1>5, <1>6

-----------------------------------------------------------------------------

\* The scores of a hash builder are numbers whose logarithm is known.
Scores(slice, request, hash, S) ==
  \A i \in S : /\ Score(slice, request, hash, i) \in Nat
               /\ LogCost[Score(slice, request, hash, i)] \in Nat

\* The scores put one candidate first.
LEMMA RendezvousFirst ==
  ASSUME NEW slice, IsSlice(slice), NEW S \in SUBSET DOMAIN slice, S # {},
         NEW request, NEW hash, Scores(slice, request, hash, S)
  PROVE  \E m \in S : \A j \in S \ {m} : RendezvousBeats(slice, request, hash, m, j)
<1> DEFINE s == [i \in S |-> Score(slice, request, hash, i)]
           Beats(i, j) == s[i] > s[j] \/ (s[i] = s[j] /\ i < j)
           R == {p \in S \X S : Beats(p[1], p[2])}
<1>1. IsFiniteSet(S) /\ \A i \in S : i \in Nat /\ s[i] \in Nat
  BY EligibleIs, FS_Subset, CandidateIs DEF Scores
<1>2. \A i, j \in S : <<i, j>> \in R <=> Beats(i, j)
  OBVIOUS
<1>3. \A i, j \in S : Beats(i, j) <=> RendezvousBeats(slice, request, hash, i, j)
  BY DEF RendezvousBeats
<1>4. Orders(R, S)
  <2> HIDE DEF R, s
  <2>1. \A i, j \in S : i # j => (Beats(i, j) \/ Beats(j, i))
    BY <1>1
  <2>2. \A i, j, k \in S : Beats(i, j) /\ Beats(j, k) => Beats(i, k)
    BY <1>1
  <2>3. \A i \in S : ~Beats(i, i)
    BY <1>1
  <2> HIDE DEF Beats
  <2> QED
    BY <1>2, <2>1, <2>2, <2>3 DEF Orders
<1>5. PICK m \in S : \A j \in S \ {m} : <<m, j>> \in R
  <2> HIDE DEF R
  <2> QED
    BY <1>1, <1>4, FirstOf
<1> HIDE DEF R, Beats
<1> QED
  BY <1>2, <1>3, <1>5

\* So do the weighted ones: comparing products is transitive.
LEMMA WeightedFirst ==
  ASSUME NEW slice, IsSlice(slice), NEW S \in SUBSET DOMAIN slice, S # {},
         NEW request, NEW hash, Scores(slice, request, hash, S)
  PROVE  /\ WeightedOwner(slice, request, hash, S) \in S
         /\ \A j \in S \ {WeightedOwner(slice, request, hash, S)} :
              WeightedBeats(slice, request, hash, WeightedOwner(slice, request, hash, S), j)
<1> DEFINE s == [i \in S |-> Score(slice, request, hash, i)]
           a == [i \in S |-> LogCost[Score(slice, request, hash, i)]]
           w == [i \in S |-> slice[i].weight]
           L(i, j) == a[i] * w[j]
           Beats(i, j) == \/ L(i, j) < L(j, i)
                          \/ L(i, j) = L(j, i) /\ s[i] > s[j]
                          \/ L(i, j) = L(j, i) /\ s[i] = s[j] /\ i < j
           R == {p \in S \X S : Beats(p[1], p[2])}
<1>1. /\ IsFiniteSet(S)
      /\ \A i \in S : i \in Nat /\ s[i] \in Nat /\ a[i] \in Nat /\ w[i] \in Nat \ {0}
  BY EligibleIs, FS_Subset, CandidateIs DEF Scores
<1>2. \A i, j \in S : <<i, j>> \in R <=> Beats(i, j)
  OBVIOUS
<1>3. \A i, j \in S : Beats(i, j) <=> WeightedBeats(slice, request, hash, i, j)
  BY DEF WeightedBeats
<1>4. Orders(R, S)
  <2> HIDE DEF R, s, a, w
  <2>1. \A i, j \in S : L(i, j) \in Nat
    BY <1>1
  <2>2. \A i, j, k \in S : L(i, j) <= L(j, i) /\ L(j, k) <= L(k, j) =>
          /\ L(i, k) <= L(k, i)
          /\ (L(i, j) < L(j, i) \/ L(j, k) < L(k, j)) <=> L(i, k) < L(k, i)
    BY <1>1, CrossMultiplied
  <2> HIDE DEF L
  <2>3. \A i, j \in S : i # j => (Beats(i, j) \/ Beats(j, i))
    BY <1>1, <2>1
  <2>4. \A i, j, k \in S : Beats(i, j) /\ Beats(j, k) => Beats(i, k)
    <3> SUFFICES ASSUME NEW i \in S, NEW j \in S, NEW k \in S, Beats(i, j), Beats(j, k)
                 PROVE  Beats(i, k)
      OBVIOUS
    <3>1. L(i, j) <= L(j, i) /\ L(j, k) <= L(k, j)
      BY <2>1
    <3>2. /\ L(i, k) <= L(k, i)
          /\ (L(i, j) < L(j, i) \/ L(j, k) < L(k, j)) <=> L(i, k) < L(k, i)
      BY <2>2, <3>1
    <3> QED
      BY <1>1, <2>1, <3>1, <3>2
  <2>5. \A i \in S : ~Beats(i, i)
    BY <1>1, <2>1
  <2> HIDE DEF Beats
  <2> QED
    BY <1>2, <2>3, <2>4, <2>5 DEF Orders
<1>5. PICK m \in S : \A j \in S \ {m} : <<m, j>> \in R
  <2> HIDE DEF R
  <2> QED
    BY <1>1, <1>4, FirstOf
<1> HIDE DEF R, Beats
<1>6. \A j \in S \ {m} : WeightedBeats(slice, request, hash, m, j)
  BY <1>2, <1>3, <1>5
<1> QED
  BY <1>6 DEF WeightedOwner, Best

\* Division with a remainder.
LEMMA Division ==
  ASSUME NEW n \in Int, NEW d \in Nat \ {0}
  PROVE  /\ n \div d \in Int /\ n % d \in 0..(d - 1)
         /\ n = d * (n \div d) + (n % d)
         /\ n \in Nat => n \div d \in Nat
         /\ \A q \in Int, r \in 0..(d - 1) : n = d * q + r => n \div d = q /\ n % d = r
OBVIOUS

\* There is room below a share rounded up exactly below the share itself.
LEMMA CapacityIs ==
  ASSUME NEW p \in Nat, NEW w \in Nat \ {0}, NEW t \in Nat \ {0}, NEW f \in Nat, NEW l \in Nat
  PROVE  l < CapacityFor(p, w, t, f) <=> 100 * t * l < f * w * p
<1> DEFINE n == p * w * f
           d == t * 100
           k == (n + d - 1) \div d
<1>1. n \in Nat /\ d \in Nat \ {0}
  OBVIOUS
<1>2. CapacityFor(p, w, t, f) = k
  BY DEF CapacityFor
<1>3. n = f * w * p /\ d * l = 100 * t * l
  OBVIOUS
<1>4. l < k <=> d * l < n
  <2> HIDE DEF n, d
  <2> DEFINE a == n + d - 1
             r == a % d
  <2>1. a \in Nat /\ k = a \div d
    BY <1>1
  <2>2. k \in Nat /\ r \in 0..(d - 1) /\ a = d * k + r
    <3> HIDE DEF a, k
    <3>1. a \in Int
      BY <2>1
    <3>2. /\ a \div d \in Nat /\ a % d \in 0..(d - 1)
          /\ a = d * (a \div d) + (a % d)
      BY ONLY <1>1, <2>1, <3>1, Division
    <3> QED
      BY <2>1, <3>2
  <2> HIDE DEF k, r
  <2>3. CASE l < k
    <3>1. PICK e \in Nat : k = l + 1 + e
      <4>1. k - l - 1 \in Nat /\ k = l + 1 + (k - l - 1)
        BY <2>2, <2>3
      <4> QED
        BY <4>1
    <3>2. d * k = d * l + d + d * e /\ d * e \in Nat /\ d * l \in Nat
      BY <1>1, <3>1
    <3> QED
      BY <1>1, <2>2, <2>3, <3>2 DEF a
  <2>4. CASE k <= l
    <3>1. PICK e \in Nat : l = k + e
      <4>1. l - k \in Nat /\ l = k + (l - k)
        BY <2>2, <2>4
      <4> QED
        BY <4>1
    <3>2. d * l = d * k + d * e /\ d * e \in Nat /\ d * k \in Nat
      BY <1>1, <2>2, <3>1
    <3> QED
      BY <1>1, <2>2, <2>4, <3>2 DEF a
  <2> QED
    BY <2>2, <2>3, <2>4
<1> HIDE DEF n, d, k
<1> QED
  BY <1>2, <1>3, <1>4

\* Bounded load leaves somebody room: else the loads would be more than they are.
LEMMA RoomIsLeft ==
  ASSUME NEW slice, IsSlice(slice), Eligible(slice) # {},
         NEW factor \in Nat, factor >= 100
  PROVE  /\ TotalWeight(slice, Eligible(slice)) \in Nat \ {0}
         /\ WithRoom(slice, factor) # {}
         /\ \A i \in Eligible(slice) :
              i \in WithRoom(slice, factor)
                <=> 100 * TotalWeight(slice, Eligible(slice)) * slice[i].load
                      < factor * slice[i].weight * (TotalLoad(slice, Eligible(slice)) + 1)
<1> DEFINE E == Eligible(slice)
           W == TotalWeight(slice, E)
           L == TotalLoad(slice, E)
           w == WeightsOf(slice)
           l == LoadsOf(slice)
<1>1. E \in SUBSET DOMAIN slice /\ IsFiniteSet(E)
  BY EligibleIs
<1>2. W = SumOf(w, E) /\ \A i \in E : w[i] = slice[i].weight /\ w[i] \in Nat \ {0} /\ w[i] <= W
  BY <1>1, TotalWeightIs
<1>3. L = SumOf(l, E) /\ L \in Nat /\ \A i \in E : l[i] = slice[i].load /\ l[i] \in Nat
  BY <1>1, TotalLoadIs
<1>4. W \in Nat \ {0}
  <2>1. PICK i \in E : TRUE
    OBVIOUS
  <2>2. W \in Nat
    BY <1>1, TotalWeightIs
  <2> HIDE DEF W
  <2> QED
    BY <1>2, <2>1, <2>2
<1>5. ASSUME NEW i \in E
      PROVE  slice[i].load < Capacity(slice, factor, i)
               <=> 100 * W * l[i] < factor * w[i] * (L + 1)
  <2>1. Capacity(slice, factor, i) = CapacityFor(L + 1, w[i], W, factor)
    BY <1>2 DEF Capacity
  <2>2. L + 1 \in Nat /\ w[i] \in Nat \ {0} /\ l[i] \in Nat /\ slice[i].load = l[i]
    BY <1>2, <1>3
  <2> HIDE DEF W, L, w, l
  <2>3. l[i] < CapacityFor(L + 1, w[i], W, factor) <=> 100 * W * l[i] < factor * w[i] * (L + 1)
    BY <1>4, <2>2, CapacityIs
  <2> QED
    BY <2>1, <2>2, <2>3
<1>6. \A i \in E : i \in WithRoom(slice, factor) <=> 100 * W * l[i] < factor * w[i] * (L + 1)
  BY <1>5 DEF WithRoom
<1>7. \E i \in E : 100 * W * l[i] < factor * w[i] * (L + 1)
  <2> SUFFICES ASSUME \A i \in E : ~(100 * W * l[i] < factor * w[i] * (L + 1))
               PROVE  FALSE
    OBVIOUS
  <2> DEFINE u == [i \in E |-> (factor * (L + 1)) * w[i]]
             v == [i \in E |-> (100 * W) * l[i]]
  <2> HIDE DEF W, L, w, l, E
  <2>1. factor * (L + 1) \in Int /\ 100 * W \in Int
    BY <1>3, <1>4
  <2>2. ASSUME NEW i \in E PROVE u[i] \in Int /\ v[i] \in Int /\ u[i] <= v[i]
    <3>1. w[i] \in Nat /\ l[i] \in Nat
      BY <1>2, <1>3
    <3>2. u[i] = factor * w[i] * (L + 1) /\ v[i] = 100 * W * l[i]
      BY <1>3, <1>4, <3>1
    <3>3. factor * w[i] * (L + 1) \in Int /\ 100 * W * l[i] \in Int
      BY <1>3, <1>4, <3>1
    <3>4. ~(100 * W * l[i] < factor * w[i] * (L + 1))
      OBVIOUS
    <3> HIDE DEF u, v
    <3> QED
      BY <3>2, <3>3, <3>4
  <2>3. SumOf(u, E) = (factor * (L + 1)) * W
    <3> DEFINE c == factor * (L + 1)
    <3>1. c \in Int /\ IsFiniteSet(E) /\ \A i \in E : w[i] \in Int /\ u[i] = c * w[i]
      BY <1>1, <1>2, <2>1
    <3> HIDE DEF u, c
    <3>2. SumOf(u, E) = c * SumOf(w, E)
      BY ONLY <3>1, SumScaled
    <3> QED
      BY <1>2, <3>2 DEF c
  <2>4. SumOf(v, E) = (100 * W) * L
    <3> DEFINE c == 100 * W
    <3>1. c \in Int /\ IsFiniteSet(E) /\ \A i \in E : l[i] \in Int /\ v[i] = c * l[i]
      BY <1>1, <1>3, <2>1
    <3> HIDE DEF v, c
    <3>2. SumOf(v, E) = c * SumOf(l, E)
      BY ONLY <3>1, SumScaled
    <3> QED
      BY <1>3, <3>2 DEF c
  <2>5. (factor * (L + 1)) * W <= (100 * W) * L
    <3>1. SumOf(u, E) <= SumOf(v, E)
      <4> HIDE DEF u, v
      <4> QED
        BY <1>1, <2>2, SumMonotone
    <3> QED
      BY <2>3, <2>4, <3>1
  <2>6. PICK e \in Nat : factor = 100 + e
    <3>1. factor - 100 \in Nat /\ factor = 100 + (factor - 100)
      OBVIOUS
    <3> QED
      BY <3>1
  <2>7. (factor * (L + 1)) * W = (100 * W) * L + 100 * W + (e * (L + 1)) * W
    BY <1>3, <1>4, <2>6
  <2>8. (e * (L + 1)) * W \in Nat /\ (100 * W) * L \in Nat
    <3>1. e * (L + 1) \in Nat
      BY <1>3, <2>6
    <3> QED
      BY <1>3, <1>4, <3>1
  <2> QED
    BY <1>4, <2>5, <2>7, <2>8
<1>8. WithRoom(slice, factor) # {}
  BY <1>6, <1>7
<1> HIDE DEF W, L, E
<1>9. \A i \in E : i \in WithRoom(slice, factor)
                     <=> 100 * W * slice[i].load < factor * slice[i].weight * (L + 1)
  BY <1>2, <1>3, <1>6
<1> QED
  BY <1>4, <1>8, <1>9 DEF W, L, E

\* The scores of the policies are numbers with a cost.
LEMMA ScoresAre ==
  ASSUME NEW p \in Policies, p.kind \in Hashing, NEW q \in Request,
         NEW slice, IsSlice(slice), NEW S \in SUBSET DOMAIN slice
  PROVE  Scores(slice, q, p.hash, S)
<1>1. \A id \in Id : p.hash.score[q][id] \in DOMAIN LogCost
  <2>1. p.kind # "ring_hash" /\ p.kind # "maglev" /\ ValidHash(p)
    BY PoliciesAssumption DEF Hashing
  <2> QED
    BY <2>1 DEF ValidHash
<1>2. \A i \in S : slice[i].id \in Id
  BY CandidateIs
<1> QED
  BY <1>1, <1>2, LogCostAssumption DEF Scores, Score

\* What rendezvous returns.
LEMMA RendezvousIs ==
  ASSUME NEW slice, IsSlice(slice), NEW request, NEW hash,
         Scores(slice, request, hash, Eligible(slice))
  PROVE  /\ Eligible(slice) = {} => Nobody(slice, Rendezvous(slice, request, hash))
         /\ Eligible(slice) # {} =>
              \E m \in Eligible(slice) :
                /\ Rendezvous(slice, request, hash) = Selected(m)
                /\ \A j \in Eligible(slice) \ {m} :
                     RendezvousBeats(slice, request, hash, m, j)
<1> DEFINE E == Eligible(slice)
<1>1. CASE E = {}
  BY <1>1 DEF Rendezvous, Nobody
<1>2. CASE E # {}
  <2>1. \E m \in E : \A j \in E \ {m} : RendezvousBeats(slice, request, hash, m, j)
    BY <1>2, EligibleIs, RendezvousFirst
  <2> DEFINE m == CHOOSE i \in E : \A j \in E \ {i} : RendezvousBeats(slice, request, hash, i, j)
  <2>2. m \in E /\ \A j \in E \ {m} : RendezvousBeats(slice, request, hash, m, j)
    BY <2>1
  <2>3. Rendezvous(slice, request, hash) = Selected(m)
    BY <1>2 DEF Rendezvous, Best
  <2> HIDE DEF m
  <2> QED
    BY <1>2, <2>2, <2>3
<1> QED
  BY <1>1, <1>2

\* What weighted rendezvous returns.
LEMMA WeightedRendezvousIs ==
  ASSUME NEW slice, IsSlice(slice), NEW request, NEW hash,
         Scores(slice, request, hash, Eligible(slice))
  PROVE  /\ Eligible(slice) = {} => Nobody(slice, WeightedRendezvous(slice, request, hash))
         /\ Eligible(slice) # {} =>
              \E m \in Eligible(slice) :
                /\ WeightedRendezvous(slice, request, hash) = Selected(m)
                /\ \A j \in Eligible(slice) \ {m} :
                     WeightedBeats(slice, request, hash, m, j)
<1> DEFINE E == Eligible(slice)
<1>1. CASE E = {}
  BY <1>1 DEF WeightedRendezvous, Nobody
<1>2. CASE E # {}
  <2> DEFINE m == WeightedOwner(slice, request, hash, E)
  <2>1. m \in E /\ \A j \in E \ {m} : WeightedBeats(slice, request, hash, m, j)
    BY <1>2, EligibleIs, WeightedFirst
  <2>2. WeightedRendezvous(slice, request, hash) = Selected(m)
    BY <1>2 DEF WeightedRendezvous
  <2> HIDE DEF m
  <2> QED
    BY <1>2, <2>1, <2>2
<1> QED
  BY <1>1, <1>2

\* Bounded load fails only when a total leaves its type, and asks the owner first.
LEMMA BoundedLoadIs ==
  ASSUME NEW slice, IsSlice(slice), NEW request, NEW hash,
         Scores(slice, request, hash, Eligible(slice)),
         NEW factor \in Nat, factor >= 100
  PROVE  LET E == Eligible(slice)
             W == TotalWeight(slice, E)
             L == TotalLoad(slice, E)
             r == BoundedLoad(slice, request, hash, factor)
             owner == WeightedOwner(slice, request, hash, E)
             HasRoom(i) == 100 * W * slice[i].load < factor * slice[i].weight * (L + 1)
         IN  /\ E = {} => Nobody(slice, r)
             /\ E # {} => \/ L + 1 > MaxU64 /\ r = Failed("LoadOverflow")
                          \/ W > MaxU64 /\ r = Failed("WeightOverflow")
                          \/ \E i \in E : /\ r = Selected(i) /\ HasRoom(i) /\ owner \in E
                                          /\ owner # i => ~HasRoom(owner)
<1> DEFINE E == Eligible(slice)
           W == TotalWeight(slice, E)
           L == TotalLoad(slice, E)
           r == BoundedLoad(slice, request, hash, factor)
           R == WithRoom(slice, factor)
           owner == WeightedOwner(slice, request, hash, E)
           i == WeightedOwner(slice, request, hash, R)
           HasRoom(j) == 100 * W * slice[j].load < factor * slice[j].weight * (L + 1)
<1>1. ASSUME E = {} PROVE Nobody(slice, r)
  BY <1>1 DEF BoundedLoad, Nobody
<1>2. ASSUME E # {}
      PROVE  \/ L + 1 > MaxU64 /\ r = Failed("LoadOverflow")
             \/ W > MaxU64 /\ r = Failed("WeightOverflow")
             \/ \E j \in E : /\ r = Selected(j) /\ HasRoom(j) /\ owner \in E
                             /\ owner # j => ~HasRoom(owner)
  <2>1. R # {} /\ R \subseteq E /\ \A j \in E : j \in R <=> HasRoom(j)
    BY <1>2, RoomIsLeft DEF WithRoom
  <2>2. Scores(slice, request, hash, R)
    BY <2>1 DEF Scores
  <2>3. i \in R /\ \A j \in R \ {i} : WeightedBeats(slice, request, hash, i, j)
    <3> HIDE DEF R
    <3> QED
      BY <2>1, <2>2, EligibleIs, WeightedFirst
  <2>4. owner \in E /\ \A j \in E \ {owner} : WeightedBeats(slice, request, hash, owner, j)
    BY <1>2, EligibleIs, WeightedFirst
  <2>5. owner # i => owner \notin R
    <3> SUFFICES ASSUME owner # i, owner \in R PROVE FALSE
      OBVIOUS
    <3> HIDE DEF R, E, owner, i
    <3>1. /\ WeightedBeats(slice, request, hash, i, owner)
          /\ WeightedBeats(slice, request, hash, owner, i)
      BY <2>1, <2>3, <2>4
    <3>2. i \in E /\ owner \in E
      BY <2>1, <2>3, <2>4
    <3> DEFINE h == Score(slice, request, hash, i)
               g == Score(slice, request, hash, owner)
               x == LogCost[h] * slice[owner].weight
               y == LogCost[g] * slice[i].weight
    <3>3. h \in Nat /\ g \in Nat /\ x \in Nat /\ y \in Nat /\ i \in Nat /\ owner \in Nat
      <4>1. i \in DOMAIN slice /\ owner \in DOMAIN slice
        BY <3>2, EligibleIs DEF E
      <4>2. slice[i].weight \in Nat /\ slice[owner].weight \in Nat /\ i \in Nat /\ owner \in Nat
        BY <4>1, CandidateIs
      <4>3. h \in Nat /\ g \in Nat /\ LogCost[h] \in Nat /\ LogCost[g] \in Nat
        BY <3>2 DEF Scores, E
      <4> HIDE DEF h, g
      <4> QED
        BY <4>2, <4>3
    <3>4. x < y \/ (x = y /\ (h > g \/ (h = g /\ i < owner)))
      BY <3>1 DEF WeightedBeats
    <3>5. y < x \/ (y = x /\ (g > h \/ (g = h /\ owner < i)))
      BY <3>1 DEF WeightedBeats
    <3> HIDE DEF h, g, x, y
    <3> QED
      BY <3>3, <3>4, <3>5
  <2>6. \/ L + 1 > MaxU64 /\ r = Failed("LoadOverflow")
        \/ W > MaxU64 /\ r = Failed("WeightOverflow")
        \/ r = Selected(i)
    BY <1>2, <2>1 DEF BoundedLoad
  <2> HIDE DEF R, E, owner, i, r, W, L, HasRoom
  <2> QED
    BY <1>2, <2>1, <2>3, <2>4, <2>5, <2>6
<1> HIDE DEF E, r, owner, W, L
<1> QED
  BY <1>1, <1>2 DEF E, r, owner, W, L

\* The largest of some bounded numbers.
LEMMA MaxIs ==
  ASSUME NEW b \in Nat, NEW S \in SUBSET (0..b), S # {}
  PROVE  Max(S) \in S /\ \A n \in S : Max(S) >= n
<1> DEFINE f == [i \in S |-> b - i]
<1>1. \A i \in S : f[i] \in Nat
  OBVIOUS
<1>2. PICK i \in S : \A j \in S : f[i] <= f[j]
  <2> HIDE DEF f
  <2> QED
    BY <1>1, LeastOf
<1>3. ASSUME NEW j \in S PROVE i >= j
  <2>1. b - i <= b - j /\ i \in Int /\ j \in Int
    BY <1>2
  <2> QED
    BY <2>1
<1> QED
  BY <1>3 DEF Max

\* The common divisor divides each weight, and is not above any.
LEMMA DivisorIs ==
  ASSUME NEW V \in SUBSET (Nat \ {0}), V # {}
  PROVE  /\ GreatestCommonDivisor(V) \in Nat \ {0}
         /\ \A w \in V : w \div GreatestCommonDivisor(V) \in 1..w
<1> DEFINE D == {d \in 1..Min(V) : \A w \in V : w % d = 0}
<1>1. Min(V) \in V /\ \A w \in V : Min(V) <= w
  BY MinIs
<1>2. 1 \in D
  <2>1. \A w \in Nat : w % 1 = 0
    OBVIOUS
  <2>2. Min(V) \in Nat \ {0}
    BY <1>1
  <2>3. 1 \in 1..Min(V)
    BY <2>2
  <2>4. \A w \in V : w % 1 = 0
    BY <2>1
  <2> QED
    BY <2>3, <2>4
<1>3. D \in SUBSET (0..Min(V)) /\ Min(V) \in Nat
  <2>1. Min(V) \in Nat
    BY <1>1
  <2>2. 1..Min(V) \subseteq 0..Min(V)
    BY <2>1
  <2> QED
    BY <2>1, <2>2
<1>4. Max(D) \in D
  <2> HIDE DEF D
  <2> QED
    BY <1>2, <1>3, MaxIs
<1> DEFINE g == Max(D)
<1>5. g \in 1..Min(V) /\ \A w \in V : w % g = 0
  BY <1>4
<1>6. GreatestCommonDivisor(V) = g
  BY DEF GreatestCommonDivisor
<1> HIDE DEF g, D
<1>7. ASSUME NEW w \in V PROVE w \div g \in 1..w
  <2>1. w \in Nat \ {0} /\ g \in Nat \ {0} /\ g <= w
    BY <1>1, <1>5
  <2> DEFINE q == w \div g
  <2>2. q \in Nat /\ w = g * q
    <3>1. /\ w \div g \in Nat
          /\ w = g * (w \div g) + (w % g)
      <4>1. w \in Int /\ w \in Nat
        BY <2>1
      <4> QED
        BY ONLY <2>1, <4>1, Division
    <3>2. w % g = 0 /\ g * (w \div g) \in Nat
      BY <1>5, <2>1, <3>1
    <3> QED
      BY <3>1, <3>2
  <2> HIDE DEF q
  <2>3. q # 0
    BY <2>1, <2>2
  <2>4. q <= w
    <3>1. PICK e \in Nat : g = 1 + e
      <4>1. g - 1 \in Nat /\ g = 1 + (g - 1)
        BY <2>1
      <4> QED
        BY <4>1
    <3>2. w = q + e * q /\ e * q \in Nat
      BY <2>2, <3>1
    <3> QED
      BY <2>1, <2>2, <3>2
  <2> QED
    BY <2>1, <2>2, <2>3, <2>4 DEF q
<1> QED
  BY <1>1, <1>5, <1>6, <1>7

-----------------------------------------------------------------------------

\* The members of a ring are the eligible candidates.
LEMMA RingMembersAre ==
  ASSUME NEW slice, IsSlice(slice)
  PROVE  /\ IsFiniteSet(RingMembers(slice))
         /\ (RingMembers(slice) = {} <=> Eligible(slice) = {})
         /\ \A m \in RingMembers(slice) :
              /\ m.index \in Eligible(slice) /\ m.index \in Nat \ {0}
              /\ m.key = slice[m.index].id /\ m.key \in Id
              /\ m.weight = slice[m.index].weight /\ m.weight \in Nat \ {0}
              /\ m = [index |-> m.index, key |-> m.key, weight |-> m.weight]
         /\ \A i \in Eligible(slice) :
              [index |-> i, key |-> slice[i].id, weight |-> slice[i].weight]
                \in RingMembers(slice)
<1> DEFINE E == Eligible(slice)
           M == RingMembers(slice)
           b == [i \in E |-> [index |-> i, key |-> slice[i].id, weight |-> slice[i].weight]]
<1>1. IsFiniteSet(E) /\ E \subseteq DOMAIN slice
  BY EligibleIs
<1>2. M = {b[i] : i \in E}
  BY DEF RingMembers
<1>3. IsFiniteSet(M)
  <2>1. b \in Surjection(E, M)
    <3> HIDE DEF b, M
    <3>1. DOMAIN b = E /\ b = [i \in E |-> b[i]]
      BY DEF b
    <3> QED
      BY <1>2, <3>1 DEF Surjection
  <2> HIDE DEF b, M
  <2> QED
    BY <1>1, <2>1, FS_Surjection
<1>4. ASSUME NEW m \in M
      PROVE  /\ m.index \in E /\ m.index \in Nat \ {0}
             /\ m.key = slice[m.index].id /\ m.key \in Id
             /\ m.weight = slice[m.index].weight /\ m.weight \in Nat \ {0}
             /\ m = [index |-> m.index, key |-> m.key, weight |-> m.weight]
  <2>1. PICK i \in E : m = [index |-> i, key |-> slice[i].id, weight |-> slice[i].weight]
    BY DEF RingMembers
  <2>2. i \in Nat \ {0} /\ slice[i].id \in Id /\ slice[i].weight \in Nat \ {0}
    BY <1>1, CandidateIs
  <2> QED
    BY <2>1, <2>2
<1>5. M = {} <=> E = {}
  BY DEF RingMembers
<1>6. \A i \in E : [index |-> i, key |-> slice[i].id, weight |-> slice[i].weight] \in M
  BY DEF RingMembers
<1> HIDE DEF M, E
<1> QED
  BY <1>3, <1>4, <1>5, <1>6 DEF M, E

RingNodes(members, replicas) ==
  MapThenSumSet(LAMBDA m : PointsFor(m, members, replicas), members)

\* Each member has a virtual node, and all have no more than their weights admit.
LEMMA NodesAre ==
  ASSUME NEW slice, IsSlice(slice), NEW replicas \in Nat \ {0}
  PROVE  LET M == RingMembers(slice)
         IN  /\ \A m \in M : /\ PointsFor(m, M, replicas) \in Nat \ {0}
                             /\ PointsFor(m, M, replicas) <= RingNodes(M, replicas)
             /\ RingNodes(M, replicas) \in Nat
             /\ RingNodes(M, replicas)
                  <= TotalWeight(slice, Eligible(slice)) * replicas
             /\ Eligible(slice) = {} => RingNodes(M, replicas) = 0
<1> DEFINE M == RingMembers(slice)
           E == Eligible(slice)
           V == {m.weight : m \in M}
           g == GreatestCommonDivisor(V)
           f == [m \in M |-> PointsFor(m, M, replicas)]
           h == [m \in M |-> replicas * m.weight]
           b == [i \in E |-> [index |-> i, key |-> slice[i].id, weight |-> slice[i].weight]]
           w == WeightsOf(slice)
           N == RingNodes(M, replicas)
<1>1. IsFiniteSet(M) /\ IsFiniteSet(E) /\ E \in SUBSET DOMAIN slice
  BY RingMembersAre, EligibleIs
<1>2. \A m \in M : m.weight \in Nat \ {0} /\ m.weight \in V
  BY RingMembersAre
<1>3. ASSUME NEW m \in M
      PROVE  f[m] \in Nat \ {0} /\ f[m] <= h[m] /\ f[m] = PointsFor(m, M, replicas)
  <2>1. m.weight \div g \in 1..m.weight
    <3>1. V \in SUBSET (Nat \ {0}) /\ V # {}
      BY <1>2
    <3> HIDE DEF V
    <3> QED
      BY <1>2, <3>1, DivisorIs
  <2>2. f[m] = replicas * (m.weight \div g) /\ h[m] = replicas * m.weight
    BY DEF PointsFor
  <2> DEFINE x == m.weight \div g
             y == m.weight
  <2>3. x \in Nat \ {0} /\ y \in Nat \ {0} /\ x <= y
    BY <1>2, <2>1
  <2> HIDE DEF x, y
  <2>4. replicas * x \in Nat \ {0} /\ replicas * x <= replicas * y
    <3>1. x * replicas <= y * replicas
      BY <2>3, Scaling
    <3> QED
      BY <2>3, <3>1
  <2> QED
    BY <2>2, <2>4 DEF x, y
<1>4. N = SumOf(f, M)
  <2>1. ASSUME NEW k
        PROVE  [t \in SUBSET M |-> IF t = {} THEN 0
                  ELSE LET x == CHOOSE y \in t : TRUE
                       IN  PointsFor(x, M, replicas) + k[t \ {x}]]
               = [t \in SUBSET M |-> StepOf(FALSE, f, t, k)]
    BY DEF StepOf
  <2> HIDE DEF f, M
  <2> QED
    BY <2>1, SumUnfold DEF RingNodes, MapThenSumSet, MapThenFoldSet, Iteration, Recursion
<1>5. N \in Nat /\ \A m \in M : f[m] <= N
  <2> HIDE DEF f, M, N
  <2> QED
    BY <1>1, <1>3, <1>4, SumParts
<1>6. N <= SumOf(h, M)
  <2>1. \A m \in M : f[m] \in Int /\ h[m] \in Int /\ f[m] <= h[m]
    BY <1>2, <1>3
  <2> HIDE DEF f, h, M, N
  <2> QED
    BY <1>1, <1>4, <2>1, SumMonotone
<1>7. SumOf(h, M) = replicas * TotalWeight(slice, E)
  <2> DEFINE u == [i \in E |-> replicas * slice[i].weight]
  <2>1. \A i \in E : w[i] \in Int /\ w[i] = slice[i].weight
    BY <1>1, TotalWeightIs
  <2>2. SumOf(u, E) = replicas * SumOf(w, E)
    <3>1. \A i \in E : w[i] \in Int /\ u[i] = replicas * w[i]
      BY <2>1
    <3> HIDE DEF u, w
    <3> QED
      BY <1>1, <3>1, SumScaled
  <2>3. SumOf(u, E) = SumOf(h, Onto(b, E))
    <3>1. ASSUME NEW i \in E PROVE u[i] \in Int /\ u[i] = h[b[i]]
      <4>1. b[i] \in M /\ b[i].weight = slice[i].weight
        BY RingMembersAre
      <4>2. u[i] = replicas * slice[i].weight /\ slice[i].weight \in Nat
        BY <1>1, CandidateIs
      <4> HIDE DEF b, M
      <4> QED
        BY <4>1, <4>2
    <3>2. \A i, j \in E : b[i] = b[j] => i = j
      OBVIOUS
    <3> HIDE DEF u, h, b, E
    <3> QED
      BY <1>1, <3>1, <3>2, SumOnto
  <2>4. Onto(b, E) = M
    BY DEF Onto, RingMembers
  <2>5. TotalWeight(slice, E) = SumOf(w, E)
    BY <1>1, TotalWeightIs
  <2> HIDE DEF u, h, b, M, w
  <2> QED
    BY <2>2, <2>3, <2>4, <2>5
<1>8. TotalWeight(slice, E) \in Nat
  BY <1>1, TotalWeightIs
<1>9. E = {} => N = 0
  <2> SUFFICES ASSUME E = {} PROVE N = 0
    OBVIOUS
  <2>1. M = {}
    BY RingMembersAre
  <2> HIDE DEF M, f, N
  <2> QED
    BY <1>4, <2>1, SumEmpty
<1>10. N <= TotalWeight(slice, E) * replicas
  <2> DEFINE W == TotalWeight(slice, E)
  <2>1. N <= replicas * W
    BY <1>6, <1>7
  <2> HIDE DEF W, N
  <2> QED
    BY <1>8, <2>1 DEF W
<1> HIDE DEF f, N, M, E
<1> QED
  BY <1>3, <1>5, <1>8, <1>9, <1>10 DEF N, M, E

\* The members of a slice stand for its eligible candidates, one for each.
LEMMA MembersAre ==
  ASSUME NEW p, NEW slice, IsSlice(slice)
  PROVE  /\ IsFiniteSet(MembersOf(p, slice))
         /\ Cardinality(MembersOf(p, slice)) = Cardinality(Eligible(slice))
         /\ (MembersOf(p, slice) = {} <=> Eligible(slice) = {})
         /\ \A m \in MembersOf(p, slice) :
              /\ m.index \in Eligible(slice) /\ m.index \in Nat \ {0}
              /\ m.key = slice[m.index].id /\ m.key \in Id
         /\ \A m, n \in MembersOf(p, slice) : m.index = n.index => m = n
         /\ \A i \in Eligible(slice) : \E m \in MembersOf(p, slice) :
              m.index = i /\ m.key = slice[i].id
         /\ {<<m.index, m.key>> : m \in MembersOf(p, slice)}
              = {<<i, slice[i].id>> : i \in Eligible(slice)}
<1> DEFINE E == Eligible(slice)
           M == MembersOf(p, slice)
           b == [i \in E |-> IF p.kind = "ring_hash"
                  THEN [index |-> i, key |-> slice[i].id, weight |-> slice[i].weight]
                  ELSE [index |-> i, key |-> slice[i].id]]
<1>1. IsFiniteSet(E) /\ E \subseteq DOMAIN slice
  BY EligibleIs
<1>2. M = {b[i] : i \in E} /\ \A i \in E : b[i].index = i /\ b[i].key = slice[i].id
  BY DEF MembersOf, RingMembers, MaglevMembers
<1>3. DOMAIN b = E /\ b = [i \in E |-> b[i]]
  OBVIOUS
<1>4. \A i \in E : slice[i].id \in Id /\ i \in Nat \ {0}
  BY <1>1, CandidateIs
<1> HIDE DEF b, M
<1>5. IsFiniteSet(M) /\ Cardinality(M) = Cardinality(E)
  <2>1. b \in Surjection(E, M)
    BY <1>2, <1>3 DEF Surjection
  <2>2. b \in Injection(E, M)
    BY <1>2, <1>3 DEF Injection, IsInjective
  <2> QED
    BY <1>1, <2>1, <2>2, FS_Surjection
<1>6. \A m \in M : \E i \in E : m = b[i] /\ m.index = i /\ m.key = slice[i].id
  BY <1>2
<1>7. \A i \in E : b[i] \in M /\ b[i].index = i /\ b[i].key = slice[i].id
  BY <1>2
<1>8. {<<m.index, m.key>> : m \in M} = {<<i, slice[i].id>> : i \in E}
  BY <1>6, <1>7
<1>9. M = {} <=> E = {}
  BY <1>6, <1>7
<1> HIDE DEF E
<1> QED
  BY <1>4, <1>5, <1>6, <1>7, <1>8, <1>9 DEF M, E

\* A reconciled cache was built from the slice, unless that has no table; the answer
\* says why.
LEMMA ReconciledIs ==
  ASSUME NEW p, NEW slice, IsSlice(slice), NEW old, IsSlice(old),
         NEW c, BuiltFrom(p, old, c), NEW fits \in BOOLEAN, NEW T,
         fits <=> \/ FitIn(p, MembersOf(p, slice))
                  \/ p.kind = "ring_hash" /\ Repeats(slice, Eligible(slice)),
         fits => T = TableOf(p, MembersOf(p, slice)), NEW x
  PROVE  LET M == MembersOf(p, slice)
             E == Eligible(slice)
             r == Reconciled(slice, c, M, fits, T)
             answer == Answer(slice, r, x)
         IN  \/ answer = Failed("StateCapacityExceeded") /\ r.cache = c /\ ~FitIn(p, M)
             \/ /\ answer = Failed("DuplicateIdentity") /\ r.cache = c
                /\ Repeats(slice, E) /\ E # {}
             \/ r.error = "none" /\ BuiltFrom(p, slice, r.cache)
<1> DEFINE M == MembersOf(p, slice)
           r == Reconciled(slice, c, M, fits, T)
           E == Eligible(slice)
<1>1. CASE M = c.members
  <2>1. r = [error |-> "none", cache |-> c]
    BY <1>1 DEF Reconciled
  <2>2. ~Repeats(slice, E)
    <3> SUFFICES ASSUME NEW i \in E, NEW j \in E, i # j, slice[i].id = slice[j].id
                 PROVE  FALSE
      BY DEF Repeats
    <3>1. PICK m \in M : m.index = i /\ m.key = slice[i].id
      BY MembersAre
    <3>2. PICK n \in M : n.index = j /\ n.key = slice[j].id
      BY MembersAre
    <3>3. m \in MembersOf(p, old) /\ n \in MembersOf(p, old)
      BY <1>1, <3>1, <3>2 DEF BuiltFrom
    <3>4. /\ i \in Eligible(old) /\ old[i].id = slice[i].id
          /\ j \in Eligible(old) /\ old[j].id = slice[j].id
      <4> HIDE DEF M, E
      <4> QED
        BY <3>1, <3>2, <3>3, MembersAre
    <3> QED
      BY <3>4 DEF BuiltFrom, Repeats
  <2>3. BuiltFrom(p, slice, c)
    BY <1>1, <2>2 DEF BuiltFrom
  <2> QED
    BY <2>1, <2>3
<1>2. CASE M # c.members /\ ~fits
  BY <1>2 DEF Reconciled, Answer
<1>3. CASE M # c.members /\ fits /\ Repeats(slice, E)
  <2>1. E # {}
    BY <1>3 DEF Repeats
  <2> QED
    BY <1>3, <2>1 DEF Reconciled, Answer
<1>4. CASE M # c.members /\ fits /\ ~Repeats(slice, E)
  <2>1. r = [error |-> "none", cache |-> Rebuilt(c, M, T)]
    BY <1>4 DEF Reconciled
  <2>2. r.cache.members = M /\ r.cache.table = T /\ r.error = "none"
    BY <2>1 DEF Rebuilt
  <2>3. FitIn(p, M) /\ T = TableOf(p, M)
    BY <1>4
  <2>4. BuiltFrom(p, slice, r.cache)
    <3> HIDE DEF r, M
    <3> QED
      BY <1>4, <2>2, <2>3 DEF BuiltFrom, M
  <2> QED
    BY <2>2, <2>4
<1> QED
  BY <1>1, <1>2, <1>3, <1>4

-----------------------------------------------------------------------------

\* The points of a ring.
LEMMA PointsAre ==
  ASSUME NEW p \in Policies, p.kind = "ring_hash", NEW slice, IsSlice(slice),
         FitIn(p, RingMembers(slice))
  PROVE  LET P == TableOf(p, RingMembers(slice))
         IN  /\ IsFiniteSet(P)
             /\ (P = {} <=> Eligible(slice) = {})
             /\ \A x \in P : /\ x.index \in Eligible(slice) /\ x.index \in Nat
                             /\ x.position = p.hash.point[slice[x.index].id][x.replica]
                             /\ x.owner_hash = p.hash.owner[slice[x.index].id]
                             /\ x.position \in Nat /\ x.owner_hash \in Nat
                             /\ x.replica \in Nat
                             /\ x = [position |-> x.position, owner_hash |-> x.owner_hash,
                                     replica |-> x.replica, index |-> x.index]
<1> DEFINE E == Eligible(slice)
           M == RingMembers(slice)
           P == TableOf(p, M)
           replicas == p.config.replicas
           max == p.config.max_nodes
           Point(m, r) == [position |-> p.hash.point[m.key][r],
                           owner_hash |-> p.hash.owner[m.key],
                           replica |-> r, index |-> m.index]
<1>1. max \in Nat /\ replicas \in Nat \ {0}
  <2>1. ValidRingHashConfig(p.config)
    <3>1. ValidConfig(p)
      BY PoliciesAssumption
    <3> QED
      BY <3>1 DEF ValidConfig, Grouping
  <2> QED
    BY <2>1 DEF ValidRingHashConfig
<1>2. \A id \in Id : /\ p.hash.owner[id] \in Nat
                     /\ \A r \in 0..(max - 1) : p.hash.point[id][r] \in Nat
  <2>1. ValidHash(p) /\ p.kind \notin Hashing
    BY PoliciesAssumption DEF Hashing
  <2> QED
    BY <2>1 DEF ValidHash
<1>3. P = UNION {{Point(m, r) : r \in 0..(PointsFor(m, M, replicas) - 1)} : m \in M}
  BY DEF TableOf, RingPoints
<1>4. \A m \in M : PointsFor(m, M, replicas) \in Nat \ {0} /\ PointsFor(m, M, replicas) <= max
  <2>1. RingNodes(M, replicas) <= max
    BY DEF FitIn, RingNodes
  <2>2. /\ \A m \in M : /\ PointsFor(m, M, replicas) \in Nat \ {0}
                        /\ PointsFor(m, M, replicas) <= RingNodes(M, replicas)
        /\ RingNodes(M, replicas) \in Nat
    BY <1>1, NodesAre
  <2> HIDE DEF M, replicas, max
  <2> QED
    BY <1>1, <2>1, <2>2
<1>5. \A m \in M : /\ m.index \in E /\ m.index \in Nat /\ m.key = slice[m.index].id
                   /\ m.key \in Id
                   /\ m = [index |-> m.index, key |-> m.key, weight |-> slice[m.index].weight]
  BY RingMembersAre
<1>6. ASSUME NEW x \in P
      PROVE  /\ \E m \in M : \E r \in 0..(PointsFor(m, M, replicas) - 1) : x = Point(m, r)
             /\ x.index \in E /\ x.index \in Nat
             /\ x.position = p.hash.point[slice[x.index].id][x.replica]
             /\ x.owner_hash = p.hash.owner[slice[x.index].id]
             /\ x.position \in Nat /\ x.owner_hash \in Nat
             /\ x.replica \in 0..(max - 1)
             /\ x = [position |-> x.position, owner_hash |-> x.owner_hash,
                     replica |-> x.replica, index |-> x.index]
  <2>1. PICK m \in M : \E r \in 0..(PointsFor(m, M, replicas) - 1) : x = Point(m, r)
    BY <1>3
  <2>2. PICK r \in 0..(PointsFor(m, M, replicas) - 1) : x = Point(m, r)
    BY <2>1
  <2>3. r \in 0..(max - 1)
    <3> HIDE DEF max, M, replicas
    <3> QED
      BY <1>1, <1>4
  <2>4. /\ x.index = m.index /\ x.replica = r /\ x.owner_hash = p.hash.owner[m.key]
        /\ x.position = p.hash.point[m.key][r]
    BY <2>2
  <2>5. /\ m.index \in E /\ m.index \in Nat /\ m.key = slice[m.index].id /\ m.key \in Id
    BY <1>5
  <2>6. x = [position |-> x.position, owner_hash |-> x.owner_hash,
             replica |-> x.replica, index |-> x.index]
    BY <2>2
  <2> HIDE DEF Point, M, P, E, max
  <2> QED
    BY <1>2, <2>1, <2>3, <2>4, <2>5, <2>6, <2>2
<1>7. P = {} <=> E = {}
  <2>1. ASSUME NEW m \in M PROVE P # {}
    <3>1. 0 \in 0..(PointsFor(m, M, replicas) - 1)
      BY <1>4
    <3>2. Point(m, 0) \in P
      BY <1>3, <3>1
    <3> QED
      BY <3>2
  <2>2. M = {} <=> E = {}
    BY RingMembersAre
  <2>3. P # {} => M # {}
    BY <1>6
  <2> QED
    BY <2>1, <2>2, <2>3
<1>8. IsFiniteSet(P)
  <2> DEFINE f == [x \in P |-> <<x.index, x.replica>>]
             B == E \X (0..max)
  <2>1. IsFiniteSet(B)
    <3>1. IsFiniteSet(E) /\ IsFiniteSet(0..max)
      BY <1>1, EligibleIs, FS_Interval
    <3> QED
      BY <3>1, FS_Product
  <2>2. f \in Injection(P, B)
    <3>1. f \in [P -> B]
      <4> SUFFICES ASSUME NEW x \in P PROVE <<x.index, x.replica>> \in E \X (0..max)
        OBVIOUS
      <4>1. x.index \in E /\ x.replica \in 0..(max - 1)
        BY <1>6
      <4>2. x.replica \in 0..max
        BY <1>1, <4>1
      <4> HIDE DEF E, max, P
      <4> QED
        BY <4>1, <4>2
    <3>2. ASSUME NEW x \in P, NEW y \in P, f[x] = f[y] PROVE x = y
      <4>1. x.index = y.index /\ x.replica = y.replica
        BY <3>2
      <4>2. /\ x.position = p.hash.point[slice[x.index].id][x.replica]
            /\ x.owner_hash = p.hash.owner[slice[x.index].id]
            /\ x = [position |-> x.position, owner_hash |-> x.owner_hash,
                    replica |-> x.replica, index |-> x.index]
        BY <1>6
      <4>3. /\ y.position = p.hash.point[slice[y.index].id][y.replica]
            /\ y.owner_hash = p.hash.owner[slice[y.index].id]
            /\ y = [position |-> y.position, owner_hash |-> y.owner_hash,
                    replica |-> y.replica, index |-> y.index]
        BY <1>6
      <4> HIDE DEF P, f
      <4> QED
        BY <4>1, <4>2, <4>3
    <3> HIDE DEF f, P, B
    <3>3. DOMAIN f = P
      BY <3>1
    <3> QED
      BY <3>1, <3>2, <3>3 DEF Injection, IsInjective
  <2> HIDE DEF f, P, B
  <2> QED
    BY <2>1, <2>2, FS_Injection
<1>9. \A x \in P : x.replica \in Nat
  BY <1>1, <1>6
<1> HIDE DEF P, E, max, Point
<1> QED
  BY <1>6, <1>7, <1>8, <1>9 DEF P, E

\* Any of the points of a ring have a first one.
LEMMA FirstPoint ==
  ASSUME NEW p \in Policies, p.kind = "ring_hash", NEW slice, IsSlice(slice),
         FitIn(p, RingMembers(slice)),
         NEW T \in SUBSET TableOf(p, RingMembers(slice)), T # {}
  PROVE  First(T) \in T /\ \A x \in T \ {First(T)} : Before(First(T), x)
<1> DEFINE P == TableOf(p, RingMembers(slice))
           a == [x \in T |-> x.position]
           b == [x \in T |-> x.owner_hash]
           c == [x \in T |-> x.replica]
           d == [x \in T |-> x.index]
           Earlier(x, y) ==
             \/ a[x] < a[y]
             \/ a[x] = a[y] /\ b[x] < b[y]
             \/ a[x] = a[y] /\ b[x] = b[y] /\ c[x] < c[y]
             \/ a[x] = a[y] /\ b[x] = b[y] /\ c[x] = c[y] /\ d[x] < d[y]
           R == {z \in T \X T : Earlier(z[1], z[2])}
<1>1. /\ IsFiniteSet(P)
      /\ \A x \in P : /\ x.index \in Nat /\ x.position \in Nat
                      /\ x.owner_hash \in Nat /\ x.replica \in Nat
                      /\ x = [position |-> x.position, owner_hash |-> x.owner_hash,
                              replica |-> x.replica, index |-> x.index]
  BY PointsAre
<1>2. /\ IsFiniteSet(T)
      /\ \A x \in T : a[x] \in Nat /\ b[x] \in Nat /\ c[x] \in Nat /\ d[x] \in Nat
      /\ \A x, y \in T : a[x] = a[y] /\ b[x] = b[y] /\ c[x] = c[y] /\ d[x] = d[y] => x = y
  <2>1. IsFiniteSet(T)
    <3> HIDE DEF P
    <3>1. T \in SUBSET P
      BY DEF P
    <3> QED
      BY <1>1, <3>1, FS_Subset
  <2>2. \A x \in T : a[x] \in Nat /\ b[x] \in Nat /\ c[x] \in Nat /\ d[x] \in Nat
    BY <1>1
  <2>3. ASSUME NEW x \in T, NEW y \in T,
               a[x] = a[y], b[x] = b[y], c[x] = c[y], d[x] = d[y]
        PROVE  x = y
    <3>1. /\ x = [position |-> x.position, owner_hash |-> x.owner_hash,
                  replica |-> x.replica, index |-> x.index]
          /\ y = [position |-> y.position, owner_hash |-> y.owner_hash,
                  replica |-> y.replica, index |-> y.index]
      BY <1>1
    <3>2. /\ x.position = y.position /\ x.owner_hash = y.owner_hash
          /\ x.replica = y.replica /\ x.index = y.index
      BY <2>3
    <3> QED
      BY <3>1, <3>2
  <2> HIDE DEF a, b, c, d
  <2> QED
    BY <2>1, <2>2, <2>3
<1>3. \A x, y \in T : Earlier(x, y) <=> Before(x, y)
  BY DEF Before
<1>4. \A x, y \in T : <<x, y>> \in R <=> Earlier(x, y)
  OBVIOUS
<1>5. Orders(R, T)
  <2> HIDE DEF R, a, b, c, d
  <2>1. \A x, y \in T : x # y => (Earlier(x, y) \/ Earlier(y, x))
    <3> SUFFICES ASSUME NEW x \in T, NEW y \in T, x # y
                 PROVE  Earlier(x, y) \/ Earlier(y, x)
      OBVIOUS
    <3>1. ~(a[x] = a[y] /\ b[x] = b[y] /\ c[x] = c[y] /\ d[x] = d[y])
      BY <1>2
    <3>2. /\ a[x] \in Nat /\ b[x] \in Nat /\ c[x] \in Nat /\ d[x] \in Nat
          /\ a[y] \in Nat /\ b[y] \in Nat /\ c[y] \in Nat /\ d[y] \in Nat
      BY <1>2
    <3> QED
      BY ONLY <3>1, <3>2
  <2>2. \A x, y, z \in T : Earlier(x, y) /\ Earlier(y, z) => Earlier(x, z)
    <3> SUFFICES ASSUME NEW x \in T, NEW y \in T, NEW z \in T, Earlier(x, y), Earlier(y, z)
                 PROVE  Earlier(x, z)
      OBVIOUS
    <3>1. /\ a[x] \in Nat /\ b[x] \in Nat /\ c[x] \in Nat /\ d[x] \in Nat
          /\ a[y] \in Nat /\ b[y] \in Nat /\ c[y] \in Nat /\ d[y] \in Nat
          /\ a[z] \in Nat /\ b[z] \in Nat /\ c[z] \in Nat /\ d[z] \in Nat
      BY <1>2
    <3>2. Earlier(x, y) /\ Earlier(y, z)
      OBVIOUS
    <3> QED
      BY ONLY <3>1, <3>2
  <2>3. \A x \in T : ~Earlier(x, x)
    BY <1>2
  <2> HIDE DEF Earlier
  <2> QED
    BY <1>4, <2>1, <2>2, <2>3 DEF Orders
<1>6. PICK m \in T : \A x \in T \ {m} : <<m, x>> \in R
  <2> HIDE DEF R
  <2> QED
    BY <1>2, <1>5, FirstOf
<1> HIDE DEF R, Earlier
<1>7. \A x \in T \ {m} : Before(m, x)
  BY <1>3, <1>4, <1>6
<1> QED
  BY <1>7 DEF First

\* The point that answers for a position.
LEMMA ClockwiseIs ==
  ASSUME NEW p \in Policies, p.kind = "ring_hash", NEW slice, IsSlice(slice),
         FitIn(p, RingMembers(slice)), Eligible(slice) # {}, NEW position
  PROVE  LET P == TableOf(p, RingMembers(slice))
             after == {x \in P : x.position >= position}
             x == Clockwise(P, position)
         IN  /\ x \in P
             /\ after # {} => x \in after /\ \A y \in after \ {x} : Before(x, y)
             /\ after = {} => \A y \in P \ {x} : Before(x, y)
<1> DEFINE P == TableOf(p, RingMembers(slice))
           after == {x \in P : x.position >= position}
           x == Clockwise(P, position)
<1>1. P # {}
  BY PointsAre
<1>2. P \in SUBSET P /\ after \in SUBSET P
  OBVIOUS
<1>3. CASE after = {}
  <2>1. x = First(P)
    BY <1>3 DEF Clockwise
  <2>2. First(P) \in P /\ \A y \in P \ {First(P)} : Before(First(P), y)
    <3> HIDE DEF P
    <3> QED
      BY <1>1, <1>2, FirstPoint DEF P
  <2> HIDE DEF P, x, after
  <2>3. /\ x \in P
        /\ after # {} => x \in after /\ \A y \in after \ {x} : Before(x, y)
        /\ after = {} => \A y \in P \ {x} : Before(x, y)
    BY <1>3, <2>1, <2>2
  <2> QED
    BY <2>3 DEF P, x, after
<1>4. CASE after # {}
  <2>1. x = First(after)
    BY <1>4 DEF Clockwise
  <2>2. First(after) \in after /\ \A y \in after \ {First(after)} : Before(First(after), y)
    <3>1. after \in SUBSET TableOf(p, RingMembers(slice))
      OBVIOUS
    <3> HIDE DEF after
    <3> QED
      BY <1>4, <3>1, FirstPoint
  <2>3. after \subseteq P
    OBVIOUS
  <2> HIDE DEF P, x, after
  <2>4. /\ x \in P
        /\ after # {} => x \in after /\ \A y \in after \ {x} : Before(x, y)
        /\ after = {} => \A y \in P \ {x} : Before(x, y)
    BY <1>4, <2>1, <2>2, <2>3
  <2> QED
    BY <2>4 DEF P, x, after
<1> QED
  BY <1>3, <1>4

\* What ring hash answers, and the cache it leaves.
LEMMA RingHashIs ==
  ASSUME NEW p \in Policies, p.kind = "ring_hash", NEW slice, IsSlice(slice),
         NEW old, IsSlice(old), NEW c, BuiltFrom(p, old, c), NEW q
  PROVE  LET o == RingHash(slice, q, p.hash, p.config, c)
             E == Eligible(slice)
             M == RingMembers(slice)
         IN  \/ /\ o.result = Failed("StateCapacityExceeded") /\ o.cache = c
                /\ TotalWeight(slice, E) * p.config.replicas > p.config.max_nodes
                /\ E # {}
             \/ /\ o.result = Failed("DuplicateIdentity") /\ o.cache = c
                /\ Repeats(slice, E) /\ E # {}
             \/ /\ BuiltFrom(p, slice, o.cache)
                /\ E = {} => Nobody(slice, o.result)
                /\ E # {} => /\ Clockwise(TableOf(p, M), p.hash.request[q]).index \in E
                             /\ o.result = Selected(
                                  Clockwise(TableOf(p, M), p.hash.request[q]).index)
<1> DEFINE o == RingHash(slice, q, p.hash, p.config, c)
           E == Eligible(slice)
           M == RingMembers(slice)
           fits == Repeats(slice, E) \/ RingNodes(M, p.config.replicas) <= p.config.max_nodes
           T == RingPoints(M, p.hash, p.config.replicas)
           r == Reconciled(slice, c, M, fits, T)
           x == Clockwise(TableOf(p, M), p.hash.request[q])
<1>1. p.config.max_nodes \in Nat /\ p.config.replicas \in Nat \ {0}
  <2>1. ValidRingHashConfig(p.config)
    <3>1. ValidConfig(p)
      BY PoliciesAssumption
    <3> QED
      BY <3>1 DEF ValidConfig, Grouping
  <2> QED
    BY <2>1 DEF ValidRingHashConfig
<1>2. r = RingReconciled(slice, c, p.hash, p.config)
  BY DEF RingReconciled, RingNodes
<1>3. /\ o.result = Answer(slice, r, Clockwise(r.cache.table, p.hash.request[q]).index)
      /\ o.cache = r.cache
  BY <1>2 DEF RingHash
<1>4. FitIn(p, M) <=> RingNodes(M, p.config.replicas) <= p.config.max_nodes
  BY DEF FitIn, RingNodes
<1>5. M = MembersOf(p, slice) /\ T = TableOf(p, M)
  BY DEF MembersOf, TableOf
<1>6. \/ o.result = Failed("StateCapacityExceeded") /\ o.cache = c /\ ~FitIn(p, M)
      \/ o.result = Failed("DuplicateIdentity") /\ o.cache = c /\ Repeats(slice, E) /\ E # {}
      \/ r.error = "none" /\ BuiltFrom(p, slice, r.cache)
  <2>1. fits <=> \/ FitIn(p, MembersOf(p, slice))
                 \/ p.kind = "ring_hash" /\ Repeats(slice, E)
    BY <1>4, <1>5
  <2>2. fits \in BOOLEAN
    OBVIOUS
  <2> HIDE DEF fits, T, M, o
  <2> QED
    BY <1>3, <1>5, <2>1, <2>2, ReconciledIs
<1>7. ASSUME ~FitIn(p, M)
      PROVE  TotalWeight(slice, E) * p.config.replicas > p.config.max_nodes /\ E # {}
  <2> DEFINE N == RingNodes(M, p.config.replicas)
             W == TotalWeight(slice, E)
  <2>2. N \in Nat /\ N <= W * p.config.replicas /\ (E = {} => N = 0)
    BY <1>1, NodesAre
  <2>3. ~(N <= p.config.max_nodes)
    BY <1>4, <1>7
  <2>4. W \in Nat
    BY EligibleIs, TotalWeightIs
  <2> HIDE DEF N, W, E
  <2>5. W * p.config.replicas > p.config.max_nodes /\ E # {}
    <3> DEFINE k == W * p.config.replicas
    <3>1. k \in Nat
      BY <1>1, <2>4
    <3> HIDE DEF k
    <3>2. N <= k
      BY <2>2 DEF k
    <3>3. k > p.config.max_nodes /\ E # {}
      BY <1>1, <2>2, <2>3, <3>1, <3>2
    <3> QED
      BY <3>3 DEF k
  <2> QED
    BY <2>5 DEF W, E
<1>8. CASE r.error = "none" /\ BuiltFrom(p, slice, r.cache)
  <2>1. /\ BuiltFrom(p, slice, o.cache) /\ r.cache.table = TableOf(p, M)
        /\ FitIn(p, RingMembers(slice))
    BY <1>3, <1>5, <1>8 DEF BuiltFrom
  <2>2. r.cache.table = {} <=> E = {}
    BY <2>1, PointsAre
  <2>3. E = {} => Nobody(slice, o.result)
    BY <1>3, <1>8, <2>2 DEF Answer, Nobody
  <2>4. E # {} => o.result = Selected(x.index)
    BY <1>3, <1>8, <2>1, <2>2 DEF Answer
  <2>5. E # {} => x.index \in E
    <3> SUFFICES ASSUME E # {} PROVE x.index \in E
      OBVIOUS
    <3>1. x \in TableOf(p, M)
      BY <2>1, ClockwiseIs
    <3> QED
      BY <2>1, <3>1, PointsAre
  <2> HIDE DEF o, E, x
  <2> QED
    BY <2>1, <2>3, <2>4, <2>5 DEF o, E, x
<1> QED
  BY <1>6, <1>7, <1>8

\* A prime divides no product of two numbers below it.
LEMMA PrimeDividesNoProduct ==
  ASSUME NEW p \in Nat, IsPrime(p), NEW x \in 1..(p - 1), NEW s \in 1..(p - 1)
  PROVE  (x * s) % p # 0
<1> DEFINE V == {y \in 1..(p - 1) : (y * s) % p = 0}
<1> SUFFICES ASSUME (x * s) % p = 0 PROVE FALSE
  OBVIOUS
<1>1. p >= 2 /\ \A d \in 2..(p - 1) : p % d # 0
  BY DEF IsPrime
<1>2. V \in SUBSET Nat /\ V # {}
  <2>1. x \in V
    OBVIOUS
  <2>2. \A y \in V : y \in Nat
    OBVIOUS
  <2> HIDE DEF V
  <2> QED
    BY <2>1, <2>2
<1>3. Min(V) \in V /\ \A n \in V : Min(V) <= n
  <2> HIDE DEF V
  <2> QED
    BY <1>2, MinIs
<1> DEFINE m == Min(V)
<1>4. m \in 1..(p - 1) /\ (m * s) % p = 0 /\ \A y \in 1..(p - 1) : (y * s) % p = 0 => m <= y
  BY <1>3
<1> HIDE DEF m, V
<1>5. m # 1
  <2> SUFFICES ASSUME m = 1 PROVE FALSE
    OBVIOUS
  <2>1. s \in Int /\ p \in Nat \ {0} /\ s \in 0..(p - 1) /\ s = p * 0 + s
    BY <1>1
  <2>2. s % p = s
    BY ONLY <2>1, Division
  <2>3. m * s = s
    OBVIOUS
  <2> QED
    BY <1>4, <2>2, <2>3
<1> DEFINE q == p \div m
           r == p % m
<1>6. m \in Nat \ {0} /\ p \in Int
  BY <1>4
<1>7. q \in Nat /\ r \in 0..(m - 1) /\ p = m * q + r
  <2>1. /\ p \div m \in Nat /\ p % m \in 0..(m - 1)
        /\ p = m * (p \div m) + (p % m)
    BY ONLY <1>6, p \in Nat, Division
  <2> QED
    BY <2>1
<1>8. r # 0
  <2>1. m \in 2..(p - 1)
    BY <1>4, <1>5
  <2> QED
    BY <1>1, <2>1
<1> DEFINE ms == m * s
           k == ms \div p
<1>9. k \in Nat /\ m * s = p * k
  <2>1. ms \in Nat /\ ms \in Int /\ p \in Nat \ {0}
    BY <1>1, <1>4
  <2>2. ms % p = 0
    BY <1>4
  <2> HIDE DEF ms
  <2>3. /\ ms \div p \in Nat
        /\ ms = p * (ms \div p) + (ms % p)
    BY ONLY <2>1, Division
  <2>4. p * (ms \div p) \in Int
    BY <2>1, <2>3
  <2>5. ms = p * (ms \div p)
    BY <2>2, <2>3, <2>4
  <2> QED
    BY <2>3, <2>5 DEF ms
<1> HIDE DEF q, r, k, ms
<1>10. r * s = p * (s - q * k)
  <2>1. p * s = (m * q + r) * s
    BY <1>7
  <2>2. (m * q + r) * s = q * (m * s) + r * s
    BY <1>4, <1>7
  <2>3. p * s = q * (p * k) + r * s
    BY <1>9, <2>1, <2>2
  <2> QED
    BY <1>7, <1>9, <2>3
<1>11. (r * s) % p = 0
  <2> DEFINE z == s - q * k
             rs == r * s
  <2>1. z \in Int /\ rs \in Int /\ p \in Nat \ {0} /\ 0 \in 0..(p - 1)
    BY <1>1, <1>7, <1>9
  <2>2. rs = p * z + 0
    <3>1. rs = p * z
      BY <1>10
    <3>2. p * z \in Int
      BY <2>1
    <3> HIDE DEF z, rs
    <3> QED
      BY <3>1, <3>2
  <2> HIDE DEF z, rs
  <2>3. rs % p = 0
    BY ONLY <2>1, <2>2, Division
  <2> QED
    BY <2>3 DEF rs
<1>12. r \in 1..(p - 1) /\ r < m
  BY <1>4, <1>7, <1>8
<1> QED
  BY <1>4, <1>7, <1>11, <1>12

\* Steps of one length through a prime number of slots meet every slot once.
LEMMA StepsMeetAll ==
  ASSUME NEW p \in Nat, IsPrime(p), NEW from \in Nat, NEW s \in 1..(p - 1),
         NEW z \in 0..(p - 1)
  PROVE  \E i \in 0..(p - 1) : (from + i * s) % p = z
<1> DEFINE S == 0..(p - 1)
           f == [i \in S |-> (from + i * s) % p]
<1>1. p \in Nat \ {0}
  BY DEF IsPrime
<1>2. \A i \in S : f[i] \in S
  <2> SUFFICES ASSUME NEW i \in S PROVE (from + i * s) % p \in S
    OBVIOUS
  <2> DEFINE a == from + i * s
  <2>1. a \in Int
    OBVIOUS
  <2> HIDE DEF a
  <2>2. a % p \in 0..(p - 1)
    BY ONLY <1>1, <2>1, Division
  <2> QED
    BY <2>2 DEF a
<1>3. ASSUME NEW i \in S, NEW j \in S, i < j, f[i] = f[j] PROVE FALSE
  <2> DEFINE a == from + i * s
             b == from + j * s
             u == a \div p
             v == b \div p
             x == j - i
  <2>1. a \in Int /\ b \in Int /\ x \in 1..(p - 1) /\ x * s = b - a
    BY <1>3
  <2>2. a % p = b % p
    BY <1>3
  <2> HIDE DEF a, b, x
  <2>3. u \in Int /\ a = p * u + (a % p) /\ a % p \in 0..(p - 1)
    BY ONLY <1>1, <2>1, Division
  <2>4. v \in Int /\ b = p * v + (b % p) /\ b % p \in 0..(p - 1)
    BY ONLY <1>1, <2>1, Division
  <2> DEFINE t == a % p
  <2>5. t \in 0..(p - 1) /\ a = p * u + t /\ b = p * v + t
    BY <2>2, <2>3, <2>4
  <2> HIDE DEF t, u, v
  <2>6. x * s = p * (v - u) /\ v - u \in Int
    BY <2>1, <2>3, <2>4, <2>5
  <2> DEFINE y == x * s
             w == v - u
  <2>7. y \in Int /\ w \in Int /\ 0 \in 0..(p - 1) /\ y = p * w + 0
    <3>1. y = p * w /\ w \in Int
      BY <2>6
    <3>2. p * w \in Int
      BY <3>1
    <3> HIDE DEF y, w
    <3> QED
      BY <1>1, <3>1, <3>2
  <2> HIDE DEF y, w
  <2>8. y % p = 0
    BY ONLY <1>1, <2>7, Division
  <2> QED
    BY <2>1, <2>8, PrimeDividesNoProduct DEF y
<1> HIDE DEF f
<1>4. \A i, j \in S : f[i] = f[j] => i = j
  <2>1. \A i, j \in S : i < j \/ j < i \/ i = j
    OBVIOUS
  <2> HIDE DEF S
  <2> QED
    BY <1>3, <2>1
<1>5. IsFiniteSet(S)
  BY FS_Interval
<1>6. f \in Injection(S, S)
  <2>1. DOMAIN f = S /\ f = [i \in S |-> f[i]]
    BY DEF f
  <2> HIDE DEF S
  <2> QED
    BY <1>2, <1>4, <2>1 DEF Injection, IsInjective
<1>7. f \in Surjection(S, S)
  <2> HIDE DEF S
  <2> QED
    BY <1>5, <1>6, FS_Injection
<1>8. \E i \in S : f[i] = z
  BY <1>7 DEF Surjection
<1> QED
  BY <1>8 DEF f

\* The members a table is filled for can be told apart and put in an order.
Ordered(members, hash) ==
  /\ IsFiniteSet(members)
  /\ \A m \in members : hash.order[m.key] \in Nat /\ m.index \in Nat
  /\ \A m, n \in members : m.index = n.index => m = n

TakesTurnBefore(hash, m, n) ==
  \/ hash.order[m.key] < hash.order[n.key]
  \/ hash.order[m.key] = hash.order[n.key] /\ m.index < n.index

InTurns(t, hash, f) ==
  /\ f \in [1..Cardinality(t) -> t]
  /\ \A i, j \in 1..Cardinality(t) : i < j => TakesTurnBefore(hash, f[i], f[j])

\* Finitely many members that an order ranks have an order of turns.
LEMMA TurnsExist ==
  ASSUME NEW M, NEW hash, Ordered(M, hash)
  PROVE  \E f : InTurns(M, hash, f)
<1> DEFINE P == {t \in SUBSET M : \E f : InTurns(t, hash, f)}
           R == {z \in M \X M : TakesTurnBefore(hash, z[2], z[1])}
<1>1. IsFiniteSet(M)
  BY DEF Ordered
<1>2. {} \in P
  <2>1. Cardinality({}) = 0 /\ 1..0 = {}
    BY FS_EmptySet
  <2>2. InTurns({}, hash, [i \in {} |-> i])
    BY <2>1 DEF InTurns
  <2> QED
    BY <2>2
<1>3. Orders(R, M)
  <2> DEFINE a == [m \in M |-> hash.order[m.key]]
             d == [m \in M |-> m.index]
  <2>1. \A m, n \in M : <<m, n>> \in R <=> (a[n] < a[m] \/ (a[n] = a[m] /\ d[n] < d[m]))
    BY DEF TakesTurnBefore
  <2>2. /\ \A m \in M : a[m] \in Nat /\ d[m] \in Nat
        /\ \A m, n \in M : d[m] = d[n] => m = n
    BY DEF Ordered
  <2> HIDE DEF a, d, R
  <2>3. \A m, n \in M : m # n => (<<m, n>> \in R \/ <<n, m>> \in R)
    BY <2>1, <2>2
  <2>4. \A m, n, k \in M : <<m, n>> \in R /\ <<n, k>> \in R => <<m, k>> \in R
    BY <2>1, <2>2
  <2>5. \A m \in M : <<m, m>> \notin R
    BY <2>1, <2>2
  <2> QED
    BY <2>3, <2>4, <2>5 DEF Orders
<1>4. ASSUME NEW t \in SUBSET M, t # {}, \A x \in t : t \ {x} \in P
      PROVE  t \in P
  <2>1. IsFiniteSet(t) /\ Orders(R, t)
    <3>1. IsFiniteSet(t)
      BY <1>1, FS_Subset
    <3> HIDE DEF R
    <3> QED
      BY <1>3, <3>1 DEF Orders
  <2>2. PICK m \in t : \A j \in t \ {m} : <<m, j>> \in R
    <3> HIDE DEF R
    <3> QED
      BY <1>4, <2>1, FirstOf
  <2>3. \A j \in t \ {m} : TakesTurnBefore(hash, j, m)
    BY <2>2
  <2> DEFINE n == Cardinality(t \ {m})
  <2>4. n \in Nat /\ Cardinality(t) = n + 1
    <3>1. IsFiniteSet(t \ {m}) /\ n = Cardinality(t) - 1
      BY <2>1, FS_RemoveElement
    <3>2. n \in Nat
      BY <3>1, FS_CardinalityType
    <3>3. Cardinality(t) \in Nat
      BY <2>1, FS_CardinalityType
    <3> HIDE DEF n
    <3> QED
      BY <3>1, <3>2, <3>3
  <2>5. PICK f : InTurns(t \ {m}, hash, f)
    BY <1>4
  <2>6. /\ f \in [1..n -> t \ {m}]
        /\ \A i, j \in 1..n : i < j => TakesTurnBefore(hash, f[i], f[j])
    BY <2>5 DEF InTurns
  <2> HIDE DEF n, P, R
  <2> DEFINE g == [i \in 1..(n + 1) |-> IF i = n + 1 THEN m ELSE f[i]]
  <2>7. g \in [1..(n + 1) -> t]
    <3>1. \A i \in 1..(n + 1) : i # n + 1 => i \in 1..n
      BY <2>4
    <3> QED
      BY <2>6, <3>1
  <2>8. \A i, j \in 1..(n + 1) : i < j => TakesTurnBefore(hash, g[i], g[j])
    <3> SUFFICES ASSUME NEW i \in 1..(n + 1), NEW j \in 1..(n + 1), i < j
                 PROVE  TakesTurnBefore(hash, g[i], g[j])
      OBVIOUS
    <3>1. i \in 1..n /\ g[i] = f[i] /\ f[i] \in t \ {m}
      BY <2>4, <2>6
    <3>2. CASE j = n + 1
      <4>1. g[j] = m
        BY <3>2
      <4> HIDE DEF g
      <4> QED
        BY <2>3, <3>1, <4>1
    <3>3. CASE j # n + 1
      <4>1. j \in 1..n /\ g[j] = f[j]
        BY <2>4, <3>3
      <4> HIDE DEF g
      <4> QED
        BY <2>6, <3>1, <4>1
    <3> QED
      BY <3>2, <3>3
  <2> HIDE DEF g
  <2>9. InTurns(t, hash, g)
    BY <2>4, <2>7, <2>8 DEF InTurns
  <2> QED
    BY <2>9 DEF P
<1>5. P = SUBSET M
  <2> HIDE DEF P
  <2>1. P \in SUBSET (SUBSET M)
    BY DEF P
  <2> QED
    BY ONLY <1>1, <1>2, <1>4, <2>1, SubsetInduction
<1> QED
  BY <1>5

\* Each member has one turn.
LEMMA TurnIs ==
  ASSUME NEW M, NEW hash, Ordered(M, hash)
  PROVE  /\ Cardinality(M) \in Nat
         /\ Turn(M, hash) \in [1..Cardinality(M) -> M]
         /\ \A i, j \in 1..Cardinality(M) : Turn(M, hash)[i] = Turn(M, hash)[j] => i = j
         /\ \A m \in M : \E i \in 1..Cardinality(M) : Turn(M, hash)[i] = m
<1> DEFINE n == Cardinality(M)
           f == Turn(M, hash)
           T == [1..n -> M]
           InOrder(g) == \A i, j \in DOMAIN g : i < j =>
              \/ hash.order[g[i].key] < hash.order[g[j].key]
              \/ hash.order[g[i].key] = hash.order[g[j].key] /\ g[i].index < g[j].index
<1>1. IsFiniteSet(M) /\ n \in Nat
  BY FS_CardinalityType DEF Ordered
<1>2. \E g \in T : InOrder(g)
  <2>1. PICK g : InTurns(M, hash, g)
    BY TurnsExist
  <2>2. g \in T /\ DOMAIN g = 1..n
    BY <2>1 DEF InTurns
  <2>3. InOrder(g)
    BY <2>1, <2>2 DEF InTurns, TakesTurnBefore
  <2> HIDE DEF InOrder, T
  <2> QED
    BY <2>2, <2>3
<1>3. f = CHOOSE g \in T : InOrder(g)
  BY DEF Turn
<1>4. f \in T /\ InOrder(f)
  <2> HIDE DEF InOrder, T, f
  <2> QED
    BY <1>2, <1>3
<1>5. f \in [1..n -> M] /\ DOMAIN f = 1..n
  BY <1>4
<1>6. ASSUME NEW i \in 1..n, NEW j \in 1..n, i < j PROVE f[i] # f[j]
  <2>1. \/ hash.order[f[i].key] < hash.order[f[j].key]
        \/ hash.order[f[i].key] = hash.order[f[j].key] /\ f[i].index < f[j].index
    BY <1>4, <1>5, <1>6
  <2> HIDE DEF f, n
  <2>2. f[i] \in M
    BY <1>5
  <2>3. hash.order[f[i].key] \in Nat /\ f[i].index \in Nat
    BY <2>2 DEF Ordered
  <2> QED
    BY <2>1, <2>3
<1> HIDE DEF f
<1>7. \A i, j \in 1..n : f[i] = f[j] => i = j
  <2>1. \A i, j \in 1..n : i < j \/ j < i \/ i = j
    BY <1>1
  <2> HIDE DEF n
  <2> QED
    BY <1>6, <2>1
<1>8. IsFiniteSet(1..n) /\ Cardinality(1..n) = n
  <2> HIDE DEF n
  <2>1. 1 \in Int /\ n \in Int
    BY <1>1
  <2>2. IsFiniteSet(1..n) /\ Cardinality(1..n) = IF 1 > n THEN 0 ELSE n - 1 + 1
    BY ONLY <2>1, FS_Interval
  <2> QED
    BY <1>1, <2>2
<1>9. f \in Injection(1..n, M)
  <2> HIDE DEF n
  <2> QED
    BY <1>5, <1>7 DEF Injection, IsInjective
<1>10. f \in Surjection(1..n, M)
  <2>1. Cardinality(1..n) = Cardinality(M)
    BY <1>8
  <2> HIDE DEF n
  <2> QED
    BY ONLY <1>1, <1>9, <2>1, FS_Injection
<1>11. \A m \in M : \E i \in 1..n : f[i] = m
  BY <1>10 DEF Surjection
<1> QED
  BY <1>1, <1>5, <1>7, <1>11 DEF f

\* One turn of the filling, and the function that takes them all.
Taken(hash, size, m, table) ==
  LET Slot(o) == PermutationSlot(hash, size, m.key, o)
      next == Min({o \in 0..(size - 1) : \A e \in table : e[1] # Slot(o)})
  IN  table \cup {<<Slot(next), m.index>>}

MaglevStep(members, hash, size, n, table) ==
  Taken(hash, size,
        Turn(members, hash)[((n - 1) % Len(Turn(members, hash))) + 1], table)

Fills(members, hash, size, k, f) ==
  f = [n \in 0..k |-> IF n = 0 THEN {} ELSE MaglevStep(members, hash, size, n, f[n - 1])]

\* A table can be filled for any number of turns.
LEMMA FillsExist ==
  ASSUME NEW members, NEW hash, NEW size, NEW k \in Nat
  PROVE  \E f : Fills(members, hash, size, k, f)
<1> DEFINE T == {n \in Nat : \E f : Fills(members, hash, size, n, f)}
<1>1. 0 \in T
  <2> DEFINE f == [n \in 0..0 |-> {}]
  <2>1. f = [n \in 0..0 |-> IF n = 0 THEN {} ELSE MaglevStep(members, hash, size, n, f[n - 1])]
    OBVIOUS
  <2> HIDE DEF f
  <2> QED
    BY <2>1 DEF Fills
<1>2. ASSUME NEW n \in T PROVE n + 1 \in T
  <2>1. PICK f : f = [i \in 0..n |-> IF i = 0 THEN {}
                                     ELSE MaglevStep(members, hash, size, i, f[i - 1])]
    BY DEF Fills
  <2> DEFINE g == [i \in 0..(n + 1) |-> IF i = n + 1
                                        THEN MaglevStep(members, hash, size, n + 1, f[n])
                                        ELSE f[i]]
  <2>2. n \in Nat
    OBVIOUS
  <2>3. ASSUME NEW i \in 0..(n + 1)
        PROVE  g[i] = IF i = 0 THEN {} ELSE MaglevStep(members, hash, size, i, g[i - 1])
    <3>1. CASE i = n + 1
      <4>1. g[i] = MaglevStep(members, hash, size, i, f[i - 1])
        BY <2>2, <3>1
      <4>2. i - 1 = n /\ n \in 0..(n + 1) /\ n # n + 1 /\ i # 0
        BY <2>2, <3>1
      <4>3. g[i - 1] = f[i - 1]
        BY <4>2
      <4> HIDE DEF g
      <4> QED
        BY <4>1, <4>2, <4>3
    <3>2. CASE i # n + 1
      <4>1. i \in 0..n /\ g[i] = f[i]
        BY <2>2, <3>2
      <4>2. f[i] = IF i = 0 THEN {} ELSE MaglevStep(members, hash, size, i, f[i - 1])
        BY <2>1, <4>1
      <4>3. i # 0 => g[i - 1] = f[i - 1]
        <5>1. i # 0 => i - 1 \in 0..(n + 1) /\ i - 1 # n + 1
          BY <2>2, <4>1
        <5> QED
          BY <5>1
      <4> HIDE DEF g
      <4> QED
        BY <4>1, <4>2, <4>3
    <3> QED
      BY <3>1, <3>2
  <2>4. g = [i \in 0..(n + 1) |-> IF i = 0 THEN {}
                                  ELSE MaglevStep(members, hash, size, i, g[i - 1])]
    <3>1. DOMAIN g = 0..(n + 1) /\ g = [i \in 0..(n + 1) |-> g[i]]
      OBVIOUS
    <3> HIDE DEF g
    <3> QED
      BY <2>3, <3>1
  <2> HIDE DEF g
  <2>5. Fills(members, hash, size, n + 1, g)
    BY <2>4 DEF Fills
  <2> QED
    BY <2>2, <2>5
<1>3. T = Nat
  <2>1. T \in SUBSET Nat
    OBVIOUS
  <2> HIDE DEF T
  <2> QED
    BY ONLY <1>1, <1>2, <2>1, Induction
<1> QED
  BY <1>3

\* The table of members is what the last of the turns leaves.
LEMMA TableIsFilled ==
  ASSUME NEW members, members # {}, NEW hash, NEW size \in Nat
  PROVE  \E f : /\ PopulateTable(members, hash, size) = f[size]
                /\ f[0] = {}
                /\ \A n \in 1..size : f[n] = MaglevStep(members, hash, size, n, f[n - 1])
<1> DEFINE f == CHOOSE g : Fills(members, hash, size, size, g)
<1>1. Fills(members, hash, size, size, f)
  BY FillsExist
<1>2. PopulateTable(members, hash, size) = f[size]
  BY DEF PopulateTable, Fills, MaglevStep, Taken
<1> HIDE DEF f
<1>3. f = [n \in 0..size |-> IF n = 0 THEN {} ELSE MaglevStep(members, hash, size, n, f[n - 1])]
  BY <1>1 DEF Fills
<1>4. f[0] = {}
  <2>1. 0 \in 0..size
    OBVIOUS
  <2> QED
    BY <1>3, <2>1
<1>5. ASSUME NEW n \in 1..size PROVE f[n] = MaglevStep(members, hash, size, n, f[n - 1])
  <2>1. n \in 0..size /\ n # 0
    OBVIOUS
  <2> QED
    BY <1>3, <2>1
<1> QED
  BY <1>2, <1>4, <1>5

-----------------------------------------------------------------------------

\* A table that n turns have filled: its slots differ and the members have
\* equal parts, but for one slot of those whose turn has come once more.
SlotsOf(table, m) == {e \in table : e[2] = m.index}

Parts(members, hash, n, table) ==
  LET c == Cardinality(members)
  IN  \E q \in Nat, r \in 0..(c - 1) :
        /\ n = c * q + r
        /\ \A j \in 1..c : Cardinality(SlotsOf(table, Turn(members, hash)[j]))
                             = q + IF j <= r THEN 1 ELSE 0

FilledTo(members, hash, size, n, table) ==
  /\ IsFiniteSet(table) /\ Cardinality(table) = n
  /\ \A e \in table : /\ e[1] \in 0..(size - 1)
                      /\ \E m \in members : e[2] = m.index
                      /\ e = <<e[1], e[2]>>
  /\ \A d, e \in table : d[1] = e[1] => d = e
  /\ Parts(members, hash, n, table)

\* The hashes a table of prime size is filled by.
Permuting(members, hash, size) ==
  /\ size \in Nat /\ IsPrime(size)
  /\ Ordered(members, hash) /\ members # {}
  /\ \A m \in members : hash.offset[m.key] \in Nat /\ hash.skip[m.key] \in Nat

\* The member whose turn it is has a slot left in a table that is not full.
LEMMA SlotIsLeft ==
  ASSUME NEW members, NEW hash, NEW size, Permuting(members, hash, size),
         NEW table, NEW n \in Nat, n < size,
         IsFiniteSet(table), Cardinality(table) = n,
         \A e \in table : e[1] \in 0..(size - 1),
         NEW m \in members
  PROVE  LET Slot(o) == PermutationSlot(hash, size, m.key, o)
             O == {o \in 0..(size - 1) : \A e \in table : e[1] # Slot(o)}
         IN  Min(O) \in O /\ Slot(Min(O)) \in 0..(size - 1)
<1> DEFINE Slot(o) == PermutationSlot(hash, size, m.key, o)
           O == {o \in 0..(size - 1) : \A e \in table : e[1] # Slot(o)}
           S == 0..(size - 1)
           f == [e \in table |-> e[1]]
<1>1. size \in Nat /\ size >= 2
  BY DEF Permuting, IsPrime
<1>2. IsFiniteSet(S) /\ Cardinality(S) = size
  <2>1. 0 \in Int /\ size - 1 \in Int
    BY <1>1
  <2>2. IsFiniteSet(S) /\ Cardinality(S) = IF 0 > size - 1 THEN 0 ELSE size - 1 - 0 + 1
    BY ONLY <2>1, FS_Interval
  <2> QED
    BY <1>1, <2>2
<1>3. PICK z \in S : \A e \in table : e[1] # z
  <2> SUFFICES ASSUME \A z \in S : \E e \in table : e[1] = z PROVE FALSE
    OBVIOUS
  <2>1. f \in Surjection(table, S)
    <3>1. \A e \in table : f[e] = e[1] /\ e[1] \in S
      OBVIOUS
    <3>2. DOMAIN f = table /\ f = [e \in table |-> f[e]]
      OBVIOUS
    <3> HIDE DEF S, f
    <3>3. f \in [table -> S]
      BY <3>1, <3>2
    <3>4. \A z \in S : \E e \in table : f[e] = z
      BY <3>1
    <3> QED
      BY <3>3, <3>4 DEF Surjection
  <2>2. Cardinality(S) <= Cardinality(table)
    <3> HIDE DEF f, S
    <3> QED
      BY <2>1, FS_Surjection
  <2> HIDE DEF S
  <2> QED
    BY <1>1, <1>2, <2>2
<1> DEFINE from == hash.offset[m.key] % size
           s == (hash.skip[m.key] % (size - 1)) + 1
<1>4. from \in Nat /\ s \in 1..(size - 1)
  <2> DEFINE a == hash.offset[m.key]
             b == hash.skip[m.key]
             d == size - 1
  <2>1. a \in Int /\ b \in Int /\ d \in Nat \ {0} /\ size \in Nat \ {0}
    BY <1>1 DEF Permuting
  <2> HIDE DEF a, b, d
  <2>2. a % size \in 0..(size - 1) /\ b % d \in 0..(d - 1)
    BY ONLY <2>1, Division
  <2> DEFINE x == a % size
             y == b % d
  <2>3. x \in 0..(size - 1) /\ y \in 0..(d - 1)
    BY <2>2
  <2>4. from = x /\ s = y + 1
    BY DEF a, b, d
  <2> HIDE DEF x, y, from, s
  <2> QED
    BY <1>1, <2>3, <2>4 DEF d
<1>5. \A o : Slot(o) = (from + o * s) % size
  BY DEF PermutationSlot
<1>6. \A o \in S : Slot(o) \in S
  <2> SUFFICES ASSUME NEW o \in S PROVE (from + o * s) % size \in S
    BY <1>5
  <2> HIDE DEF from, s
  <2> DEFINE a == from + o * s
  <2>1. a \in Int /\ size \in Nat \ {0}
    BY <1>1, <1>4
  <2> HIDE DEF a
  <2>2. a % size \in 0..(size - 1)
    BY ONLY <2>1, Division
  <2> QED
    BY <2>2 DEF a
<1> HIDE DEF from, s
<1>7. PICK o \in S : Slot(o) = z
  <2>1. \E i \in 0..(size - 1) : (from + i * s) % size = z
    BY <1>1, <1>4, StepsMeetAll DEF Permuting
  <2> HIDE DEF Slot
  <2> QED
    BY <1>5, <2>1
<1>8. o \in O /\ O \in SUBSET Nat
  <2>1. o \in O
    BY <1>3, <1>7
  <2>2. \A x \in O : x \in Nat
    OBVIOUS
  <2> HIDE DEF O
  <2> QED
    BY <2>1, <2>2
<1>9. Min(O) \in O
  <2> HIDE DEF O
  <2> QED
    BY <1>8, MinIs
<1>10. Min(O) \in S
  BY <1>9
<1> HIDE DEF O, Slot
<1>11. Slot(Min(O)) \in S
  BY <1>6, <1>10
<1> QED
  BY <1>9, <1>11 DEF O, Slot

\* A turn gives the member whose turn it is one slot more.
LEMMA TurnTaken ==
  ASSUME NEW members, NEW hash, NEW size, Permuting(members, hash, size),
         NEW n \in Nat, n < size, NEW table, FilledTo(members, hash, size, n, table)
  PROVE  FilledTo(members, hash, size, n + 1, MaglevStep(members, hash, size, n + 1, table))
<1> DEFINE c == Cardinality(members)
           turn == Turn(members, hash)
<1>1. /\ c \in Nat /\ turn \in [1..c -> members]
      /\ \A i, j \in 1..c : turn[i] = turn[j] => i = j
  BY TurnIs DEF Permuting
<1>2. \A a, b \in members : a.index = b.index => a = b
  BY DEF Permuting, Ordered
<1>3. c # 0
  <2>1. IsFiniteSet(members) /\ members # {}
    BY DEF Permuting, Ordered
  <2> QED
    BY <2>1, FS_EmptySet
<1>4. PICK q \in Nat, r \in 0..(c - 1) :
        /\ n = c * q + r
        /\ \A j \in 1..c : Cardinality(SlotsOf(table, turn[j])) = q + IF j <= r THEN 1 ELSE 0
  BY DEF FilledTo, Parts
<1> HIDE DEF c, turn
<1>5. Len(turn) = c
  BY <1>1
<1>6. ((n + 1 - 1) % Len(turn)) + 1 = r + 1 /\ r + 1 \in 1..c
  <2>1. n \in Int /\ c \in Nat \ {0} /\ q \in Int /\ r \in 0..(c - 1) /\ n = c * q + r
    BY <1>1, <1>3, <1>4
  <2>2. n % c = r
    BY ONLY <2>1, Division
  <2>3. n + 1 - 1 = n
    OBVIOUS
  <2>4. r + 1 \in 1..c
    BY <2>1
  <2> QED
    BY <1>5, <2>2, <2>3, <2>4
<1> DEFINE m == turn[r + 1]
           Slot(o) == PermutationSlot(hash, size, m.key, o)
           O == {o \in 0..(size - 1) : \A e \in table : e[1] # Slot(o)}
           x == <<Slot(Min(O)), m.index>>
           new == table \cup {x}
<1>7. MaglevStep(members, hash, size, n + 1, table) = new
  <2>1. turn[((n + 1 - 1) % Len(turn)) + 1] = m
    BY <1>6
  <2>2. MaglevStep(members, hash, size, n + 1, table) = Taken(hash, size, m, table)
    BY <2>1 DEF MaglevStep, turn
  <2> HIDE DEF m
  <2> QED
    BY <2>2 DEF Taken
<1>8. m \in members
  BY <1>1, <1>6
<1>9. Min(O) \in O /\ Slot(Min(O)) \in 0..(size - 1)
  <2> HIDE DEF m
  <2>1. /\ IsFiniteSet(table) /\ Cardinality(table) = n
        /\ \A e \in table : e[1] \in 0..(size - 1)
    BY DEF FilledTo
  <2> QED
    BY <1>8, <2>1, SlotIsLeft
<1> DEFINE z == Slot(Min(O))
<1>10. z \in 0..(size - 1) /\ \A e \in table : e[1] # z
  <2>1. \A o \in O : \A e \in table : e[1] # Slot(o)
    OBVIOUS
  <2> HIDE DEF O, Slot
  <2> QED
    BY <1>9, <2>1
<1>11. x = <<z, m.index>> /\ new = table \cup {x}
  OBVIOUS
<1> HIDE DEF z, O, Slot, m
<1>12. x[1] = z /\ x[2] = m.index /\ x \notin table /\ x = <<x[1], x[2]>>
  BY <1>10, <1>11
<1> HIDE DEF x
<1>13. IsFiniteSet(new) /\ Cardinality(new) = n + 1
  <2>1. IsFiniteSet(table) /\ Cardinality(table) = n
    BY DEF FilledTo
  <2> QED
    BY <1>12, <2>1, FS_AddElement
<1>14. \A e \in new : /\ e[1] \in 0..(size - 1)
                      /\ \E a \in members : e[2] = a.index
                      /\ e = <<e[1], e[2]>>
  <2>1. \A e \in table : /\ e[1] \in 0..(size - 1)
                         /\ \E a \in members : e[2] = a.index
                         /\ e = <<e[1], e[2]>>
    BY DEF FilledTo
  <2>2. /\ x[1] \in 0..(size - 1)
        /\ \E a \in members : x[2] = a.index
        /\ x = <<x[1], x[2]>>
    BY <1>8, <1>10, <1>12
  <2> QED
    BY <2>1, <2>2
<1>15. \A d, e \in new : d[1] = e[1] => d = e
  <2>1. \A d, e \in table : d[1] = e[1] => d = e
    BY DEF FilledTo
  <2>2. \A e \in table : e[1] # x[1]
    BY <1>10, <1>12
  <2> QED
    BY <2>1, <2>2
<1>16. ASSUME NEW j \in 1..c
       PROVE  /\ j = r + 1 => Cardinality(SlotsOf(new, turn[j])) = q + 1
              /\ j # r + 1 => Cardinality(SlotsOf(new, turn[j]))
                                = q + IF j <= r THEN 1 ELSE 0
  <2>1. CASE j = r + 1
    <3>1. SlotsOf(new, turn[j]) = SlotsOf(table, turn[j]) \cup {x}
      BY <1>12, <2>1 DEF SlotsOf, m
    <3>2. x \notin SlotsOf(table, turn[j])
      BY <1>12 DEF SlotsOf
    <3>3. IsFiniteSet(SlotsOf(table, turn[j]))
      <4>1. IsFiniteSet(table) /\ SlotsOf(table, turn[j]) \in SUBSET table
        BY DEF FilledTo, SlotsOf
      <4> QED
        BY <4>1, FS_Subset
    <3>4. Cardinality(SlotsOf(table, turn[j])) = q + 0
      <4>1. ~(j <= r)
        BY <1>4, <2>1
      <4> QED
        BY <1>4, <4>1
    <3>5. Cardinality(SlotsOf(new, turn[j])) = q + 1
      <4> DEFINE s == SlotsOf(table, turn[j])
      <4>1. SlotsOf(new, turn[j]) = s \cup {x} /\ x \notin s /\ IsFiniteSet(s)
        BY <3>1, <3>2, <3>3
      <4>2. Cardinality(s) = q
        BY <3>4
      <4> HIDE DEF s, new
      <4> QED
        BY <4>1, <4>2, FS_AddElement
    <3> QED
      BY <2>1, <3>5
  <2>2. CASE j # r + 1
    <3>1. turn[j].index # m.index
      <4>1. turn[j] # m /\ turn[j] \in members
        BY <1>1, <1>6, <2>2 DEF m
      <4> QED
        BY <1>2, <1>8, <4>1
    <3>2. SlotsOf(new, turn[j]) = SlotsOf(table, turn[j])
      BY <1>12, <3>1 DEF SlotsOf
    <3> HIDE DEF new
    <3> QED
      BY <1>4, <2>2, <3>2
  <2> QED
    BY <2>1, <2>2
<1> HIDE DEF new
<1>17. Parts(members, hash, n + 1, new)
  <2>1. CASE r + 1 < c
    <3> DEFINE k == r + 1
    <3>1. k \in 0..(c - 1) /\ n + 1 = c * q + k
      BY <1>1, <1>4, <2>1
    <3>2. ASSUME NEW j \in 1..c
          PROVE  Cardinality(SlotsOf(new, turn[j])) = q + IF j <= k THEN 1 ELSE 0
      <4>1. CASE j = r + 1
        BY <1>4, <1>16, <4>1
      <4>2. CASE j # r + 1
        <5>1. j <= k <=> j <= r
          BY <1>4, <4>2
        <5> QED
          BY <1>16, <4>2, <5>1
      <4> QED
        BY <4>1, <4>2
    <3> HIDE DEF k
    <3> QED
      BY <3>1, <3>2 DEF Parts, c, turn
  <2>2. CASE r + 1 = c
    <3> DEFINE k == q + 1
    <3>1. k \in Nat /\ 0 \in 0..(c - 1) /\ n + 1 = c * k + 0
      <4>1. c * q \in Nat /\ c * (q + 1) = c * q + c
        BY <1>1, <1>4
      <4> QED
        BY <1>1, <1>3, <1>4, <2>2, <4>1
    <3>2. ASSUME NEW j \in 1..c
          PROVE  Cardinality(SlotsOf(new, turn[j])) = k + IF j <= 0 THEN 1 ELSE 0
      <4>1. ~(j <= 0)
        BY <1>1
      <4>2. CASE j = r + 1
        BY <1>4, <1>16, <4>1, <4>2
      <4>3. CASE j # r + 1
        <5>1. j <= r
          BY <1>1, <1>4, <2>2, <4>3
        <5> QED
          BY <1>4, <1>16, <4>1, <4>3, <5>1
      <4> QED
        BY <4>2, <4>3
    <3> HIDE DEF k
    <3> QED
      BY <3>1, <3>2 DEF Parts, c, turn
  <2> QED
    BY <1>1, <1>4, <2>1, <2>2
<1>18. FilledTo(members, hash, size, n + 1, new)
  BY <1>13, <1>14, <1>15, <1>17 DEF FilledTo
<1> QED
  BY <1>7, <1>18 DEF new

\* The table of members has each slot once, and equal parts but for one slot.
LEMMA TableIsFull ==
  ASSUME NEW members, NEW hash, NEW size, Permuting(members, hash, size)
  PROVE  FilledTo(members, hash, size, size, PopulateTable(members, hash, size))
<1>1. size \in Nat /\ members # {}
  BY DEF Permuting
<1>2. \E f : /\ PopulateTable(members, hash, size) = f[size]
             /\ f[0] = {}
             /\ \A n \in 1..size : f[n] = MaglevStep(members, hash, size, n, f[n - 1])
  BY ONLY <1>1, TableIsFilled
<1>3. PICK f : /\ PopulateTable(members, hash, size) = f[size]
               /\ f[0] = {}
               /\ \A n \in 1..size : f[n] = MaglevStep(members, hash, size, n, f[n - 1])
  BY <1>2
<1> DEFINE T == {n \in Nat : n <= size => FilledTo(members, hash, size, n, f[n])}
<1>4. 0 \in T
  <2> DEFINE c == Cardinality(members)
  <2>1. c \in Nat \ {0}
    <3>1. IsFiniteSet(members)
      BY DEF Permuting, Ordered
    <3>2. c \in Nat
      BY <3>1, FS_CardinalityType
    <3>3. c # 0
      BY <1>1, <3>1, FS_EmptySet
    <3> QED
      BY <3>2, <3>3
  <2>2. IsFiniteSet({}) /\ Cardinality({}) = 0
    BY FS_EmptySet
  <2>3. Parts(members, hash, 0, {})
    <3>1. 0 \in Nat /\ 0 \in 0..(c - 1) /\ 0 = c * 0 + 0
      BY <2>1
    <3>2. ASSUME NEW j \in 1..c
          PROVE  Cardinality(SlotsOf({}, Turn(members, hash)[j])) = 0 + IF j <= 0 THEN 1 ELSE 0
      <4>1. SlotsOf({}, Turn(members, hash)[j]) = {}
        BY DEF SlotsOf
      <4>2. ~(j <= 0)
        BY <2>1
      <4> QED
        BY <2>2, <4>1, <4>2
    <3> QED
      BY <3>1, <3>2 DEF Parts
  <2>4. FilledTo(members, hash, size, 0, {})
    BY <2>2, <2>3 DEF FilledTo
  <2> QED
    BY <1>3, <2>4
<1>5. ASSUME NEW n \in T PROVE n + 1 \in T
  <2>1. n \in Nat
    OBVIOUS
  <2>2. ASSUME n + 1 <= size PROVE FilledTo(members, hash, size, n + 1, f[n + 1])
    <3>1. n < size /\ n <= size /\ n + 1 \in 1..size /\ n + 1 - 1 = n
      BY <1>1, <2>1, <2>2
    <3>2. FilledTo(members, hash, size, n, f[n])
      BY <3>1
    <3>3. f[n + 1] = MaglevStep(members, hash, size, n + 1, f[n])
      <4>1. f[n + 1] = MaglevStep(members, hash, size, n + 1, f[n + 1 - 1])
        BY <1>3, <3>1
      <4> QED
        BY <3>1, <4>1
    <3> HIDE DEF T
    <3> QED
      BY <2>1, <3>1, <3>2, <3>3, TurnTaken
  <2> QED
    BY <2>1, <2>2
<1>6. T = Nat
  <2>1. T \in SUBSET Nat
    OBVIOUS
  <2> HIDE DEF T
  <2> QED
    BY ONLY <1>4, <1>5, <2>1, Induction
<1>7. FilledTo(members, hash, size, size, f[size])
  <2>1. size \in T
    BY <1>1, <1>6
  <2> QED
    BY <1>1, <2>1
<1> QED
  BY <1>7, <1>3

\* The members of a Maglev table have permutations of a prime size.
LEMMA MembersPermute ==
  ASSUME NEW p \in Policies, p.kind = "maglev", NEW slice, IsSlice(slice)
  PROVE  /\ p.config.table_size \in Nat /\ IsPrime(p.config.table_size)
         /\ \A q \in Request : p.hash.request[q] \in Nat
         /\ Eligible(slice) # {} =>
              Permuting(MembersOf(p, slice), p.hash, p.config.table_size)
<1>1. p.config.table_size \in Nat /\ IsPrime(p.config.table_size)
  <2>1. ValidMaglevConfig(p.config)
    <3>1. ValidConfig(p)
      BY PoliciesAssumption
    <3> QED
      BY <3>1 DEF ValidConfig, Grouping
  <2> QED
    BY <2>1 DEF ValidMaglevConfig
<1>2. /\ \A id \in Id : /\ p.hash.offset[id] \in Nat /\ p.hash.skip[id] \in Nat
                        /\ p.hash.order[id] \in Nat
      /\ \A q \in Request : p.hash.request[q] \in Nat
  <2>1. ValidHash(p) /\ p.kind \notin Hashing
    BY PoliciesAssumption DEF Hashing
  <2> QED
    BY <2>1 DEF ValidHash
<1>3. ASSUME Eligible(slice) # {}
      PROVE  Permuting(MembersOf(p, slice), p.hash, p.config.table_size)
  <2> DEFINE M == MembersOf(p, slice)
  <2>1. /\ IsFiniteSet(M) /\ M # {}
        /\ \A m \in M : m.key \in Id /\ m.index \in Nat
        /\ \A m, n \in M : m.index = n.index => m = n
    BY <1>3, MembersAre
  <2> HIDE DEF M
  <2>2. Ordered(M, p.hash)
    BY <1>2, <2>1 DEF Ordered
  <2> QED
    BY <1>1, <1>2, <2>1, <2>2 DEF Permuting, M
<1> QED
  BY <1>1, <1>2, <1>3

\* The slot of a request has an owner, who is a member.
LEMMA SlotHasOwner ==
  ASSUME NEW members, NEW hash, NEW size \in Nat \ {0}, NEW table,
         FilledTo(members, hash, size, size, table), NEW slot \in 0..(size - 1)
  PROVE  \E e \in table : e[1] = slot
<1> DEFINE S == 0..(size - 1)
           f == [e \in table |-> e[1]]
<1>1. /\ IsFiniteSet(table) /\ Cardinality(table) = size
      /\ \A e \in table : e[1] \in S
      /\ \A d, e \in table : d[1] = e[1] => d = e
  BY DEF FilledTo
<1>2. IsFiniteSet(S) /\ Cardinality(S) = size
  <2>1. 0 \in Int /\ size - 1 \in Int
    OBVIOUS
  <2>2. IsFiniteSet(S) /\ Cardinality(S) = IF 0 > size - 1 THEN 0 ELSE size - 1 - 0 + 1
    BY ONLY <2>1, FS_Interval
  <2> QED
    BY <2>2
<1>3. \A e \in table : f[e] = e[1]
  OBVIOUS
<1>4. DOMAIN f = table /\ f = [e \in table |-> f[e]]
  OBVIOUS
<1>5. slot \in S
  OBVIOUS
<1> HIDE DEF S, f
<1>6. f \in Injection(table, S)
  BY <1>1, <1>3, <1>4 DEF Injection, IsInjective
<1>7. f \in Surjection(table, S)
  BY <1>1, <1>2, <1>6, FS_Injection
<1> QED
  BY <1>3, <1>5, <1>7 DEF Surjection

\* What Maglev answers, and the cache it leaves.
LEMMA MaglevIs ==
  ASSUME NEW p \in Policies, p.kind = "maglev", NEW slice, IsSlice(slice),
         NEW old, IsSlice(old), NEW c, BuiltFrom(p, old, c), NEW q \in Request
  PROVE  LET o == Maglev(slice, q, p.hash, p.config, c)
             E == Eligible(slice)
         IN  \/ /\ o.result = Failed("StateCapacityExceeded") /\ o.cache = c
                /\ Cardinality(E) > p.config.table_size /\ E # {}
             \/ /\ o.result = Failed("DuplicateIdentity") /\ o.cache = c
                /\ Repeats(slice, E) /\ E # {}
             \/ /\ BuiltFrom(p, slice, o.cache)
                /\ E = {} => Nobody(slice, o.result)
                /\ E # {} => LET i == OwnerOf(o.cache.table,
                                             p.hash.request[q] % p.config.table_size)
                             IN  i \in E /\ o.result = Selected(i)
<1> DEFINE o == Maglev(slice, q, p.hash, p.config, c)
           E == Eligible(slice)
           M == MaglevMembers(slice)
           size == p.config.table_size
           fits == Cardinality(M) <= size
           T == IF fits THEN PopulateTable(M, p.hash, size) ELSE {}
           r == Reconciled(slice, c, M, fits, T)
           slot == p.hash.request[q] % size
           x == CHOOSE e \in r.cache.table : e[1] = slot
<1>1. size \in Nat \ {0} /\ p.hash.request[q] \in Nat
  <2>1. size \in Nat /\ IsPrime(size) /\ p.hash.request[q] \in Nat
    BY MembersPermute
  <2> QED
    BY <2>1 DEF IsPrime
<1>2. r = MaglevReconciled(slice, c, p.hash, p.config)
  BY DEF MaglevReconciled
<1>3. o.result = Answer(slice, r, x[2]) /\ o.cache = r.cache
  BY <1>2 DEF Maglev, OwnerOf
<1>4. M = MembersOf(p, slice) /\ (FitIn(p, M) <=> fits) /\ (fits => T = TableOf(p, M))
  BY DEF MembersOf, TableOf, FitIn
<1>5. Cardinality(M) = Cardinality(E) /\ Cardinality(E) \in Nat /\ (E = {} => Cardinality(E) = 0)
  <2>1. Cardinality(M) = Cardinality(E) /\ IsFiniteSet(E)
    BY <1>4, MembersAre, EligibleIs
  <2> HIDE DEF E, M
  <2> QED
    BY <2>1, FS_CardinalityType, FS_EmptySet
<1>6. \/ o.result = Failed("StateCapacityExceeded") /\ o.cache = c /\ ~FitIn(p, M)
      \/ o.result = Failed("DuplicateIdentity") /\ o.cache = c /\ Repeats(slice, E) /\ E # {}
      \/ r.error = "none" /\ BuiltFrom(p, slice, r.cache)
  <2>1. fits <=> \/ FitIn(p, MembersOf(p, slice))
                 \/ p.kind = "ring_hash" /\ Repeats(slice, E)
    BY <1>4
  <2>2. fits \in BOOLEAN
    OBVIOUS
  <2>3. fits => T = TableOf(p, MembersOf(p, slice))
    BY <1>4
  <2> HIDE DEF fits, T, M, o, x
  <2> QED
    BY <1>3, <1>4, <2>1, <2>2, <2>3, ReconciledIs
<1>7. ASSUME ~FitIn(p, M) PROVE Cardinality(E) > size /\ E # {}
  <2>1. ~(Cardinality(M) <= size)
    BY <1>4, <1>7
  <2> HIDE DEF E, M, size
  <2> QED
    BY <1>1, <1>5, <2>1
<1>8. CASE r.error = "none" /\ BuiltFrom(p, slice, r.cache)
  <2>1. BuiltFrom(p, slice, o.cache) /\ r.cache.table = TableOf(p, M)
    BY <1>3, <1>4, <1>8 DEF BuiltFrom
  <2>2. CASE E = {}
    <3>1. M = {}
      BY <1>4, <2>2, MembersAre
    <3>2. r.cache.table = {}
      BY <2>1, <3>1 DEF TableOf, PopulateTable
    <3>3. Nobody(slice, o.result)
      BY <1>3, <1>8, <3>2 DEF Answer, Nobody
    <3> QED
      BY <2>1, <2>2, <3>3
  <2>3. CASE E # {}
    <3>1. Permuting(M, p.hash, size)
      BY <1>4, <2>3, MembersPermute
    <3>2. r.cache.table = PopulateTable(M, p.hash, size)
      BY <2>1 DEF TableOf
    <3>3. FilledTo(M, p.hash, size, size, r.cache.table)
      BY <3>1, <3>2, TableIsFull
    <3>4. slot \in 0..(size - 1)
      <4> DEFINE h == p.hash.request[q]
      <4>1. h \in Int
        BY <1>1
      <4> HIDE DEF h, size
      <4>2. h % size \in 0..(size - 1)
        BY ONLY <1>1, <4>1, Division
      <4> QED
        BY <4>2 DEF h
    <3>5. \E e \in r.cache.table : e[1] = slot
      <4> HIDE DEF slot, size, r, M
      <4> QED
        BY <1>1, <3>3, <3>4, SlotHasOwner
    <3>6. x \in r.cache.table
      BY <3>5
    <3>7. \E m \in M : x[2] = m.index
      <4> HIDE DEF x, r, size, M
      <4> QED
        BY <3>3, <3>6 DEF FilledTo
    <3>8. x[2] \in E
      <4> HIDE DEF x
      <4> QED
        BY <1>4, <3>7, MembersAre
    <3>9. o.result = Selected(x[2])
      <4> HIDE DEF x, r
      <4> QED
        BY <1>3, <1>8, <3>6 DEF Answer
    <3>10. x[2] = OwnerOf(o.cache.table, slot)
      BY <1>3 DEF OwnerOf
    <3> HIDE DEF x, o, E
    <3>11. OwnerOf(o.cache.table, slot) \in E /\ o.result = Selected(OwnerOf(o.cache.table, slot))
      BY <3>8, <3>9, <3>10
    <3> QED
      BY <2>1, <2>3, <3>11 DEF o, E
  <2> QED
    BY <2>2, <2>3
<1> QED
  BY <1>6, <1>7, <1>8

\* The members of a table have equal parts of it, but for one slot.
LEMMA PartsAreEqual ==
  ASSUME NEW members, NEW hash, NEW size, Permuting(members, hash, size),
         NEW table, FilledTo(members, hash, size, size, table),
         NEW m \in members, NEW n \in members
  PROVE  Cardinality(SlotsOf(table, m)) <= Cardinality(SlotsOf(table, n)) + 1
<1> DEFINE c == Cardinality(members)
<1>1. PICK q \in Nat, r \in 0..(c - 1) :
        \A j \in 1..c : Cardinality(SlotsOf(table, Turn(members, hash)[j]))
                          = q + IF j <= r THEN 1 ELSE 0
  BY DEF FilledTo, Parts
<1>2. \A a \in members : \E i \in 1..c : Turn(members, hash)[i] = a
  BY TurnIs DEF Permuting
<1>3. PICK i \in 1..c : Turn(members, hash)[i] = m
  BY <1>2
<1>4. PICK j \in 1..c : Turn(members, hash)[j] = n
  BY <1>2
<1>5. /\ Cardinality(SlotsOf(table, m)) = q + IF i <= r THEN 1 ELSE 0
      /\ Cardinality(SlotsOf(table, n)) = q + IF j <= r THEN 1 ELSE 0
  BY <1>1, <1>3, <1>4
<1> HIDE DEF c
<1> QED
  BY <1>5

\* What a scope may be, and that somebody is in it.
LEMMA ScopeOfGroup ==
  ASSUME NEW slice, NEW config, config.panic_mode \in PanicModes, NEW p
  PROVE  LET s == ScopeFromGroup(slice, config, p)
         IN  \/ s = NoScope("NoEligibleCandidates")
             \/ s = NoScope("PanicRejected") /\ config.panic_mode = "fail_closed"
             \/ \E mode \in {"healthy", "panic"} :
                  /\ s = Scope(p, mode)
                  /\ InScope(slice, p, mode) # {}
                  /\ (mode = "panic" <=> Panics(slice, config, p))
                  /\ mode = "panic" => config.panic_mode = "use_all"
<1> DEFINE s == ScopeFromGroup(slice, config, p)
           mode == IF Panics(slice, config, p) THEN "panic" ELSE "healthy"
<1>1. mode \in {"healthy", "panic"} /\ (mode = "panic" <=> Panics(slice, config, p))
  OBVIOUS
<1>2. s = CASE mode = "panic" /\ config.panic_mode = "fail_closed" -> NoScope("PanicRejected")
            [] InScope(slice, p, mode) = {}
                 /\ (mode = "healthy" \/ config.panic_mode = "use_all") ->
                 NoScope("NoEligibleCandidates")
            [] OTHER -> Scope(p, mode)
  BY DEF ScopeFromGroup
<1> HIDE DEF s, mode
<1>3. config.panic_mode \in {"use_all", "fail_closed"}
  BY DEF PanicModes
<1>4. CASE mode = "panic" /\ config.panic_mode = "fail_closed"
  <2>1. s = NoScope("PanicRejected")
    BY <1>2, <1>4
  <2> QED
    BY <1>4, <2>1 DEF s
<1>5. CASE /\ ~(mode = "panic" /\ config.panic_mode = "fail_closed")
           /\ InScope(slice, p, mode) = {}
  <2>1. mode = "healthy" \/ config.panic_mode = "use_all"
    BY <1>1, <1>3, <1>5
  <2>2. s = NoScope("NoEligibleCandidates")
    BY <1>2, <1>5, <2>1
  <2> QED
    BY <2>2 DEF s
<1>6. CASE /\ ~(mode = "panic" /\ config.panic_mode = "fail_closed")
           /\ InScope(slice, p, mode) # {}
  <2>1. s = Scope(p, mode)
    BY <1>2, <1>6
  <2>2. mode = "panic" => config.panic_mode = "use_all"
    BY <1>3, <1>6
  <2> QED
    BY <1>1, <1>6, <2>1, <2>2 DEF s
<1> QED
  BY <1>4, <1>5, <1>6

ScopeErrors == {"Empty", "NoEligibleCandidates", "PanicRejected", "WeightOverflow"}

\* Those that share the traffic when nothing is available.
Panicking(slice, config) ==
  {p \in Priorities(slice) : Panics(slice, config, p) /\ InScope(slice, p, "panic") # {}}

InPanic(slice, config) == UNION {InScope(slice, p, "panic") : p \in Panicking(slice, config)}

\* A slice without members is not too heavy.
LEMMA NobodyIsNotHeavy ==
  ASSUME NEW slice, Members(slice) = {}
  PROVE  ~Overweight(slice)
BY DEF Overweight, Priorities

\* What the choice of a scope comes to, case by case.
LEMMA ScopesByCase ==
  ASSUME NEW slice, IsSlice(slice), slice # <<>>, NEW config, NEW s \in SelectScope(slice, config)
  PROVE  \/ Members(slice) = {} /\ s = NoScope("NoEligibleCandidates")
         \/ Overweight(slice) /\ s = NoScope("WeightOverflow")
         \/ /\ Members(slice) # {} /\ TotalEffective(slice, config) = 0
            /\ \/ /\ ~(TotalWeight(slice, InPanic(slice, config)) <= MaxU64)
                  /\ s = NoScope("WeightOverflow")
               \/ s = NoScope("NoEligibleCandidates")
               \/ config.panic_mode = "fail_closed" /\ s = NoScope("PanicRejected")
               \/ \E p \in Priorities(slice) : s = ScopeFromGroup(slice, config, p)
         \/ /\ Members(slice) # {} /\ TotalEffective(slice, config) # 0
            /\ \E p \in Priorities(slice) :
                 s = ScopeFromGroup(slice, config, p) /\ Traffic(slice, config, p) > 0
<1>1. CASE Members(slice) = {}
  <2>1. SelectScope(slice, config) = {NoScope("NoEligibleCandidates")}
    BY <1>1, NobodyIsNotHeavy DEF SelectScope
  <2> QED
    BY <1>1, <2>1
<1>2. CASE Members(slice) # {} /\ Overweight(slice)
  <2>1. SelectScope(slice, config) = {NoScope("WeightOverflow")}
    BY <1>2 DEF SelectScope
  <2> QED
    BY <1>2, <2>1
<1>3. CASE Members(slice) # {} /\ ~Overweight(slice) /\ TotalEffective(slice, config) = 0
  <2> DEFINE P == Panicking(slice, config)
             fits == TotalWeight(slice, InPanic(slice, config)) <= MaxU64
  <2>1. s \in GlobalPanic(slice, config)
    BY <1>3 DEF SelectScope
  <2>2. P = {p \in Priorities(slice) :
               Panics(slice, config, p) /\ InScope(slice, p, "panic") # {}}
    BY DEF Panicking
  <2>3. s \in CASE ~fits -> {NoScope("WeightOverflow")}
               [] fits /\ P = {} -> {NoScope("NoEligibleCandidates")}
               [] fits /\ P # {} /\ config.panic_mode = "fail_closed" ->
                    {NoScope("PanicRejected")}
               [] OTHER -> {ScopeFromGroup(slice, config, p) : p \in P}
    BY <2>1 DEF GlobalPanic, InPanic, Panicking
  <2> HIDE DEF fits, P
  <2>4. \/ ~fits /\ s = NoScope("WeightOverflow")
        \/ s = NoScope("NoEligibleCandidates")
        \/ config.panic_mode = "fail_closed" /\ s = NoScope("PanicRejected")
        \/ \E p \in P : s = ScopeFromGroup(slice, config, p)
    BY ONLY <2>3
  <2> QED
    BY <1>3, <2>2, <2>4 DEF fits
<1>4. CASE Members(slice) # {} /\ ~Overweight(slice) /\ TotalEffective(slice, config) # 0
  <2>1. s \in {ScopeFromGroup(slice, config, p) :
                 p \in {q \in Priorities(slice) : Traffic(slice, config, q) > 0}}
    BY <1>4 DEF SelectScope
  <2> QED
    BY <1>4, <2>1
<1> QED
  BY <1>1, <1>2, <1>3, <1>4

\* What the choice of a scope comes to: an error, or a priority of the slice.
LEMMA ScopesAre ==
  ASSUME NEW slice, IsSlice(slice), NEW config, config.panic_mode \in PanicModes,
         NEW s \in SelectScope(slice, config)
  PROVE  \/ \E e \in ScopeErrors : s = NoScope(e)
         \/ \E p \in Priorities(slice) : \E mode \in {"healthy", "panic"} :
              s = Scope(p, mode)
<1>1. CASE slice = <<>>
  <2>1. SelectScope(slice, config) = {NoScope("Empty")}
    BY <1>1, EligibleIs, NobodyIsNotHeavy DEF SelectScope, Members
  <2> QED
    BY <2>1 DEF ScopeErrors
<1>2. CASE \E e \in ScopeErrors : s = NoScope(e)
  BY <1>2
<1>3. CASE \E p \in Priorities(slice) : s = ScopeFromGroup(slice, config, p)
  BY <1>3, ScopeOfGroup DEF ScopeErrors
<1>4. CASE slice # <<>>
  <2>1. \/ \E e \in ScopeErrors : s = NoScope(e)
        \/ \E p \in Priorities(slice) : s = ScopeFromGroup(slice, config, p)
    BY <1>4, ScopesByCase DEF ScopeErrors
  <2> QED
    BY <1>2, <1>3, <2>1
<1> QED
  BY <1>1, <1>4

\* A decision in a scope: an error, or a member of the scope.
LEMMA DecidedInScope ==
  ASSUME NEW slice, NEW config, NEW s, NEW d \in DecisionsInScope(slice, config, s)
  PROVE  \/ /\ Conflicting(slice, s.priority)
            /\ d = Decision(0, NoScope("InconsistentTopology"))
         \/ /\ LocalityTotal(slice, config, s) > MaxU64
            /\ d = Decision(0, NoScope("WeightOverflow"))
         \/ \E i \in InScope(slice, s.priority, s.mode) : d = Decision(i, s)
<1> DEFINE heavy == LocalityTotal(slice, config, s) > MaxU64
           D == {Decision(i, s) :
                   i \in {j \in InScope(slice, s.priority, s.mode) :
                            slice[j].locality \in Reachable(slice, config, s)}}
<1>1. d \in CASE Conflicting(slice, s.priority) ->
                   {Decision(0, NoScope("InconsistentTopology"))}
             [] ~Conflicting(slice, s.priority) /\ heavy ->
                   {Decision(0, NoScope("WeightOverflow"))}
             [] OTHER -> D
  BY DEF DecisionsInScope
<1>2. d \in D => \E i \in InScope(slice, s.priority, s.mode) : d = Decision(i, s)
  OBVIOUS
<1> HIDE DEF heavy, D
<1>3. \/ Conflicting(slice, s.priority) /\ d = Decision(0, NoScope("InconsistentTopology"))
      \/ heavy /\ d = Decision(0, NoScope("WeightOverflow"))
      \/ d \in D
  BY ONLY <1>1
<1> QED
  BY <1>2, <1>3 DEF heavy

\* The results of a pick: an index and no error, or an error and no index.
ResultOK(slice, r) ==
  /\ r.index \in 0..Len(slice)
  /\ r.error \in PickErrors \cup {"none"}
  /\ r.index = 0 <=> r.error # "none"

\* Who is in scope has a place in the slice.
LEMMA MembersInSlice ==
  ASSUME NEW slice, IsSlice(slice), NEW p, NEW mode, NEW i \in InScope(slice, p, mode)
  PROVE  i \in DOMAIN slice /\ i \in 1..Len(slice) /\ Len(slice) \in Nat
BY DEF InScope, MembersAt, Members, IsSlice

\* A decision has the type of a result.
LEMMA DecisionsTyped ==
  ASSUME NEW slice, IsSlice(slice), NEW config, config.panic_mode \in PanicModes,
         NEW d, d \in PriorityDecisions(slice, config) \/ d \in LocalityDecisions(slice, config)
  PROVE  ResultOK(slice, d)
<1>1. Len(slice) \in Nat
  BY DEF IsSlice
<1>2. PICK s \in SelectScope(slice, config) :
        \/ s.error # "none" /\ d = Decision(0, s)
        \/ s.error = "none" /\ \E i \in InScope(slice, s.priority, s.mode) : d = Decision(i, s)
        \/ \E e \in {"InconsistentTopology", "WeightOverflow"} : d = Decision(0, NoScope(e))
  <2>1. CASE d \in PriorityDecisions(slice, config)
    <3>1. PICK s \in SelectScope(slice, config) :
            d \in IF s.error # "none" THEN {Decision(0, s)}
                  ELSE {Decision(i, s) : i \in InScope(slice, s.priority, s.mode)}
      BY <2>1 DEF PriorityDecisions
    <3> QED
      BY <3>1
  <2>2. CASE d \in LocalityDecisions(slice, config)
    <3>1. PICK s \in SelectScope(slice, config) :
            d \in IF s.error # "none" THEN {Decision(0, s)}
                  ELSE DecisionsInScope(slice, config, s)
      BY <2>2 DEF LocalityDecisions
    <3>2. CASE s.error # "none"
      BY <3>1, <3>2
    <3>3. CASE s.error = "none"
      <4>1. d \in DecisionsInScope(slice, config, s)
        BY <3>1, <3>3
      <4> QED
        BY <3>3, <4>1, DecidedInScope
    <3> QED
      BY <3>2, <3>3
  <2> QED
    BY <2>1, <2>2
<1>3. s.error \in ScopeErrors \cup {"none"}
  BY ScopesAre DEF NoScope, Scope
<1>4. CASE s.error # "none" /\ d = Decision(0, s)
  BY <1>1, <1>3, <1>4 DEF Decision, ResultOK, PickErrors, ScopeErrors
<1>5. CASE s.error = "none" /\ \E i \in InScope(slice, s.priority, s.mode) : d = Decision(i, s)
  <2>1. PICK i \in InScope(slice, s.priority, s.mode) : d = Decision(i, s)
    BY <1>5
  <2>2. i \in 1..Len(slice)
    BY MembersInSlice
  <2> QED
    BY <1>1, <1>5, <2>1, <2>2 DEF Decision, ResultOK
<1>6. CASE \E e \in {"InconsistentTopology", "WeightOverflow"} : d = Decision(0, NoScope(e))
  BY <1>1, <1>6 DEF Decision, NoScope, ResultOK, PickErrors
<1> QED
  BY <1>2, <1>4, <1>5, <1>6

\* Nobody is in the empty slice.
LEMMA EmptySlice == IsSlice(<<>>) /\ Eligible(<<>>) = {} /\ Len(<<>>) = 0
<1>1. IsSlice(<<>>)
  BY MaxU64Assumption DEF IsSlice
<1> QED
  BY <1>1, EligibleIs

\* What one pick owes to the slice it was given.
Justified(p, slice, r) ==
  LET E == Eligible(slice)
  IN  CASE slice = <<>> -> r.error = "Empty"
        [] slice # <<>> /\ E = {} -> r.error = "NoEligibleCandidates"
        [] OTHER ->
             \/ r.index \in E
             \/ r.error = "DuplicateIdentity"
                  /\ p.kind \in Caching \cup {"smooth_weighted_round_robin"}
                  /\ Repeats(slice, E)
             \/ r.error = "LoadOverflow"
                  /\ p.kind = "bounded_load" /\ TotalLoad(slice, E) >= MaxU64
             \/ r.error = "WeightOverflow"
                  /\ p.kind \in {"weighted_random", "bounded_load"}
                  /\ TotalWeight(slice, E) > MaxU64
             \/ r.error = "StateCapacityExceeded"
                  /\ \/ p.kind = "maglev" /\ Cardinality(E) > p.config.table_size
                     \/ /\ p.kind = "ring_hash"
                        /\ TotalWeight(slice, E) * p.config.replicas > p.config.max_nodes

Respectful(p, slice, q, r) ==
  LET E == Eligible(slice)
      i == r.index
  IN  i # 0 =>
        /\ p.kind = "least_loaded" => \A j \in E : slice[i].load <= slice[j].load
        /\ p.kind = "power_of_two_choices" =>
             E = {i} \/ \E j \in E \ {i} : slice[i].load <= slice[j].load
        /\ p.kind = "bounded_load" =>
             LET factor == p.config.factor
                 owner == WeightedOwner(slice, q, p.hash, E)
             IN  /\ 100 * TotalWeight(slice, E) * slice[i].load
                      < factor * slice[i].weight * (TotalLoad(slice, E) + 1)
                 /\ owner # i => 100 * TotalWeight(slice, E) * slice[owner].load
                      >= factor * slice[owner].weight * (TotalLoad(slice, E) + 1)

Owner(p, slice, q, r, c) ==
  LET i == r.index
      Others == Eligible(slice) \ {i}
  IN  i # 0 =>
        /\ i \in Eligible(slice) \/ p.kind \in Grouping
        /\ p.kind \in Hashing \cup Caching => q \in Request
        /\ p.kind = "rendezvous" => \A j \in Others : RendezvousBeats(slice, q, p.hash, i, j)
        /\ p.kind = "weighted_rendezvous" => \A j \in Others :
             WeightedBeats(slice, q, p.hash, i, j)
        /\ p.kind \in Caching => BuiltFrom(p, slice, c)
        /\ p.kind = "ring_hash" => i = Clockwise(c.table, p.hash.request[q]).index
        /\ p.kind = "maglev" =>
             i = OwnerOf(c.table, p.hash.request[q] % p.config.table_size)

DecidedBy(p, slice, r) ==
  /\ p.kind = "priority" => r \in PriorityDecisions(slice, p.config)
  /\ p.kind = "locality" => r \in LocalityDecisions(slice, p.config)

\* The states of smooth weighted round robin are well stamped ...
LEMMA SmoothTyped ==
  ASSUME RoutingTypeOK, StatesAreStamped
  PROVE  SmoothOK(smooth)
<1>1. \A id \in DOMAIN smooth.states :
        smooth.states[id].seen_in \in 0..smooth.epoch
  BY MaxEpochAssumption DEF RoutingTypeOK, StatesAreStamped
<1> QED
  BY <1>1 DEF RoutingTypeOK, StatesAreStamped, SmoothOK

\* ... and states that are, have their types.
LEMMA SmoothStamped ==
  ASSUME SmoothOK(smooth), policy \in Policies, cursor \in 0..MaxU64,
         ResultOK(last.slice, last.result)
  PROVE  RoutingTypeOK /\ StatesAreStamped
<1>1. \A id \in DOMAIN smooth.states :
        /\ smooth.states[id].seen_in \in 0..MaxEpoch
        /\ smooth.states[id].seen_in <= smooth.epoch
  BY MaxEpochAssumption DEF SmoothOK
<1>2. StatesAreStamped
  BY <1>1 DEF SmoothOK, StatesAreStamped
<1>3. (last.result.index = 0) = (last.result.error # "none")
  BY DEF ResultOK
<1> QED
  BY <1>1, <1>2, <1>3 DEF SmoothOK, ResultOK, RoutingTypeOK

\* A pick that owes nothing leaves the invariant.
LEMMA NotedInvariant ==
  ASSUME PicksIInv, NEW slice \in Slices[policy.inputs], NEW q, NEW r,
         Note(slice, q, r), ResultOK(slice, r),
         cursor' \in 0..MaxU64, SmoothOK(smooth'),
         policy.kind \notin Grouping => Justified(policy, slice, r),
         Respectful(policy, slice, q, r), Owner(policy, slice, q, r, cache'),
         DecidedBy(policy, slice, r),
         policy.kind \in Caching =>
           \E built \in Slices[policy.inputs] \cup {<<>>} : BuiltFrom(policy, built, cache')
  PROVE  PicksIInv'
<1>1. /\ policy' = policy /\ last'.slice = slice /\ last'.result = r /\ last'.request = q
      /\ policy \in Policies
  BY DEF Note, PicksIInv, RoutingTypeOK
<1>2. (RoutingTypeOK /\ StatesAreStamped)'
  <2>1. (/\ SmoothOK(smooth) /\ policy \in Policies /\ cursor \in 0..MaxU64
         /\ ResultOK(last.slice, last.result))'
    BY <1>1
  <2> QED
    BY <2>1, SmoothStamped, PTL
<1>3. LastIsGiven'
  BY <1>1 DEF LastIsGiven
<1>4. LastIsOwner'
  BY <1>1 DEF LastIsOwner, Owner
<1>5. LastIsDecided'
  BY <1>1 DEF LastIsDecided, DecidedBy
<1>6. CacheIsBuilt'
  BY <1>1 DEF CacheIsBuilt
<1>7. PicksAreJustified'
  BY <1>1 DEF PicksAreJustified, Justified, Excused
<1>8. LoadIsRespected'
  BY <1>1 DEF LoadIsRespected, Respectful
<1> QED
  BY <1>2, <1>3, <1>4, <1>5, <1>6, <1>7, <1>8 DEF PicksIInv

\* What every pick may rely on.
LEMMA InvariantGives ==
  ASSUME PicksIInv
  PROVE  /\ policy \in Policies /\ cursor \in 0..MaxU64 /\ SmoothOK(smooth)
         /\ policy.kind \in Caching =>
              \E built \in Slices[policy.inputs] \cup {<<>>} :
                BuiltFrom(policy, built, cache) /\ IsSlice(built)
         /\ \A slice \in Slices[policy.inputs] : IsSlice(slice)
         /\ IsSlice(last.slice)
<1>1. /\ policy \in Policies /\ cursor \in 0..MaxU64
  BY DEF PicksIInv, RoutingTypeOK
<1>2. SmoothOK(smooth)
  BY SmoothTyped DEF PicksIInv
<1>3. \A slice \in Slices[policy.inputs] : IsSlice(slice)
  BY <1>1, SlicesAreSlices
<1> QED
  BY <1>1, <1>2, <1>3, EmptySlice DEF PicksIInv, CacheIsBuilt, LastIsGiven

\* The kinds are different names.
LEMMA KindsDiffer ==
  ASSUME NEW p
  PROVE  /\ p.kind \in Rotating => p.kind \notin Drawing \cup Hashing \cup Caching \cup Grouping
         /\ p.kind \in Drawing => p.kind \notin Rotating \cup Hashing \cup Caching \cup Grouping
         /\ p.kind \in Hashing => p.kind \notin Rotating \cup Drawing \cup Caching \cup Grouping
         /\ p.kind \in Caching => p.kind \notin Rotating \cup Drawing \cup Hashing \cup Grouping
         /\ p.kind \in Grouping => p.kind \notin Rotating \cup Drawing \cup Hashing \cup Caching
BY DEF Rotating, Drawing, Hashing, Caching, Grouping

\* The results of picks are well formed.
LEMMA ResultsOK ==
  ASSUME NEW slice, IsSlice(slice)
  PROVE  /\ \A r : Nobody(slice, r) => ResultOK(slice, r) /\ r.index = 0
         /\ \A i \in DOMAIN slice : /\ ResultOK(slice, Selected(i))
                                    /\ Selected(i).index = i /\ i # 0
         /\ \A e \in PickErrors : /\ ResultOK(slice, Failed(e))
                                  /\ Failed(e).index = 0 /\ Failed(e).error = e
<1>1. \A i \in DOMAIN slice : i \in 1..Len(slice) /\ i # 0
  BY CandidateIs
<1>2. "none" \notin PickErrors /\ {"Empty", "NoEligibleCandidates"} \subseteq PickErrors
  BY DEF PickErrors
<1>3. Len(slice) \in Nat
  BY DEF IsSlice
<1>4. \A e \in PickErrors : /\ ResultOK(slice, Failed(e))
                            /\ Failed(e).index = 0 /\ Failed(e).error = e
  BY <1>2, <1>3 DEF ResultOK, Failed
<1>5. NoCandidateError(slice) \in PickErrors
  BY <1>2 DEF NoCandidateError
<1> QED
  BY <1>1, <1>3, <1>4, <1>5 DEF ResultOK, Selected, Nobody

\* Nobody is owed nothing.
LEMMA NobodyIsFine ==
  ASSUME NEW slice, IsSlice(slice), NEW r, Nobody(slice, r), Eligible(slice) = {},
         NEW p, NEW q, NEW c
  PROVE  /\ ResultOK(slice, r) /\ Justified(p, slice, r)
         /\ Respectful(p, slice, q, r) /\ Owner(p, slice, q, r, c)
<1>1. ResultOK(slice, r) /\ r.index = 0
  BY ResultsOK
<1>2. Justified(p, slice, r)
  BY DEF Nobody, Failed, NoCandidateError, Justified
<1> QED
  BY <1>1, <1>2 DEF Respectful, Owner

\* An eligible selection is justified.
LEMMA SelectionIsFine ==
  ASSUME NEW slice, IsSlice(slice), NEW i \in Eligible(slice), NEW p
  PROVE  /\ ResultOK(slice, Selected(i)) /\ Justified(p, slice, Selected(i))
         /\ Selected(i).index = i /\ i # 0
<1>1. i \in DOMAIN slice /\ slice # <<>> /\ Eligible(slice) # {}
  BY EligibleIs
<1>2. ResultOK(slice, Selected(i)) /\ Selected(i).index = i /\ i # 0
  BY <1>1, ResultsOK
<1> QED
  BY <1>1, <1>2 DEF Justified

\* Round robin and least loaded keep the invariant.
LEMMA PickInTurnInvariant ==
  ASSUME PicksIInv, PickInTurn
  PROVE  PicksIInv'
<1> DEFINE S(slice) == IF policy.kind = "round_robin"
                       THEN Eligible(slice) ELSE LeastLoadedOf(slice)
<1>1. PICK slice \in Slices[policy.inputs] :
        /\ cursor' = Advance(slice, cursor, S(slice)).cursor
        /\ Note(slice, 0, Advance(slice, cursor, S(slice)).result)
  BY DEF PickInTurn, RoundRobin, LeastLoaded
<1> DEFINE o == Advance(slice, cursor, S(slice))
           E == Eligible(slice)
<1>2. /\ policy \in Policies /\ cursor \in 0..MaxU64 /\ SmoothOK(smooth)
      /\ IsSlice(slice) /\ cursor \in Nat
  BY InvariantGives, MaxU64Assumption
<1>3. E \subseteq DOMAIN slice
  BY <1>2, EligibleIs
<1>4. /\ S(slice) \subseteq E /\ (S(slice) = {} <=> E = {})
      /\ policy.kind = "least_loaded" => S(slice) = LeastLoadedOf(slice)
  BY <1>2, LeastLoadedIs
<1>5. /\ S(slice) = {} => Nobody(slice, o.result) /\ o.cursor = cursor
      /\ S(slice) # {} => \E i \in S(slice) : o.result = Selected(i) /\ o.cursor = i
  <2> HIDE DEF S
  <2>1. S(slice) \in SUBSET DOMAIN slice
    BY <1>3, <1>4
  <2> QED
    BY <1>2, <2>1, AdvanceIs
<1>6. SmoothOK(smooth')
  BY <1>2 DEF PickInTurn
<1>7. policy.kind \in {"round_robin", "least_loaded"}
  BY DEF PickInTurn
<1>8. DecidedBy(policy, slice, o.result)
  BY <1>7 DEF DecidedBy
<1>9. policy.kind \notin Caching
  BY <1>7 DEF Caching
<1>10. CASE E = {}
  <2>1. Nobody(slice, o.result) /\ cursor' = cursor
    BY <1>1, <1>4, <1>5, <1>10
  <2> HIDE DEF o
  <2>2. /\ ResultOK(slice, o.result) /\ Justified(policy, slice, o.result)
        /\ Respectful(policy, slice, 0, o.result) /\ Owner(policy, slice, 0, o.result, cache')
    BY <1>2, <1>10, <2>1, NobodyIsFine
  <2>3. Note(slice, 0, o.result)
    BY <1>1 DEF o
  <2> QED
    BY <1>2, <1>6, <1>8, <1>9, <2>1, <2>2, <2>3, NotedInvariant
<1>11. CASE E # {}
  <2>1. PICK i \in S(slice) : o.result = Selected(i) /\ o.cursor = i
    BY <1>4, <1>5, <1>11
  <2>2. i \in E /\ i \in DOMAIN slice
    BY <1>3, <1>4, <2>1
  <2>3. i \in 0..MaxU64
    <3>1. i \in 1..Len(slice) /\ Len(slice) \in Nat /\ Len(slice) <= MaxU64
      BY <1>2, <2>2, CandidateIs DEF IsSlice
    <3> QED
      BY <3>1, MaxU64Assumption
  <2>4. /\ ResultOK(slice, o.result) /\ Justified(policy, slice, o.result)
        /\ o.result.index = i /\ i # 0
    BY <1>2, <2>1, <2>2, SelectionIsFine
  <2>5. policy.kind = "least_loaded" => \A j \in E : slice[i].load <= slice[j].load
    BY <1>4, <2>1 DEF LeastLoadedOf
  <2>6. Note(slice, 0, o.result) /\ cursor' = i
    BY <1>1, <2>1
  <2> HIDE DEF o, S
  <2>7. Respectful(policy, slice, 0, o.result) /\ Owner(policy, slice, 0, o.result, cache')
    BY <1>7, <2>2, <2>4, <2>5 DEF Respectful, Owner, Caching, Hashing
  <2> QED
    BY <1>6, <1>8, <1>9, <2>3, <2>4, <2>6, <2>7, NotedInvariant
<1> QED
  BY <1>10, <1>11

\* Smooth weighted round robin keeps the invariant.
LEMMA PickSmoothlyInvariant ==
  ASSUME PicksIInv, PickSmoothly
  PROVE  PicksIInv'
<1> DEFINE o(slice) == SmoothWeightedRoundRobin(slice, smooth)
<1>1. PICK slice \in Slices[policy.inputs] :
        smooth' = o(slice).smooth /\ Note(slice, 0, o(slice).result)
  BY DEF PickSmoothly
<1> DEFINE r == o(slice).result
           E == Eligible(slice)
<1>2. /\ policy \in Policies /\ cursor \in 0..MaxU64 /\ SmoothOK(smooth) /\ IsSlice(slice)
  BY InvariantGives
<1>3. /\ SmoothOK(smooth')
      /\ slice = <<>> => r = Failed("Empty")
      /\ slice # <<>> /\ Repeats(slice, E) => r = Failed("DuplicateIdentity")
      /\ slice # <<>> /\ E = {} => r = Failed("NoEligibleCandidates")
      /\ E # {} /\ ~Repeats(slice, E) => OneOf(E, r)
  BY <1>1, <1>2, SmoothIs DEF OneOf
<1>4. Note(slice, 0, r) /\ cursor' \in 0..MaxU64
  BY <1>1, <1>2 DEF PickSmoothly
<1>5. policy.kind = "smooth_weighted_round_robin"
  BY DEF PickSmoothly
<1>6. DecidedBy(policy, slice, r) /\ Respectful(policy, slice, 0, r)
  BY <1>5 DEF DecidedBy, Respectful
<1>7. policy.kind \notin Caching
  BY <1>5 DEF Caching
<1> HIDE DEF r, E
<1>8. ResultOK(slice, r) /\ Justified(policy, slice, r) /\ Owner(policy, slice, 0, r, cache')
  <2>0. E = {} => ~Repeats(slice, E)
    BY DEF Repeats
  <2>1. CASE E = {}
    <3>1. Nobody(slice, r)
      BY <1>3, <2>0, <2>1 DEF Nobody, NoCandidateError
    <3> QED
      BY <1>2, <2>1, <3>1, NobodyIsFine DEF E
  <2>2. CASE E # {} /\ ~Repeats(slice, E)
    <3>1. PICK i \in E : r = Selected(i)
      BY <1>3, <2>2 DEF OneOf
    <3>2. /\ ResultOK(slice, r) /\ Justified(policy, slice, r) /\ r.index = i /\ i # 0
      BY <1>2, <3>1, SelectionIsFine DEF E
    <3> QED
      BY <1>5, <3>1, <3>2 DEF Owner, E, Caching, Hashing
  <2>3. CASE E # {} /\ Repeats(slice, E)
    <3>1. slice # <<>>
      BY <1>2, <2>3, EmptySlice DEF E
    <3>2. r = Failed("DuplicateIdentity")
      BY <1>3, <2>3, <3>1
    <3>3. ResultOK(slice, r) /\ r.index = 0 /\ r.error = "DuplicateIdentity"
      BY <1>2, <3>2, ResultsOK DEF PickErrors
    <3> QED
      BY <1>5, <2>3, <3>1, <3>3 DEF Justified, Owner, E
  <2> QED
    BY <2>1, <2>2, <2>3
<1> QED
  BY <1>3, <1>4, <1>6, <1>7, <1>8, NotedInvariant

\* Neither a new policy nor one that was reset owes anything.
LEMMA FreshInvariant ==
  ASSUME policy \in Policies, cursor \in 0..MaxU64,
         smooth = [states |-> NoStates, epoch |-> 0],
         cache = NoCache, last = NoPick
  PROVE  PicksIInv
<1>1. /\ last.slice = <<>> /\ last.result = Failed("Empty")
      /\ last.result.index = 0 /\ last.result.error = "Empty"
  BY DEF NoPick, Failed
<1>2. SmoothOK(smooth)
  BY MaxEpochAssumption DEF SmoothOK, NoStates
<1>3. ResultOK(last.slice, last.result)
  BY <1>1, EmptySlice, ResultsOK DEF PickErrors
<1>4. RoutingTypeOK /\ StatesAreStamped
  BY <1>2, <1>3, SmoothStamped
<1>5. LastIsGiven /\ LastIsOwner /\ LastIsDecided /\ PicksAreJustified /\ LoadIsRespected
  BY <1>1 DEF LastIsGiven, LastIsOwner, LastIsDecided, PicksAreJustified, LoadIsRespected
<1>6. CacheIsBuilt
  <2> SUFFICES ASSUME policy.kind \in Caching
               PROVE  BuiltFrom(policy, <<>>, NoCache)
    BY DEF CacheIsBuilt
  <2>1. MembersOf(policy, <<>>) = {}
    BY EmptySlice, MembersAre
  <2>2. ~Repeats(<<>>, Eligible(<<>>))
    BY EmptySlice DEF Repeats
  <2>3. TableOf(policy, {}) = {}
    BY DEF TableOf, RingPoints, PopulateTable
  <2>4. FitIn(policy, {})
    <3>1. CASE policy.kind = "ring_hash"
      <4>1. /\ policy.config.replicas \in Nat \ {0} /\ policy.config.max_nodes \in Nat
        BY <3>1, PoliciesAssumption DEF ValidConfig, ValidRingHashConfig, Grouping
      <4>2. RingMembers(<<>>) = {}
        BY EmptySlice, RingMembersAre
      <4>3. RingNodes({}, policy.config.replicas) = 0
        BY <4>1, <4>2, EmptySlice, NodesAre
      <4> QED
        BY <3>1, <4>1, <4>3 DEF FitIn, RingNodes
    <3>2. CASE policy.kind # "ring_hash"
      <4>1. policy.kind = "maglev"
        BY <3>2 DEF Caching
      <4>2. policy.config.table_size \in Nat
        BY <4>1, PoliciesAssumption DEF ValidConfig, ValidMaglevConfig, Grouping
      <4> QED
        BY <3>2, <4>2, FS_EmptySet DEF FitIn
    <3> QED
      BY <3>1, <3>2
  <2> QED
    BY <2>1, <2>2, <2>3, <2>4 DEF BuiltFrom, NoCache
<1> QED
  BY <1>4, <1>5, <1>6 DEF PicksIInv

\* A new policy has the invariant.
LEMMA RoutingInitInvariant ==
  ASSUME RoutingInit
  PROVE  PicksIInv
<1>1. cursor \in 0..MaxU64
  BY MaxCursorAssumption, MaxU64Assumption DEF RoutingInit
<1> QED
  BY <1>1, FreshInvariant DEF RoutingInit

\* A reset keeps the invariant.
LEMMA ResetInvariant ==
  ASSUME PicksIInv, Reset
  PROVE  PicksIInv'
<1>1. (/\ policy \in Policies /\ cursor \in 0..MaxU64
       /\ smooth = [states |-> NoStates, epoch |-> 0]
       /\ cache = NoCache /\ last = NoPick)'
  BY DEF Reset, PicksIInv, RoutingTypeOK
<1> QED
  BY <1>1, FreshInvariant, PTL

\* A failure to pick that the slice explains.
LEMMA FailureIsFine ==
  ASSUME NEW slice, IsSlice(slice), Eligible(slice) # {},
         NEW e \in PickErrors, NEW p, NEW q, NEW c,
         \/ e = "DuplicateIdentity" /\ p.kind \in Caching /\ Repeats(slice, Eligible(slice))
         \/ e = "LoadOverflow" /\ p.kind = "bounded_load"
              /\ TotalLoad(slice, Eligible(slice)) >= MaxU64
         \/ e = "WeightOverflow" /\ p.kind \in {"weighted_random", "bounded_load"}
              /\ TotalWeight(slice, Eligible(slice)) > MaxU64
         \/ e = "StateCapacityExceeded" /\ p.kind = "maglev"
              /\ Cardinality(Eligible(slice)) > p.config.table_size
         \/ e = "StateCapacityExceeded" /\ p.kind = "ring_hash"
              /\ TotalWeight(slice, Eligible(slice)) * p.config.replicas > p.config.max_nodes
  PROVE  /\ ResultOK(slice, Failed(e)) /\ Justified(p, slice, Failed(e))
         /\ Respectful(p, slice, q, Failed(e)) /\ Owner(p, slice, q, Failed(e), c)
<1>1. ResultOK(slice, Failed(e)) /\ Failed(e).index = 0 /\ Failed(e).error = e
  BY ResultsOK
<1>2. slice # <<>>
  BY EmptySlice
<1>3. Justified(p, slice, Failed(e))
  BY <1>1, <1>2 DEF Justified
<1> QED
  BY <1>1, <1>3 DEF Respectful, Owner

\* The random policies keep the invariant.
LEMMA PickAtRandomInvariant ==
  ASSUME PicksIInv, PickAtRandom
  PROVE  PicksIInv'
<1>1. PICK slice \in Slices[policy.inputs] :
        \E r \in CASE policy.kind = "random" -> Random(slice)
                   [] policy.kind = "weighted_random" -> WeightedRandom(slice)
                   [] OTHER -> PowerOfTwoChoices(slice) :
          Note(slice, 0, r)
  BY DEF PickAtRandom
<1>2. PICK r \in CASE policy.kind = "random" -> Random(slice)
                   [] policy.kind = "weighted_random" -> WeightedRandom(slice)
                   [] OTHER -> PowerOfTwoChoices(slice) :
        Note(slice, 0, r)
  BY <1>1
<1> DEFINE E == Eligible(slice)
<1>3. /\ policy \in Policies /\ cursor \in 0..MaxU64 /\ SmoothOK(smooth) /\ IsSlice(slice)
      /\ policy.kind \in Drawing
  BY InvariantGives DEF PickAtRandom
<1>4. /\ policy.kind \notin Caching /\ policy.kind \notin Hashing /\ policy.kind \notin Rotating
      /\ policy.kind \notin Grouping
  BY <1>3, KindsDiffer
<1>5. DecidedBy(policy, slice, r)
  BY <1>4 DEF DecidedBy, Grouping
<1>6. cursor' \in 0..MaxU64 /\ SmoothOK(smooth')
  BY <1>3 DEF PickAtRandom, stateVars
<1>7. \/ E = {} /\ Nobody(slice, r)
      \/ \E i \in E : /\ r = Selected(i)
                      /\ policy.kind = "power_of_two_choices" =>
                           E = {i} \/ \E j \in E \ {i} : slice[i].load <= slice[j].load
      \/ /\ E # {} /\ policy.kind = "weighted_random" /\ r = Failed("WeightOverflow")
         /\ TotalWeight(slice, E) > MaxU64
  <2>1. CASE policy.kind = "random"
    <3>1. r \in Draw(slice, E)
      BY <1>2, <2>1 DEF Random
    <3> HIDE DEF E
    <3> QED
      BY <2>1, <3>1, DrawIs DEF OneOf
  <2>2. CASE policy.kind = "weighted_random"
    <3>1. r \in WeightedRandom(slice)
      BY <1>2, <2>2
    <3>2. CASE TotalWeight(slice, E) > MaxU64
      <4>1. r = Failed("WeightOverflow")
        BY <3>1, <3>2 DEF WeightedRandom
      <4>2. E # {}
        <5> SUFFICES ASSUME E = {}
                     PROVE  FALSE
          OBVIOUS
        <5>1. TotalWeight(slice, {}) = SumOf(WeightsOf(slice), {})
          BY <1>3, TotalWeightIs
        <5>2. SumOf(WeightsOf(slice), {}) = 0
          BY SumEmpty
        <5> QED
          BY <3>2, <5>1, <5>2, MaxU64Assumption
      <4> QED
        BY <2>2, <3>2, <4>1, <4>2
    <3>3. CASE ~(TotalWeight(slice, E) > MaxU64)
      <4>1. r \in Draw(slice, E)
        BY <3>1, <3>3 DEF WeightedRandom
      <4> HIDE DEF E
      <4> QED
        BY <2>2, <4>1, DrawIs DEF OneOf
    <3> QED
      BY <3>2, <3>3
  <2>3. CASE policy.kind \notin {"random", "weighted_random"}
    <3>1. r \in PowerOfTwoChoices(slice)
      BY <1>2, <2>3
    <3> QED
      BY <1>3, <3>1, PowerOfTwoIs DEF OneOf
  <2> QED
    BY <2>1, <2>2, <2>3
<1> HIDE DEF E
<1>8. /\ ResultOK(slice, r) /\ Justified(policy, slice, r)
      /\ Respectful(policy, slice, 0, r) /\ Owner(policy, slice, 0, r, cache')
  <2>1. CASE E = {} /\ Nobody(slice, r)
    BY <1>3, <2>1, NobodyIsFine DEF E
  <2>2. ASSUME NEW i \in E, r = Selected(i),
               policy.kind = "power_of_two_choices" =>
                 E = {i} \/ \E j \in E \ {i} : slice[i].load <= slice[j].load
        PROVE  /\ ResultOK(slice, r) /\ Justified(policy, slice, r)
               /\ Respectful(policy, slice, 0, r) /\ Owner(policy, slice, 0, r, cache')
    <3>1. ResultOK(slice, r) /\ Justified(policy, slice, r) /\ r.index = i
      BY <1>3, <2>2, SelectionIsFine DEF E
    <3>2. Respectful(policy, slice, 0, r)
      BY <1>4, <2>2, <3>1 DEF Respectful, E, Rotating, Hashing
    <3>3. Owner(policy, slice, 0, r, cache')
      BY <1>4, <2>2, <3>1 DEF Owner, E, Hashing, Caching
    <3> QED
      BY <3>1, <3>2, <3>3
  <2>3. CASE /\ E # {} /\ policy.kind = "weighted_random" /\ r = Failed("WeightOverflow")
             /\ TotalWeight(slice, E) > MaxU64
    BY <1>3, <2>3, FailureIsFine DEF E, PickErrors
  <2> QED
    BY <1>7, <2>1, <2>2, <2>3
<1> QED
  BY <1>2, <1>4, <1>5, <1>6, <1>8, NotedInvariant

\* Rendezvous, weighted rendezvous and bounded load keep the invariant.
LEMMA PickByScoreInvariant ==
  ASSUME PicksIInv, PickByScore
  PROVE  PicksIInv'
<1> DEFINE R(slice, q) ==
             CASE policy.kind = "rendezvous" -> Rendezvous(slice, q, policy.hash)
               [] policy.kind = "weighted_rendezvous" ->
                    WeightedRendezvous(slice, q, policy.hash)
               [] OTHER -> BoundedLoad(slice, q, policy.hash, policy.config.factor)
<1>1. PICK slice \in Slices[policy.inputs], q \in Request : Note(slice, q, R(slice, q))
  BY DEF PickByScore
<1> DEFINE E == Eligible(slice)
           r == R(slice, q)
           owner == WeightedOwner(slice, q, policy.hash, E)
           HasRoom(i) == 100 * TotalWeight(slice, E) * slice[i].load
                           < policy.config.factor * slice[i].weight * (TotalLoad(slice, E) + 1)
<1>2. /\ policy \in Policies /\ cursor \in 0..MaxU64 /\ SmoothOK(smooth) /\ IsSlice(slice)
      /\ policy.kind \in Hashing
  BY InvariantGives DEF PickByScore
<1>3. /\ policy.kind \notin Caching /\ policy.kind \notin Rotating /\ policy.kind \notin Drawing
      /\ policy.kind \notin Grouping
  BY <1>2, KindsDiffer
<1>4. DecidedBy(policy, slice, r)
  BY <1>3 DEF DecidedBy, Grouping
<1>5. cursor' \in 0..MaxU64 /\ SmoothOK(smooth')
  BY <1>2 DEF PickByScore, stateVars
<1>6. Scores(slice, q, policy.hash, E)
  BY <1>2, ScoresAre, EligibleIs
<1>7. \/ E = {} /\ Nobody(slice, r)
      \/ \E i \in E :
           /\ r = Selected(i)
           /\ policy.kind = "rendezvous" => \A j \in E \ {i} :
                RendezvousBeats(slice, q, policy.hash, i, j)
           /\ policy.kind = "weighted_rendezvous" => \A j \in E \ {i} :
                WeightedBeats(slice, q, policy.hash, i, j)
           /\ policy.kind = "bounded_load" =>
                /\ HasRoom(i) /\ owner \in E
                /\ owner # i => ~HasRoom(owner)
      \/ /\ E # {} /\ policy.kind = "bounded_load" /\ r = Failed("LoadOverflow")
         /\ TotalLoad(slice, E) + 1 > MaxU64
      \/ /\ E # {} /\ policy.kind = "bounded_load" /\ r = Failed("WeightOverflow")
         /\ TotalWeight(slice, E) > MaxU64
  <2>1. CASE policy.kind = "rendezvous"
    <3>1. r = Rendezvous(slice, q, policy.hash)
      BY <2>1
    <3> HIDE DEF r, HasRoom, owner
    <3> QED
      BY <1>2, <1>6, <2>1, <3>1, RendezvousIs
  <2>2. CASE policy.kind = "weighted_rendezvous"
    <3>1. r = WeightedRendezvous(slice, q, policy.hash)
      BY <2>2
    <3> HIDE DEF r, HasRoom, owner
    <3> QED
      BY <1>2, <1>6, <2>2, <3>1, WeightedRendezvousIs
  <2>3. CASE policy.kind = "bounded_load"
    <3>1. r = BoundedLoad(slice, q, policy.hash, policy.config.factor)
      BY <2>3
    <3>2. policy.config.factor \in Nat /\ policy.config.factor >= 100
      BY <1>2, <2>3, PoliciesAssumption DEF ValidConfig, ValidBoundedLoadConfig, Grouping
    <3> HIDE DEF r
    <3> QED
      BY <1>2, <1>6, <2>3, <3>1, <3>2, BoundedLoadIs
  <2> QED
    BY <1>2, <2>1, <2>2, <2>3 DEF Hashing
<1>8. TotalLoad(slice, E) \in Nat /\ TotalWeight(slice, E) \in Nat
  BY <1>2, EligibleIs, TotalLoadIs, TotalWeightIs
<1> HIDE DEF E, r, R
<1>9. /\ ResultOK(slice, r) /\ Justified(policy, slice, r)
      /\ Respectful(policy, slice, q, r) /\ Owner(policy, slice, q, r, cache')
  <2>1. CASE E = {} /\ Nobody(slice, r)
    BY <1>2, <2>1, NobodyIsFine DEF E
  <2>2. ASSUME NEW i \in E, r = Selected(i),
               policy.kind = "rendezvous" => \A j \in E \ {i} :
                 RendezvousBeats(slice, q, policy.hash, i, j),
               policy.kind = "weighted_rendezvous" => \A j \in E \ {i} :
                 WeightedBeats(slice, q, policy.hash, i, j),
               policy.kind = "bounded_load" =>
                 HasRoom(i) /\ owner \in E /\ (owner # i => ~HasRoom(owner))
        PROVE  /\ ResultOK(slice, r) /\ Justified(policy, slice, r)
               /\ Respectful(policy, slice, q, r) /\ Owner(policy, slice, q, r, cache')
    <3>1. ResultOK(slice, r) /\ Justified(policy, slice, r) /\ r.index = i
      BY <1>2, <2>2, SelectionIsFine DEF E
    <3>2. Owner(policy, slice, q, r, cache')
      BY <1>3, <2>2, <3>1 DEF Owner, E, Caching
    <3>3. Respectful(policy, slice, q, r)
      <4>1. policy.kind \notin {"least_loaded", "power_of_two_choices"}
        BY <1>3 DEF Rotating, Drawing
      <4>2. policy.config.factor \in Nat \/ policy.kind # "bounded_load"
        BY <1>2, PoliciesAssumption DEF ValidConfig, ValidBoundedLoadConfig, Grouping
      <4>3. ASSUME policy.kind = "bounded_load", owner # i
            PROVE  100 * TotalWeight(slice, E) * slice[owner].load
                     >= policy.config.factor * slice[owner].weight * (TotalLoad(slice, E) + 1)
        <5>1. slice[owner].load \in Nat /\ slice[owner].weight \in Nat
          BY <1>2, <2>2, <4>3, EligibleIs, CandidateIs DEF E
        <5>2. ~HasRoom(owner)
          BY <2>2, <4>3
        <5> DEFINE x == 100 * TotalWeight(slice, E) * slice[owner].load
                   y == policy.config.factor * slice[owner].weight * (TotalLoad(slice, E) + 1)
        <5>3. x \in Nat /\ y \in Nat
          BY <1>8, <4>2, <4>3, <5>1
        <5>4. ~(x < y)
          BY <5>2
        <5> HIDE DEF x, y
        <5>5. x >= y
          BY <5>3, <5>4
        <5> QED
          BY <5>5 DEF x, y
      <4> QED
        BY <2>2, <3>1, <4>1, <4>3 DEF Respectful, E
    <3> QED
      BY <3>1, <3>2, <3>3
  <2>3. CASE /\ E # {} /\ policy.kind = "bounded_load" /\ r = Failed("LoadOverflow")
             /\ TotalLoad(slice, E) + 1 > MaxU64
    <3>1. TotalLoad(slice, E) >= MaxU64
      BY <1>8, <2>3, MaxU64Assumption
    <3> QED
      BY <1>2, <2>3, <3>1, FailureIsFine DEF E, PickErrors
  <2>4. CASE /\ E # {} /\ policy.kind = "bounded_load" /\ r = Failed("WeightOverflow")
             /\ TotalWeight(slice, E) > MaxU64
    BY <1>2, <2>4, FailureIsFine DEF E, PickErrors
  <2> HIDE DEF owner, HasRoom
  <2> QED
    BY <1>7, <2>1, <2>2, <2>3, <2>4
<1> QED
  BY <1>1, <1>3, <1>4, <1>5, <1>9, NotedInvariant DEF r

\* Ring hash and Maglev keep the invariant.
LEMMA PickFromTableInvariant ==
  ASSUME PicksIInv, PickFromTable
  PROVE  PicksIInv'
<1> DEFINE o(slice, q) == IF policy.kind = "ring_hash"
                          THEN RingHash(slice, q, policy.hash, policy.config, cache)
                          ELSE Maglev(slice, q, policy.hash, policy.config, cache)
<1>1. PICK slice \in Slices[policy.inputs], q \in Request :
        cache' = o(slice, q).cache /\ Note(slice, q, o(slice, q).result)
  BY DEF PickFromTable
<1> DEFINE E == Eligible(slice)
           r == o(slice, q).result
           c == o(slice, q).cache
           points == TableOf(policy, RingMembers(slice))
           spot == Clockwise(points, policy.hash.request[q]).index
           slot == policy.hash.request[q] % policy.config.table_size
<1>2. /\ policy \in Policies /\ cursor \in 0..MaxU64 /\ SmoothOK(smooth) /\ IsSlice(slice)
      /\ policy.kind \in Caching
  BY InvariantGives DEF PickFromTable
<1>3. PICK built \in Slices[policy.inputs] \cup {<<>>} :
        BuiltFrom(policy, built, cache) /\ IsSlice(built)
  BY <1>2, InvariantGives
<1>4. /\ policy.kind \notin Hashing /\ policy.kind \notin Rotating /\ policy.kind \notin Drawing
      /\ policy.kind \notin Grouping
  BY <1>2, KindsDiffer
<1>5. DecidedBy(policy, slice, r)
  BY <1>4 DEF DecidedBy, Grouping
<1>6. cursor' \in 0..MaxU64 /\ SmoothOK(smooth')
  BY <1>2 DEF PickFromTable
<1>7. \/ /\ r = Failed("StateCapacityExceeded") /\ c = cache /\ E # {}
         /\ \/ policy.kind = "maglev" /\ Cardinality(E) > policy.config.table_size
            \/ /\ policy.kind = "ring_hash"
               /\ TotalWeight(slice, E) * policy.config.replicas > policy.config.max_nodes
      \/ /\ r = Failed("DuplicateIdentity") /\ c = cache
         /\ Repeats(slice, E) /\ E # {}
      \/ /\ BuiltFrom(policy, slice, c)
         /\ E = {} => Nobody(slice, r)
         /\ E # {} => /\ OneOf(E, r)
                      /\ policy.kind = "ring_hash" => spot \in E /\ r = Selected(spot)
                      /\ policy.kind = "maglev" => r = Selected(OwnerOf(c.table, slot))
  <2>1. CASE policy.kind = "ring_hash"
    <3>1. /\ r = RingHash(slice, q, policy.hash, policy.config, cache).result
          /\ c = RingHash(slice, q, policy.hash, policy.config, cache).cache
      BY <2>1
    <3> HIDE DEF r, c
    <3>2. \/ /\ r = Failed("StateCapacityExceeded") /\ c = cache
             /\ TotalWeight(slice, E) * policy.config.replicas > policy.config.max_nodes
             /\ E # {}
          \/ /\ r = Failed("DuplicateIdentity") /\ c = cache
             /\ Repeats(slice, E) /\ E # {}
          \/ /\ BuiltFrom(policy, slice, c)
             /\ E = {} => Nobody(slice, r)
             /\ E # {} => spot \in E /\ r = Selected(spot)
      <4>1. /\ policy \in Policies /\ policy.kind = "ring_hash" /\ IsSlice(slice)
            /\ IsSlice(built) /\ BuiltFrom(policy, built, cache)
        BY <1>2, <1>3, <2>1
      <4> QED
        BY ONLY <4>1, <3>1, RingHashIs
    <3> HIDE DEF E, spot
    <3> QED
      BY <2>1, <3>2 DEF OneOf
  <2>2. CASE policy.kind # "ring_hash"
    <3>1. policy.kind = "maglev"
      BY <1>2, <2>2 DEF Caching
    <3>2. /\ r = Maglev(slice, q, policy.hash, policy.config, cache).result
          /\ c = Maglev(slice, q, policy.hash, policy.config, cache).cache
      BY <2>2
    <3> HIDE DEF r, c
    <3>3. \/ /\ r = Failed("StateCapacityExceeded") /\ c = cache
             /\ Cardinality(E) > policy.config.table_size /\ E # {}
          \/ /\ r = Failed("DuplicateIdentity") /\ c = cache
             /\ Repeats(slice, E) /\ E # {}
          \/ /\ BuiltFrom(policy, slice, c)
             /\ E = {} => Nobody(slice, r)
             /\ E # {} => OwnerOf(c.table, slot) \in E /\ r = Selected(OwnerOf(c.table, slot))
      BY <1>2, <1>3, <3>1, <3>2, MaglevIs
    <3> HIDE DEF E, spot, slot
    <3> QED
      BY <2>2, <3>1, <3>3 DEF OneOf
  <2> QED
    BY <2>1, <2>2
<1>8. cache' = c /\ Note(slice, q, r)
  BY <1>1
<1> HIDE DEF E, r, c, o
<1>9. Respectful(policy, slice, q, r)
  BY <1>4 DEF Respectful, Rotating, Drawing, Hashing
<1>10. /\ ResultOK(slice, r) /\ Justified(policy, slice, r) /\ Owner(policy, slice, q, r, c)
       /\ \E s \in Slices[policy.inputs] \cup {<<>>} : BuiltFrom(policy, s, c)
  <2>1. CASE /\ r = Failed("StateCapacityExceeded") /\ c = cache /\ E # {}
             /\ \/ policy.kind = "maglev" /\ Cardinality(E) > policy.config.table_size
                \/ /\ policy.kind = "ring_hash"
                   /\ TotalWeight(slice, E) * policy.config.replicas > policy.config.max_nodes
    <3>1. ResultOK(slice, r) /\ Justified(policy, slice, r) /\ Owner(policy, slice, q, r, c)
      BY <1>2, <2>1, FailureIsFine DEF E, PickErrors
    <3> QED
      BY <1>3, <2>1, <3>1
  <2>2. CASE /\ r = Failed("DuplicateIdentity") /\ c = cache
             /\ Repeats(slice, E) /\ E # {}
    <3>1. ResultOK(slice, r) /\ Justified(policy, slice, r) /\ Owner(policy, slice, q, r, c)
      BY <1>2, <2>2, FailureIsFine DEF E, PickErrors
    <3> QED
      BY <1>3, <2>2, <3>1
  <2>3. CASE BuiltFrom(policy, slice, c) /\ E = {} /\ Nobody(slice, r)
    <3>1. ResultOK(slice, r) /\ Justified(policy, slice, r) /\ Owner(policy, slice, q, r, c)
      BY <1>2, <2>3, NobodyIsFine DEF E
    <3> QED
      BY <2>3, <3>1
  <2>4. CASE /\ BuiltFrom(policy, slice, c) /\ E # {} /\ OneOf(E, r)
             /\ policy.kind = "ring_hash" => spot \in E /\ r = Selected(spot)
             /\ policy.kind = "maglev" => r = Selected(OwnerOf(c.table, slot))
    <3>1. PICK i \in E : r = Selected(i)
      BY <2>4 DEF OneOf
    <3>2. ResultOK(slice, r) /\ Justified(policy, slice, r) /\ r.index = i
      BY <1>2, <3>1, SelectionIsFine DEF E
    <3>3. policy.kind = "ring_hash" => i = Clockwise(c.table, policy.hash.request[q]).index
      <4> SUFFICES ASSUME policy.kind = "ring_hash"
                   PROVE  i = Clockwise(c.table, policy.hash.request[q]).index
        OBVIOUS
      <4>1. c.table = points
        BY <2>4 DEF BuiltFrom, MembersOf
      <4>2. r = Selected(spot)
        BY <2>4
      <4> QED
        BY <3>1, <4>1, <4>2 DEF Selected
    <3>4. policy.kind = "maglev" => i = OwnerOf(c.table, slot)
      BY <2>4, <3>1 DEF Selected
    <3>5. Owner(policy, slice, q, r, c)
      BY <1>4, <2>4, <3>1, <3>2, <3>3, <3>4 DEF Owner, E, Hashing
    <3> QED
      BY <2>4, <3>2, <3>5
  <2> HIDE DEF spot, slot
  <2> QED
    BY <1>7, <2>1, <2>2, <2>3, <2>4
<1> QED
  BY <1>4, <1>5, <1>6, <1>8, <1>9, <1>10, NotedInvariant

\* The policies over priorities and localities keep the invariant.
LEMMA PickInGroupsInvariant ==
  ASSUME PicksIInv, PickInGroups
  PROVE  PicksIInv'
<1>1. PICK slice \in Slices[policy.inputs] :
        \E d \in IF policy.kind = "priority"
                 THEN PriorityDecisions(slice, policy.config)
                 ELSE LocalityDecisions(slice, policy.config) :
          Note(slice, 0, d)
  BY DEF PickInGroups
<1>2. PICK d \in IF policy.kind = "priority"
                 THEN PriorityDecisions(slice, policy.config)
                 ELSE LocalityDecisions(slice, policy.config) :
        Note(slice, 0, d)
  BY <1>1
<1>3. /\ policy \in Policies /\ cursor \in 0..MaxU64 /\ SmoothOK(smooth) /\ IsSlice(slice)
      /\ policy.kind \in Grouping
  BY InvariantGives DEF PickInGroups
<1>4. /\ policy.kind \notin Hashing /\ policy.kind \notin Rotating /\ policy.kind \notin Drawing
      /\ policy.kind \notin Caching
  BY <1>3, KindsDiffer
<1>5. cursor' \in 0..MaxU64 /\ SmoothOK(smooth')
  BY <1>3 DEF PickInGroups, stateVars
<1>6. policy.config.panic_mode \in PanicModes
  BY <1>3, PoliciesAssumption DEF ValidConfig, ValidPriorityConfig, Grouping
<1>7. ResultOK(slice, d)
  BY <1>2, <1>3, <1>6, DecisionsTyped
<1>8. Respectful(policy, slice, 0, d) /\ Owner(policy, slice, 0, d, cache')
  BY <1>3, <1>4 DEF Respectful, Owner, Rotating, Drawing, Hashing, Caching
<1>9. DecidedBy(policy, slice, d)
  BY <1>2, <1>3 DEF DecidedBy
<1> QED
  BY <1>2, <1>3, <1>4, <1>5, <1>7, <1>8, <1>9, NotedInvariant

\* Every pick keeps the invariant.
LEMMA PickInvariant ==
  ASSUME PicksIInv, Pick
  PROVE  PicksIInv'
BY PickInTurnInvariant, PickSmoothlyInvariant, PickAtRandomInvariant, PickByScoreInvariant,
   PickFromTableInvariant, PickInGroupsInvariant DEF Pick

\* The steps of other parts keep the invariant.
LEMMA PicksUnchanged ==
  ASSUME PicksIInv, UNCHANGED routingVars
  PROVE  PicksIInv'
BY DEF routingVars, stateVars, PicksIInv, RoutingTypeOK, StatesAreStamped, LastIsGiven,
       LastIsOwner, LastIsDecided, CacheIsBuilt, PicksAreJustified, LoadIsRespected, Excused

\* The invariant of the picks holds forever.
LEMMA PicksInvariance == Spec => []PicksIInv
<1>1. Init => PicksIInv
  BY RoutingInitInvariant DEF Init
<1>2. PicksIInv /\ [Next]_vars => PicksIInv'
  <2> SUFFICES ASSUME PicksIInv, [Next]_vars
               PROVE  PicksIInv'
    OBVIOUS
  <2>1. CASE ObservedPick
    BY <2>1, PickInvariant DEF ObservedPick
  <2>2. CASE ResetPolicy
    BY <2>2, ResetInvariant DEF ResetPolicy
  <2>3. CASE Observing
    BY <2>3, PicksUnchanged DEF Observing
  <2>4. CASE Judging
    BY <2>4, PicksUnchanged DEF Judging
  <2>5. CASE UNCHANGED vars
    BY <2>5, PicksUnchanged DEF vars
  <2> QED
    BY <2>1, <2>2, <2>3, <2>4, <2>5 DEF Next
<1> QED
  BY <1>1, <1>2, PTL DEF Spec

\* Whatever was picked before, a pick from a slice with an eligible candidate
\* selects one, or fails for a reason the slice itself gives.
THEOREM PicksJustified == Spec => []PicksAreJustified
BY PicksInvariance, PTL DEF PicksIInv

\* A selection by load has no more of it than the policy's choice allows, and
\* bounded load always finds the candidate with room that the scores put first.
THEOREM LoadRespected == Spec => []LoadIsRespected
BY PicksInvariance, PTL DEF PicksIInv

\* The steps of other parts keep the invariant of the observability.
LEMMA ObservabilityUnchanged ==
  ASSUME ObservabilityIInv, UNCHANGED observabilityVars
  PROVE  ObservabilityIInv'
<1>1. /\ metrics' = metrics /\ telling' = telling /\ attempt' = attempt
      /\ snapshot' = snapshot /\ truth' = truth
  BY DEF observabilityVars
<1>2. Typed /\ AttemptsInv /\ AllAccounted /\ SnapshotIInv
  BY InvariantParts
<1>3. Typed'
  BY <1>1, <1>2 DEF Typed
<1>4. AttemptsInv'
  BY <1>1, <1>2 DEF AttemptsInv
<1>5. AllAccounted'
  BY <1>1, <1>2, AccountedKept
<1>6. SnapshotIInv'
  BY <1>1, <1>2 DEF SnapshotIInv, Loaded, Total
<1> QED
  BY <1>3, <1>4, <1>5, <1>6, InvariantParts, PTL

\* The steps of attempts, tellers and snapshots keep the invariant.
LEMMA ObservingInvariant ==
  ASSUME ObservabilityIInv, workload \in Workloads, Observing
  PROVE  ObservabilityIInv'
<1>1. workload.attempts \subseteq Attempt /\ workload.sampled \subseteq Sinks
  BY WorkloadsAssumption
<1>2. CASE \E a \in workload.attempts : Begin(a) \/ Complete(a) \/ Drop(a)
  <2>1. PICK a \in workload.attempts : Begin(a) \/ Complete(a) \/ Drop(a)
    BY <1>2
  <2>2. a \in Attempt
    BY <1>1
  <2> QED
    BY <2>1, <2>2, AttemptInvariant
<1>3. CASE ReadinessFails
  BY <1>3, Recordings, NoticeInvariant DEF ReadinessFails
<1>4. CASE \E t \in Tellers : Tell(t)
  BY <1>4, TellInvariant
<1>5. CASE \E s \in workload.sampled : TakeSnapshot(s)
  BY <1>1, <1>5, TakeSnapshotInvariant
<1>6. CASE Load
  BY <1>6, LoadInvariant
<1> QED
  BY <1>2, <1>3, <1>4, <1>5, <1>6 DEF Observing

\* An observed pick keeps the invariant: its result is a decision of some kind.
LEMMA ObservedPickInvariant ==
  ASSUME ObservabilityIInv, PicksIInv', ObservedPick
  PROVE  ObservabilityIInv'
<1>1. DecisionKindOf(last'.result) \in DecisionKinds
  <2>1. /\ last'.result.error \in PickErrors \cup {"none"}
        /\ (last'.result.index = 0) = (last'.result.error # "none")
    BY DEF PicksIInv, RoutingTypeOK
  <2> QED
    BY <2>1 DEF DecisionKindOf, DecisionKinds, PickErrors
<1>2. CASE workload.observed
  <2>1. Notice("policy", RecordDecision(DecisionKindOf(last'.result)))
    BY <1>2 DEF ObservedPick
  <2>2. RecordDecision(DecisionKindOf(last'.result)) \in Recording
    BY <1>1, Recordings
  <2> DEFINE adds == RecordDecision(DecisionKindOf(last'.result))
  <2>3. adds \in Recording /\ Notice("policy", adds)
    BY <2>1, <2>2
  <2> HIDE DEF adds
  <2> QED
    BY <2>3, NoticeInvariant
<1>3. CASE ~workload.observed
  BY <1>3, ObservabilityUnchanged DEF ObservedPick
<1> QED
  BY <1>2, <1>3

\* The invariant of the observability holds forever.
LEMMA ObservabilityInvariance ==
  Spec => [](workload \in Workloads /\ ObservabilityIInv)
<1> DEFINE Inv == workload \in Workloads /\ ObservabilityIInv
<1>1. Init => Inv
  BY ObservabilityInitInvariant DEF Init
<1>2. Inv /\ PicksIInv' /\ [Next]_vars => Inv'
  <2> SUFFICES ASSUME Inv, PicksIInv', [Next]_vars
               PROVE  Inv'
    OBVIOUS
  <2>1. CASE ObservedPick
    <3>1. ObservabilityIInv'
      BY <2>1, ObservedPickInvariant
    <3> QED
      BY <2>1, <3>1 DEF ObservedPick
  <2>2. CASE ResetPolicy
    <3>1. ObservabilityIInv'
      BY <2>2, ObservabilityUnchanged DEF ResetPolicy
    <3> QED
      BY <2>2, <3>1 DEF ResetPolicy
  <2>3. CASE Observing
    <3>1. ObservabilityIInv'
      BY <2>3, ObservingInvariant
    <3> QED
      BY <2>3, <3>1 DEF Observing
  <2>4. CASE Judging
    <3>1. ObservabilityIInv'
      BY <2>4, ObservabilityUnchanged DEF Judging
    <3> QED
      BY <2>4, <3>1 DEF Judging
  <2>5. CASE UNCHANGED vars
    <3>1. ObservabilityIInv' /\ workload' = workload
      BY <2>5, ObservabilityUnchanged DEF vars
    <3> QED
      BY <3>1
  <2> QED
    BY <2>1, <2>2, <2>3, <2>4, <2>5 DEF Next
<1> QED
  BY <1>1, <1>2, PicksInvariance, PTL DEF Spec

\* Whatever the tellers and the sinks interleave, no addition is lost, counted
\* twice or ahead of its event: fetch_update of every counter of Metrics.
THEOREM CountedExactlyOnce == Spec => []EachEventIsCountedOnce
<1>1. ObservabilityIInv => EachEventIsCountedOnce
  BY InvariantParts, CountedOnce DEF Typed
<1> QED
  BY <1>1, ObservabilityInvariance, PTL

\* Each counter of a snapshot lies between what had been recorded everywhere
\* when the snapshot began and what has happened when it is read.
THEOREM SnapshotsBetween == Spec => []SnapshotsAreIntervals
<1>1. ObservabilityIInv => SnapshotsAreIntervals
  BY BetweenCounters DEF ObservabilityIInv
<1> QED
  BY <1>1, ObservabilityInvariance, PTL

\* The states of the policies and of the metrics have their types.
THEOREM TypeCorrect == Spec => []TypeOK
<1>1. PicksIInv /\ ObservabilityIInv => TypeOK
  BY DEF PicksIInv, ObservabilityIInv, TypeOK
<1> QED
  BY <1>1, PicksInvariance, ObservabilityInvariance, PTL

\* Where the first point of a ring is an identity's, and another identity has
\* points in it, those are later.
Passes(x, y, position) ==
  \/ x.position >= position /\ ~(y.position >= position)
  \/ /\ (x.position >= position) = (y.position >= position)
     /\ Before(x, y)

\* The point the ring answers with comes before every other point, going clockwise.
LEMMA OwnerPasses ==
  ASSUME NEW p \in Policies, p.kind = "ring_hash", NEW slice, IsSlice(slice),
         FitIn(p, RingMembers(slice)), Eligible(slice) # {}, NEW position,
         NEW y \in TableOf(p, RingMembers(slice)),
         y # Clockwise(TableOf(p, RingMembers(slice)), position)
  PROVE  Passes(Clockwise(TableOf(p, RingMembers(slice)), position), y, position)
<1> DEFINE P == TableOf(p, RingMembers(slice))
           x == Clockwise(P, position)
           after == {z \in P : z.position >= position}
<1>1. /\ x \in P
      /\ after # {} => x \in after /\ \A z \in after \ {x} : Before(x, z)
      /\ after = {} => \A z \in P \ {x} : Before(x, z)
  BY ClockwiseIs
<1> HIDE DEF x
<1>2. y \in P /\ y # x
  BY DEF x
<1>3. CASE after # {}
  <2>1. x.position >= position
    BY <1>1, <1>3
  <2>2. y.position >= position => y \in after \ {x}
    BY <1>2
  <2> QED
    BY <1>1, <1>3, <2>1, <2>2 DEF Passes, x
<1>4. CASE after = {}
  <2>1. ~(x.position >= position) /\ ~(y.position >= position)
    BY <1>1, <1>2, <1>4
  <2>2. Before(x, y)
    BY <1>1, <1>2, <1>4
  <2> QED
    BY <2>1, <2>2 DEF Passes, x
<1> QED
  BY <1>3, <1>4

\* Whoever answers from a ring owns the request in it.
LEMMA AnswerOwnsOnRing ==
  ASSUME PicksIInv, policy.kind = "ring_hash", last.result.index # 0
  PROVE  OwnsOnRing(cache.table, policy.hash.request[last.request], last.result.index)
<1> DEFINE P == TableOf(policy, RingMembers(last.slice))
           position == policy.hash.request[last.request]
           x == Clockwise(P, position)
<1>1. policy \in Policies /\ IsSlice(last.slice)
  BY InvariantGives
<1>2. /\ BuiltFrom(policy, last.slice, cache) /\ last.result.index \in Eligible(last.slice)
      /\ last.result.index = Clockwise(cache.table, position).index
  BY DEF PicksIInv, LastIsOwner, Caching, Grouping
<1>3. cache.table = P /\ FitIn(policy, RingMembers(last.slice)) /\ Eligible(last.slice) # {}
  BY <1>2 DEF BuiltFrom, MembersOf
<1>4. x \in P
  BY <1>1, <1>3, ClockwiseIs
<1>5. \A y \in P \ {x} : Passes(x, y, position)
  BY <1>1, <1>3, OwnerPasses
<1>6. x.index = last.result.index
  BY <1>2, <1>3
<1> HIDE DEF x, P, position
<1>7. OwnsOnRing(P, position, last.result.index)
  BY <1>4, <1>5, <1>6 DEF OwnsOnRing, Passes
<1> QED
  BY <1>3, <1>7 DEF position

\* Whoever answers from a table of Maglev is the one owner of the request's slot.
LEMMA AnswerOwnsSlot ==
  ASSUME PicksIInv, policy.kind = "maglev", last.result.index # 0
  PROVE  OwnsSlot(cache.table,
                  policy.hash.request[last.request] % policy.config.table_size,
                  last.result.index)
<1> DEFINE M == MembersOf(policy, last.slice)
           h == policy.hash.request[last.request]
           size == policy.config.table_size
           slot == h % size
           x == CHOOSE e \in cache.table : e[1] = slot
<1>1. policy \in Policies /\ IsSlice(last.slice)
  BY InvariantGives
<1>2. /\ BuiltFrom(policy, last.slice, cache) /\ last.result.index \in Eligible(last.slice)
      /\ last.request \in Request /\ last.result.index = x[2]
  BY DEF PicksIInv, LastIsOwner, Caching, Grouping, OwnerOf
<1>3. Permuting(M, policy.hash, size) /\ size \in Nat \ {0} /\ h \in Int
  <2>1. Permuting(M, policy.hash, size)
    BY <1>1, <1>2, MembersPermute
  <2>2. size \in Nat /\ IsPrime(size) /\ h \in Nat
    BY <1>1, <1>2, MembersPermute
  <2> HIDE DEF M, size, h
  <2> QED
    BY ONLY <2>1, <2>2 DEF IsPrime
<1>4. cache.table = PopulateTable(M, policy.hash, size)
  BY <1>2 DEF BuiltFrom, TableOf
<1>5. FilledTo(M, policy.hash, size, size, cache.table)
  BY <1>3, <1>4, TableIsFull
<1> HIDE DEF M, h, size
<1>6. slot \in 0..(size - 1)
  BY ONLY <1>3, Division
<1> HIDE DEF slot
<1>7. x \in cache.table /\ x[1] = slot
  <2>1. \E e \in cache.table : e[1] = slot
    BY <1>3, <1>5, <1>6, SlotHasOwner
  <2> QED
    BY <2>1
<1> HIDE DEF x
<1>8. x = <<x[1], x[2]>> /\ \A e \in cache.table : e[1] = slot => e = x
  BY <1>5, <1>7 DEF FilledTo
<1>9. OwnsSlot(cache.table, slot, x[2])
  BY <1>7, <1>8 DEF OwnsSlot
<1> QED
  BY <1>2, <1>9 DEF slot, h, size

\* A table of ring hash or Maglev that fits its slice is one the policy built.
LEMMA TablesCurrent ==
  ASSUME PicksIInv
  PROVE  TablesAreCurrent
<1> SUFFICES ASSUME policy.kind \in Caching
             PROVE  /\ cache.members # {} => cache.table = TableOf(policy, cache.members)
                    /\ last.result.index # 0 => cache.members = MembersOf(policy, last.slice)
                    /\ policy.kind = "maglev" => \A m, n \in cache.members :
                         Cardinality(SlotsOf(cache.table, m))
                           <= Cardinality(SlotsOf(cache.table, n)) + 1
  BY AnswerOwnsOnRing, AnswerOwnsSlot DEF TablesAreCurrent, SlotsOf
<1>1. policy \in Policies /\ IsSlice(last.slice)
  BY InvariantGives
<1>2. PICK built \in Slices[policy.inputs] \cup {<<>>} :
        BuiltFrom(policy, built, cache) /\ IsSlice(built)
  BY InvariantGives
<1>3. cache.table = TableOf(policy, cache.members) /\ cache.members = MembersOf(policy, built)
  BY <1>2 DEF BuiltFrom
<1>4. last.result.index # 0 => cache.members = MembersOf(policy, last.slice)
  BY DEF PicksIInv, LastIsOwner, BuiltFrom
<1>5. ASSUME policy.kind = "maglev", NEW m \in cache.members, NEW n \in cache.members
      PROVE  Cardinality(SlotsOf(cache.table, m)) <= Cardinality(SlotsOf(cache.table, n)) + 1
  <2> DEFINE M == cache.members
             size == policy.config.table_size
  <2>1. Eligible(built) # {}
    BY <1>2, <1>3, <1>5, MembersAre
  <2>2. Permuting(M, policy.hash, size) /\ size \in Nat
    BY <1>1, <1>2, <1>3, <1>5, <2>1, MembersPermute
  <2>3. cache.table = PopulateTable(M, policy.hash, size)
    BY <1>3, <1>5 DEF TableOf
  <2>4. FilledTo(M, policy.hash, size, size, cache.table)
    BY <2>2, <2>3, TableIsFull
  <2> HIDE DEF M, size
  <2>5. m \in M /\ n \in M
    BY <1>5 DEF M
  <2> QED
    BY <2>2, <2>4, <2>5, PartsAreEqual
<1> QED
  BY <1>3, <1>4, <1>5

\* No table is older than the slice its pick answers for, whatever members came,
\* went, moved or changed weight; whoever answers owns the request in it; and
\* Maglev's members have equal parts of it, but for one slot.
THEOREM TablesStayCurrent == Spec => []TablesAreCurrent
BY TablesCurrent, PicksInvariance, PTL

-----------------------------------------------------------------------------
(* Which requests move.                                                    *)

\* An identity that stands alike in two slices is eligible in both, with one
\* weight.
LEMMA StandsInBoth ==
  ASSUME NEW slice, NEW other, NEW i \in Eligible(slice),
         Standing(slice, slice[i].id) = Standing(other, slice[i].id)
  PROVE  \E k \in Eligible(other) : /\ other[k].id = slice[i].id
                                    /\ other[k].weight = slice[i].weight
<1>1. slice[i].weight \in Standing(slice, slice[i].id)
  BY DEF Standing
<1> QED
  BY <1>1 DEF Standing

\* The points of an identity that is in two rings of one scale are in both.
LEMMA PointInBoth ==
  ASSUME NEW p \in Policies, p.kind = "ring_hash",
         NEW slice, IsSlice(slice), NEW other, IsSlice(other),
         GreatestCommonDivisor(Weights(slice)) = GreatestCommonDivisor(Weights(other)),
         NEW x \in TableOf(p, RingMembers(slice)),
         NEW k \in Eligible(other), other[k].id = slice[x.index].id,
         ~Repeats(slice, Eligible(slice)),
         other[k].weight = slice[x.index].weight
  PROVE  [position |-> x.position, owner_hash |-> x.owner_hash,
          replica |-> x.replica, index |-> k] \in TableOf(p, RingMembers(other))
<1> DEFINE M == RingMembers(slice)
           N == RingMembers(other)
           replicas == p.config.replicas
<1>1. PICK m \in M :
        x \in {[position |-> p.hash.point[m.key][r], owner_hash |-> p.hash.owner[m.key],
                replica |-> r, index |-> m.index] : r \in 0..(PointsFor(m, M, replicas) - 1)}
  BY DEF TableOf, RingPoints
<1>2. PICK r \in 0..(PointsFor(m, M, replicas) - 1) :
        x = [position |-> p.hash.point[m.key][r], owner_hash |-> p.hash.owner[m.key],
             replica |-> r, index |-> m.index]
  BY <1>1
<1>3. m.key = slice[m.index].id /\ m.weight = slice[m.index].weight /\ x.index = m.index
  BY <1>2, RingMembersAre
<1> DEFINE n == [index |-> k, key |-> other[k].id, weight |-> other[k].weight]
<1>4. n \in N
  BY RingMembersAre
<1>5. n.key = m.key /\ n.weight = m.weight /\ n.index = k
  BY <1>3
<1>6. \A s : IsSlice(s) => {e.weight : e \in RingMembers(s)} = Weights(s)
  <2> SUFFICES ASSUME NEW s, IsSlice(s)
               PROVE  {e.weight : e \in RingMembers(s)} = Weights(s)
    OBVIOUS
  <2>1. \A e \in RingMembers(s) : e.weight \in Weights(s)
    BY RingMembersAre DEF Weights
  <2>2. ASSUME NEW i \in Eligible(s)
        PROVE  \E e \in RingMembers(s) : e.weight = s[i].weight
    <3>1. [index |-> i, key |-> s[i].id, weight |-> s[i].weight] \in RingMembers(s)
      BY RingMembersAre
    <3> QED
      BY <3>1
  <2> QED
    BY <2>1, <2>2 DEF Weights
<1>7. PointsFor(n, N, replicas) = PointsFor(m, M, replicas)
  BY <1>5, <1>6 DEF PointsFor
<1> HIDE DEF n
<1>8. [position |-> p.hash.point[n.key][r], owner_hash |-> p.hash.owner[n.key],
       replica |-> r, index |-> n.index]
        \in {[position |-> p.hash.point[n.key][c], owner_hash |-> p.hash.owner[n.key],
              replica |-> c, index |-> n.index] : c \in 0..(PointsFor(n, N, replicas) - 1)}
  BY <1>7
<1>9. [position |-> p.hash.point[n.key][r], owner_hash |-> p.hash.owner[n.key],
       replica |-> r, index |-> n.index] \in TableOf(p, N)
  BY <1>4, <1>8 DEF TableOf, RingPoints
<1> QED
  BY <1>2, <1>5, <1>9

\* Two points of different owners pass each other in one way, wherever they are.
LEMMA PassingIsOneWay ==
  ASSUME NEW x, NEW y, NEW position, x.position \in Nat, y.position \in Nat,
         x.owner_hash \in Nat, y.owner_hash \in Nat, x.owner_hash # y.owner_hash,
         NEW u, NEW v, u.position = x.position, u.owner_hash = x.owner_hash,
         v.position = y.position, v.owner_hash = y.owner_hash,
         Passes(x, y, position)
  PROVE  ~Passes(v, u, position)
BY DEF Passes, Before

\* Two candidates that stand alike in two slices are not in one order in the
\* first, and in the other order in the second.
LEMMA RendezvousStays ==
  ASSUME NEW p \in Policies, p.kind \in Hashing, NEW q \in Request,
         NEW slice, IsSlice(slice), NEW other, IsSlice(other),
         NEW i \in Eligible(slice), NEW k \in Eligible(slice),
         NEW j \in Eligible(other), NEW l \in Eligible(other),
         slice[i].id = other[l].id, slice[i].weight = other[l].weight,
         slice[k].id = other[j].id, slice[k].weight = other[j].weight,
         Score(slice, q, p.hash, i) # Score(slice, q, p.hash, k)
  PROVE  /\ RendezvousBeats(slice, q, p.hash, i, k)
              => ~RendezvousBeats(other, q, p.hash, j, l)
         /\ WeightedBeats(slice, q, p.hash, i, k)
              => ~WeightedBeats(other, q, p.hash, j, l)
<1> DEFINE g == Score(slice, q, p.hash, i)
           h == Score(slice, q, p.hash, k)
           v == slice[i].weight
           w == slice[k].weight
<1>1. Score(other, q, p.hash, l) = g /\ Score(other, q, p.hash, j) = h
  BY DEF Score
<1>2. Scores(slice, q, p.hash, Eligible(slice))
  BY ScoresAre, EligibleIs
<1>3. /\ g \in Nat /\ h \in Nat /\ g # h
      /\ LogCost[g] \in Nat /\ LogCost[h] \in Nat
  BY <1>2 DEF Scores
<1>4. v \in Nat /\ w \in Nat
  BY EligibleIs, CandidateIs
<1> DEFINE left == LogCost[g] * w
           right == LogCost[h] * v
<1>5. left \in Nat /\ right \in Nat
  BY <1>3, <1>4
<1>6. /\ RendezvousBeats(slice, q, p.hash, i, k) => g > h
      /\ RendezvousBeats(other, q, p.hash, j, l) => h > g
  BY <1>1, <1>3 DEF RendezvousBeats
<1>7. /\ WeightedBeats(slice, q, p.hash, i, k) => left < right \/ (left = right /\ g > h)
      /\ WeightedBeats(other, q, p.hash, j, l) => right < left \/ (right = left /\ h > g)
  BY <1>1, <1>3 DEF WeightedBeats
<1> HIDE DEF g, h, left, right
<1> QED
  BY <1>3, <1>5, <1>6, <1>7

\* So a request whose owner of two picks changed between them was left by one
\* that stands otherwise, or went to one.
LEMMA OwnerStands ==
  ASSUME NEW p \in Policies, p.kind \in {"rendezvous", "weighted_rendezvous", "ring_hash"},
         NEW q, NEW slice, IsSlice(slice), NEW other, IsSlice(other),
         NEW r, NEW s, NEW c, NEW d, r.index # 0, s.index # 0,
         Owner(p, slice, q, r, c), Owner(p, other, q, s, d),
         slice[r.index].id # other[s.index].id,
         \A i, k \in Eligible(slice) : slice[i].id # slice[k].id =>
           IF p.kind = "ring_hash"
           THEN p.hash.owner[slice[i].id] # p.hash.owner[slice[k].id]
           ELSE Score(slice, q, p.hash, i) # Score(slice, q, p.hash, k),
         p.kind = "ring_hash" =>
           GreatestCommonDivisor(Weights(slice)) = GreatestCommonDivisor(Weights(other)),
         Standing(slice, slice[r.index].id) = Standing(other, slice[r.index].id),
         Standing(slice, other[s.index].id) = Standing(other, other[s.index].id)
  PROVE  FALSE
<1> DEFINE i == r.index
           j == s.index
<1>1. i \in Eligible(slice) /\ j \in Eligible(other)
  BY DEF Owner, Grouping
<1>2. PICK l \in Eligible(other) : other[l].id = slice[i].id /\ other[l].weight = slice[i].weight
  <2>1. Standing(slice, slice[i].id) = Standing(other, slice[i].id)
    OBVIOUS
  <2> HIDE DEF i
  <2> QED
    BY ONLY <1>1, <2>1, StandsInBoth
<1>3. PICK k \in Eligible(slice) : slice[k].id = other[j].id /\ slice[k].weight = other[j].weight
  BY <1>1, StandsInBoth
<1>4. i # k /\ j # l /\ slice[i].id # slice[k].id
  BY <1>2, <1>3
<1>5. CASE p.kind \in {"rendezvous", "weighted_rendezvous"}
  <2>1. p.kind \in Hashing /\ q \in Request
    BY <1>5 DEF Owner, Hashing
  <2>2. Score(slice, q, p.hash, i) # Score(slice, q, p.hash, k)
    BY <1>1, <1>3, <1>4, <1>5
  <2>3. /\ RendezvousBeats(slice, q, p.hash, i, k) => ~RendezvousBeats(other, q, p.hash, j, l)
        /\ WeightedBeats(slice, q, p.hash, i, k) => ~WeightedBeats(other, q, p.hash, j, l)
    BY <1>1, <1>2, <1>3, <2>1, <2>2, RendezvousStays
  <2>4. CASE p.kind = "rendezvous"
    BY <1>1, <1>2, <1>3, <1>4, <2>3, <2>4 DEF Owner
  <2>5. CASE p.kind = "weighted_rendezvous"
    BY <1>1, <1>2, <1>3, <1>4, <2>3, <2>5 DEF Owner
  <2> QED
    BY <1>5, <2>4, <2>5
<1>6. CASE p.kind = "ring_hash"
  <2> DEFINE P == TableOf(p, RingMembers(slice))
             O == TableOf(p, RingMembers(other))
             position == p.hash.request[q]
             x == Clockwise(P, position)
             y == Clockwise(O, position)
  <2>1. /\ BuiltFrom(p, slice, c) /\ BuiltFrom(p, other, d)
        /\ i = Clockwise(c.table, position).index /\ j = Clockwise(d.table, position).index
    BY <1>6 DEF Owner, Caching
  <2>2. /\ c.table = P /\ d.table = O
        /\ FitIn(p, RingMembers(slice)) /\ FitIn(p, RingMembers(other))
        /\ ~Repeats(slice, Eligible(slice)) /\ ~Repeats(other, Eligible(other))
    BY <1>6, <2>1 DEF BuiltFrom, MembersOf
  <2>3. i = x.index /\ j = y.index
    BY <2>1, <2>2
  <2>4. x \in P /\ y \in O
    BY <1>1, <1>6, <2>2, ClockwiseIs
  <2> HIDE DEF x, y
  <2> DEFINE u == [position |-> x.position, owner_hash |-> x.owner_hash,
                   replica |-> x.replica, index |-> l]
             v == [position |-> y.position, owner_hash |-> y.owner_hash,
                   replica |-> y.replica, index |-> k]
  <2>5. u \in O
    BY <1>2, <1>6, <2>2, <2>3, <2>4, PointInBoth
  <2>6. v \in P
    BY <1>3, <1>6, <2>2, <2>3, <2>4, PointInBoth
  <2>7. x # v /\ y # u
    BY <1>4, <2>3
  <2>8. Passes(x, v, position)
    BY <1>1, <1>6, <2>2, <2>6, <2>7, OwnerPasses DEF x
  <2>9. Passes(y, u, position)
    BY <1>1, <1>6, <2>2, <2>5, <2>7, OwnerPasses DEF y
  <2>10. /\ x.position \in Nat /\ x.owner_hash \in Nat
         /\ x.owner_hash = p.hash.owner[slice[i].id]
    BY <1>6, <2>2, <2>3, <2>4, PointsAre, SMTT(20)
  <2>11. /\ v.position \in Nat /\ v.owner_hash \in Nat
         /\ v.owner_hash = p.hash.owner[slice[k].id]
    BY <1>6, <2>2, <2>6, PointsAre
  <2>12. x.owner_hash # v.owner_hash
    BY <1>1, <1>3, <1>4, <1>6, <2>10, <2>11
  <2>13. /\ u.position = x.position /\ u.owner_hash = x.owner_hash
         /\ y.position = v.position /\ y.owner_hash = v.owner_hash
    OBVIOUS
  <2> HIDE DEF u, v
  <2> QED
    BY <2>8, <2>9, <2>10, <2>11, <2>12, <2>13, PassingIsOneWay
<1> QED
  BY <1>5, <1>6

\* What the last pick owes, as a relation of its parts.
LEMMA LastOwns ==
  ASSUME PicksIInv
  PROVE  /\ Owner(policy, last.slice, last.request, last.result, cache)
         /\ policy \in Policies /\ IsSlice(last.slice)
<1>1. policy \in Policies /\ IsSlice(last.slice)
  BY InvariantGives
<1>2. Owner(policy, last.slice, last.request, last.result, cache)
  BY DEF PicksIInv, LastIsOwner, Owner
<1> QED
  BY <1>1, <1>2

\* No step of the application gives a policy another kind or hash.
LEMMA PolicyStays ==
  ASSUME [Next]_vars
  PROVE  policy' = policy
BY DEF Next, vars, routingVars, ObservedPick, Pick, PickInTurn, PickSmoothly, PickAtRandom,
       PickByScore, PickFromTable, PickInGroups, Note, ResetPolicy, Reset, Observing, Judging

\* When a key moves between two answers, its old or its new owner came or went.
LEMMA KeysMove ==
  ASSUME PicksIInv, PicksIInv', [Next]_vars,
         policy.kind \in {"rendezvous", "weighted_rendezvous", "ring_hash"},
         last.result.index # 0, last'.result.index # 0, last'.request = last.request,
         ~Collide(last.slice, last.request), ~Collide(last'.slice, last.request),
         SameScale(last.slice, last'.slice),
         last'.slice[last'.result.index].id # last.slice[last.result.index].id
  PROVE  \E id \in {last.slice[last.result.index].id, last'.slice[last'.result.index].id} :
           Standing(last.slice, id) # Standing(last'.slice, id)
<1> DEFINE slice == last.slice
           other == last'.slice
           r == last.result
           s == last'.result
           q == last.request
<1>1. policy' = policy
  BY PolicyStays
<1>2. /\ Owner(policy, slice, q, r, cache) /\ policy \in Policies /\ IsSlice(slice)
  BY LastOwns
<1>3. Owner(policy, other, q, s, cache') /\ IsSlice(other)
  <2>1. (/\ Owner(policy, last.slice, last.request, last.result, cache)
         /\ policy \in Policies /\ IsSlice(last.slice))'
    BY LastOwns, PTL
  <2> QED
    BY <1>1, <2>1
<1>4. \A i, k \in Eligible(slice) : slice[i].id # slice[k].id =>
        IF policy.kind = "ring_hash"
        THEN policy.hash.owner[slice[i].id] # policy.hash.owner[slice[k].id]
        ELSE Score(slice, q, policy.hash, i) # Score(slice, q, policy.hash, k)
  BY DEF Collide
<1>5. policy.kind = "ring_hash" =>
        GreatestCommonDivisor(Weights(slice)) = GreatestCommonDivisor(Weights(other))
  BY DEF SameScale
<1> SUFFICES ASSUME Standing(slice, slice[r.index].id) = Standing(other, slice[r.index].id),
                    Standing(slice, other[s.index].id) = Standing(other, other[s.index].id)
             PROVE  FALSE
  OBVIOUS
<1>6. /\ policy.kind \in {"rendezvous", "weighted_rendezvous", "ring_hash"}
      /\ r.index # 0 /\ s.index # 0 /\ slice[r.index].id # other[s.index].id
  OBVIOUS
<1> HIDE DEF slice, other, r, s, q
<1> QED
  BY <1>2, <1>3, <1>4, <1>5, <1>6, OwnerStands

\* The step the property speaks of.
OwnersStep ==
  LET old == last.slice[last.result.index]
      new == last'.slice[last'.result.index]
  IN  /\ policy.kind \in {"rendezvous", "weighted_rendezvous", "ring_hash"}
      /\ last.result.index # 0 /\ last'.result.index # 0
      /\ last'.request = last.request
      /\ ~Collide(last.slice, last.request) /\ ~Collide(last'.slice, last.request)
      /\ SameScale(last.slice, last'.slice)
      /\ new.id # old.id
      => \E id \in {old.id, new.id} :
           Standing(last.slice, id) # Standing(last'.slice, id)

\* Whatever else came and went, a request moves between two picks only from a
\* candidate or to a candidate that changed: the highest score and the first
\* point of the ring depend on the members alone, not on their places.
THEOREM OnlyChangedKeys == Spec => OnlyChangedKeysMove
<1>1. PicksIInv /\ PicksIInv' /\ [Next]_vars => [OwnersStep]_routingVars
  BY KeysMove DEF OwnersStep
<1> QED
  BY <1>1, PicksInvariance, PTL DEF Spec, OnlyChangedKeysMove, OwnersStep

-----------------------------------------------------------------------------
(* What the priorities share.                                              *)

\* The priorities of a slice.
LEMMA PrioritiesAre ==
  ASSUME NEW slice, IsSlice(slice)
  PROVE  /\ IsFiniteSet(Priorities(slice)) /\ Priorities(slice) \subseteq Nat
         /\ (Priorities(slice) = {} <=> Members(slice) = {})
         /\ \A p : MembersAt(slice, p) \subseteq DOMAIN slice
         /\ \A p \in Priorities(slice) : MembersAt(slice, p) # {}
         /\ \A p : \A i \in MembersAt(slice, p) :
              /\ slice[i].priority = p /\ p \in Priorities(slice)
              /\ slice[i].locality_weight \in Nat \ {0}
<1>1. /\ Members(slice) \subseteq DOMAIN slice /\ IsFiniteSet(Members(slice))
      /\ \A i \in Members(slice) : /\ slice[i].priority \in Nat
                                   /\ slice[i].locality_weight \in Nat \ {0}
  <2>1. Members(slice) \subseteq DOMAIN slice
    BY DEF Members
  <2> QED
    BY <2>1, EligibleIs, FS_Subset, CandidateIs
<1> DEFINE M == Members(slice)
           f == [i \in M |-> slice[i].priority]
<1>2. f \in Surjection(M, Priorities(slice))
  <2>1. f \in [M -> Priorities(slice)]
    BY DEF Priorities
  <2>2. \A p \in Priorities(slice) : \E i \in M : f[i] = p
    BY DEF Priorities
  <2> QED
    BY <2>1, <2>2 DEF Surjection
<1>3. IsFiniteSet(Priorities(slice))
  BY <1>1, <1>2, FS_Surjection
<1> QED
  BY <1>1, <1>3 DEF Priorities, MembersAt

\* A share of the traffic, and whose it is.
LEMMA RatioIs ==
  ASSUME NEW available \in Nat, NEW total \in Nat \ {0}, NEW percent \in Nat
  PROVE  /\ RatioUnits(available, total, percent) \in 0..TrafficUnits
         /\ available = 0 => RatioUnits(available, total, percent) = 0
<1> DEFINE n == available * percent * TrafficUnits
           d == total * 100
<1>1. n \in Nat /\ d \in Nat \ {0} /\ (available = 0 => n = 0)
  <2>1. available * percent \in Nat /\ (available = 0 => available * percent = 0)
    OBVIOUS
  <2> QED
    BY <2>1, TrafficUnitsAssumption
<1> HIDE DEF n, d
<1>2. n \in Int
  BY <1>1
<1>3. n \div d \in Nat /\ \A q \in Int, r \in 0..(d - 1) : n = d * q + r => n \div d = q
  BY ONLY <1>1, <1>2, Division
<1>4. n = 0 => n \div d = 0
  <2>1. 0 \in Int /\ 0 \in 0..(d - 1) /\ 0 = d * 0 + 0
    BY <1>1
  <2> QED
    BY <1>3, <2>1
<1>5. RatioUnits(available, total, percent) = Min({TrafficUnits, n \div d})
  BY DEF RatioUnits, n, d
<1>6. RatioUnits(available, total, percent)
        = IF TrafficUnits <= n \div d THEN TrafficUnits ELSE n \div d
  BY <1>3, <1>5, TrafficUnitsAssumption, MinOfTwo
<1> QED
  BY <1>1, <1>3, <1>4, <1>6, TrafficUnitsAssumption

\* A priority is never more than wholly available, and only with healthy members.
LEMMA AvailabilityIs ==
  ASSUME NEW slice, IsSlice(slice), NEW p \in Priorities(slice), NEW percent \in Nat
  PROVE  /\ Availability(slice, p, percent) \in 0..TrafficUnits
         /\ Availability(slice, p, percent) > 0 => InScope(slice, p, "healthy") # {}
<1> DEFINE S == MembersAt(slice, p)
           T == S \cap Eligible(slice)
<1>1. S \in SUBSET DOMAIN slice /\ T \in SUBSET DOMAIN slice /\ S # {}
  BY PrioritiesAre
<1>2. TotalWeight(slice, T) \in Nat /\ TotalWeight(slice, S) \in Nat \ {0}
  <2>1. TotalWeight(slice, T) \in Nat
    BY <1>1, TotalWeightIs
  <2>2. PICK i \in S : TRUE
    BY <1>1
  <2>3. /\ TotalWeight(slice, S) \in Nat /\ slice[i].weight \in Nat \ {0}
        /\ slice[i].weight <= TotalWeight(slice, S)
    BY <1>1, <2>2, TotalWeightIs
  <2> QED
    BY <2>1, <2>3
<1>3. T = {} => TotalWeight(slice, T) = 0
  BY <1>1, TotalWeightIs, SumEmpty
<1>4. T = InScope(slice, p, "healthy")
  BY <1>1 DEF InScope, Eligible
<1> HIDE DEF S, T
<1>5. /\ Availability(slice, p, percent) \in 0..TrafficUnits
      /\ TotalWeight(slice, T) = 0 => Availability(slice, p, percent) = 0
  BY <1>2, RatioIs DEF Availability, S, T
<1> QED
  BY <1>3, <1>4, <1>5

ShareOf(slice, config) == [p \in Priorities(slice) |-> Effective(slice, config, p)]
TrafficOf(slice, config) == [p \in Priorities(slice) |-> Traffic(slice, config, p)]

\* The effective availabilities are shares, and what a set of them comes to.
LEMMA SharesAre ==
  ASSUME NEW slice, IsSlice(slice), NEW config, config.overprovisioning \in Nat
  PROVE  /\ \A p \in Priorities(slice) :
              /\ ShareOf(slice, config)[p] = Effective(slice, config, p)
              /\ Effective(slice, config, p) \in 0..TrafficUnits
              /\ Effective(slice, config, p) \in Nat
              /\ Effective(slice, config, p) > 0 => InScope(slice, p, "healthy") # {}
         /\ \A S \in SUBSET Priorities(slice) :
              /\ MapThenSumSet(LAMBDA q : Effective(slice, config, q), S)
                   = SumOf(ShareOf(slice, config), S)
              /\ SumOf(ShareOf(slice, config), S) \in Nat
              /\ SumOf(ShareOf(slice, config), S)
                   <= SumOf(ShareOf(slice, config), Priorities(slice))
<1> DEFINE f == ShareOf(slice, config)
           P == Priorities(slice)
<1>1. \A p \in P : /\ f[p] = Effective(slice, config, p)
                   /\ f[p] \in 0..TrafficUnits /\ f[p] \in Nat
                   /\ f[p] > 0 => InScope(slice, p, "healthy") # {}
  BY AvailabilityIs, TrafficUnitsAssumption DEF ShareOf, Effective
<1>2. IsFiniteSet(P)
  BY PrioritiesAre
<1>3. ASSUME NEW S \in SUBSET P
      PROVE  MapThenSumSet(LAMBDA q : Effective(slice, config, q), S) = SumOf(f, S)
  <2>1. ASSUME NEW g
        PROVE  [t \in SUBSET S |-> IF t = {} THEN 0
                  ELSE LET x == CHOOSE y \in t : TRUE
                       IN  Effective(slice, config, x) + g[t \ {x}]]
               = [t \in SUBSET S |-> StepOf(FALSE, f, t, g)]
    BY <1>1 DEF StepOf
  <2> HIDE DEF f
  <2> QED
    BY <2>1, SumUnfold DEF MapThenSumSet, MapThenFoldSet, Iteration, Recursion
<1> HIDE DEF f, P
<1>4. \A S \in SUBSET P : SumOf(f, S) \in Nat /\ SumOf(f, S) <= SumOf(f, P)
  BY <1>1, <1>2, SumParts
<1> QED
  BY <1>1, <1>3, <1>4 DEF f, P

PrioritiesBefore(slice, n) == {q \in Priorities(slice) : q < n}

\* What is ahead of a priority, and whether there is a shortage, as sums.
LEMMA AheadIs ==
  ASSUME NEW slice, IsSlice(slice), NEW config, config.overprovisioning \in Nat
  PROVE  LET All == SumOf(ShareOf(slice, config), Priorities(slice))
         IN  /\ All \in Nat
             /\ \A n \in Nat :
                  /\ Ahead(slice, config, n)
                       = SumOf(ShareOf(slice, config), PrioritiesBefore(slice, n))
                  /\ Ahead(slice, config, n) \in Nat /\ Ahead(slice, config, n) <= All
             /\ TotalEffective(slice, config)
                  = IF All <= TrafficUnits THEN All ELSE TrafficUnits
             /\ Shortage(slice, config) <=> All < TrafficUnits
<1> DEFINE All == SumOf(ShareOf(slice, config), Priorities(slice))
<1>1. All \in Nat
  BY SharesAre
<1>2. ASSUME NEW n \in Nat
      PROVE  /\ Ahead(slice, config, n)
                  = SumOf(ShareOf(slice, config), PrioritiesBefore(slice, n))
             /\ Ahead(slice, config, n) \in Nat /\ Ahead(slice, config, n) <= All
  <2>1. PrioritiesBefore(slice, n) \in SUBSET Priorities(slice)
    BY DEF PrioritiesBefore
  <2>2. Ahead(slice, config, n)
          = MapThenSumSet(LAMBDA q : Effective(slice, config, q), PrioritiesBefore(slice, n))
    BY DEF Ahead, PrioritiesBefore
  <2> DEFINE S == PrioritiesBefore(slice, n)
  <2>3. S \in SUBSET Priorities(slice)
        /\ Ahead(slice, config, n)
             = MapThenSumSet(LAMBDA q : Effective(slice, config, q), S)
    BY <2>1, <2>2
  <2> HIDE DEF S
  <2>4. MapThenSumSet(LAMBDA q : Effective(slice, config, q), S)
          = SumOf(ShareOf(slice, config), S)
    BY <2>3, SharesAre
  <2>5. /\ SumOf(ShareOf(slice, config), S) \in Nat
        /\ SumOf(ShareOf(slice, config), S) <= All
    BY <2>3, SharesAre
  <2> QED
    BY <2>3, <2>4, <2>5 DEF S
<1>3. TotalEffective(slice, config) = IF All <= TrafficUnits THEN All ELSE TrafficUnits
  <2>1. TotalEffective(slice, config) = Min({TrafficUnits, All})
    <3>1. Priorities(slice) \in SUBSET Priorities(slice)
      OBVIOUS
    <3>2. MapThenSumSet(LAMBDA q : Effective(slice, config, q), Priorities(slice)) = All
      BY <3>1, SharesAre
    <3> QED
      BY <3>2 DEF TotalEffective
  <2> HIDE DEF All
  <2> QED
    BY <1>1, <2>1, MinOfTwo, TrafficUnitsAssumption
<1> HIDE DEF All
<1>4. Shortage(slice, config) <=> All < TrafficUnits
  BY <1>1, <1>3, TrafficUnitsAssumption DEF Shortage
<1> QED
  BY <1>1, <1>2, <1>3, <1>4 DEF All

\* What a priority takes when there is no shortage.
LEMMA TrafficIs ==
  ASSUME NEW slice, IsSlice(slice), NEW config, config.overprovisioning \in Nat,
         NEW p \in Priorities(slice)
  PROVE  LET e == Effective(slice, config, p)
             a == Ahead(slice, config, p)
             left == IF a <= TrafficUnits THEN TrafficUnits - a ELSE 0
         IN  /\ e \in Nat /\ a \in Nat /\ left \in Nat
             /\ Traffic(slice, config, p)
                  = IF Shortage(slice, config) THEN e ELSE IF e <= left THEN e ELSE left
             /\ Traffic(slice, config, p) \in Nat
             /\ Traffic(slice, config, p) > 0 => e > 0
             /\ Traffic(slice, config, p) > 0 /\ ~Shortage(slice, config) => a < TrafficUnits
<1> DEFINE e == Effective(slice, config, p)
           a == Ahead(slice, config, p)
           left == IF a <= TrafficUnits THEN TrafficUnits - a ELSE 0
<1>1. e \in Nat /\ a \in Nat
  BY PrioritiesAre, SharesAre, AheadIs
<1> HIDE DEF e, a
<1>2. left \in Nat /\ TrafficUnits \in Int /\ (left > 0 => a < TrafficUnits)
  BY <1>1, TrafficUnitsAssumption
<1>3. Max({0, TrafficUnits - a}) = left
  BY <1>1, <1>2, MaxOfTwo
<1>4. Min({e, left}) = IF e <= left THEN e ELSE left
  BY <1>1, <1>2, MinOfTwo
<1>5. Traffic(slice, config, p)
        = IF Shortage(slice, config) THEN e ELSE IF e <= left THEN e ELSE left
  <2>1. Traffic(slice, config, p)
          = IF Shortage(slice, config) THEN e ELSE Min({e, Max({0, TrafficUnits - a})})
    BY DEF Traffic, e, a
  <2> QED
    BY <1>3, <1>4, <2>1
<1> HIDE DEF left
<1>6. /\ Traffic(slice, config, p) \in Nat
      /\ Traffic(slice, config, p) > 0 => e > 0
      /\ Traffic(slice, config, p) > 0 /\ ~Shortage(slice, config) => a < TrafficUnits
  BY <1>1, <1>2, <1>5
<1> QED
  BY <1>1, <1>2, <1>5, <1>6 DEF e, a, left

\* The priorities before n, and n.
LEMMA BeforeNext ==
  ASSUME NEW slice, IsSlice(slice), NEW n \in Nat
  PROVE  /\ n \in Priorities(slice) =>
              /\ PrioritiesBefore(slice, n + 1) = PrioritiesBefore(slice, n) \cup {n}
              /\ n \notin PrioritiesBefore(slice, n)
         /\ n \notin Priorities(slice) =>
              PrioritiesBefore(slice, n + 1) = PrioritiesBefore(slice, n)
         /\ PrioritiesBefore(slice, 0) = {}
         /\ PrioritiesBefore(slice, n) \subseteq Priorities(slice)
         /\ IsFiniteSet(PrioritiesBefore(slice, n))
<1>1. \A q \in Priorities(slice) : q \in Nat /\ (q < n + 1 <=> q < n \/ q = n) /\ ~(q < 0)
  BY PrioritiesAre
<1>2. /\ PrioritiesBefore(slice, n) \subseteq Priorities(slice)
      /\ IsFiniteSet(PrioritiesBefore(slice, n))
  BY PrioritiesAre, FS_Subset DEF PrioritiesBefore
<1> QED
  BY <1>1, <1>2 DEF PrioritiesBefore

\* The priorities before n take all of the traffic, or all they can.
LEMMA TrafficBefore ==
  ASSUME NEW slice, IsSlice(slice), NEW config, config.overprovisioning \in Nat,
         ~Shortage(slice, config)
  PROVE  \A n \in Nat :
           LET a == Ahead(slice, config, n)
           IN  SumOf(TrafficOf(slice, config), PrioritiesBefore(slice, n))
                 = IF a <= TrafficUnits THEN a ELSE TrafficUnits
<1> DEFINE f == ShareOf(slice, config)
           g == TrafficOf(slice, config)
           P == Priorities(slice)
           B(n) == PrioritiesBefore(slice, n)
           Within(m) == IF m <= TrafficUnits THEN m ELSE TrafficUnits
           T == {n \in Nat : SumOf(g, B(n)) = Within(SumOf(f, B(n)))}
<1>1. \A n \in Nat : Ahead(slice, config, n) = SumOf(f, B(n)) /\ SumOf(f, B(n)) \in Nat
  BY AheadIs
<1>2. \A p \in P : g[p] = Traffic(slice, config, p) /\ f[p] = Effective(slice, config, p)
  BY DEF ShareOf, TrafficOf
<1>3. \A p \in P : /\ p \in Nat /\ f[p] \in Nat /\ g[p] \in Nat
                   /\ g[p] = LET left == IF SumOf(f, B(p)) <= TrafficUnits
                                         THEN TrafficUnits - SumOf(f, B(p)) ELSE 0
                             IN  IF f[p] <= left THEN f[p] ELSE left
  BY <1>1, <1>2, PrioritiesAre, TrafficIs
<1> HIDE DEF f, g
<1>4. 0 \in T
  <2>1. SumOf(f, {}) = 0 /\ SumOf(g, {}) = 0
    BY SumEmpty
  <2>2. B(0) = {}
    BY BeforeNext
  <2> QED
    BY <2>1, <2>2, TrafficUnitsAssumption
<1>5. ASSUME NEW n \in T
      PROVE  n + 1 \in T
  <2>1. n \in Nat /\ SumOf(g, B(n)) = Within(SumOf(f, B(n)))
    OBVIOUS
  <2>2. SumOf(f, B(n)) \in Nat
    BY <1>1, <2>1
  <2>3. CASE n \notin P
    <3>1. B(n + 1) = B(n)
      BY <2>1, <2>3, BeforeNext
    <3> QED
      BY <2>1, <3>1
  <2>4. CASE n \in P
    <3>1. /\ B(n + 1) = B(n) \cup {n} /\ n \notin B(n)
          /\ B(n) \subseteq P /\ IsFiniteSet(B(n))
      BY <2>1, <2>4, BeforeNext
    <3> HIDE DEF B, P
    <3>2. \A x \in B(n) \cup {n} : f[x] \in Int /\ g[x] \in Int
      <4>1. \A x \in P : f[x] \in Int /\ g[x] \in Int
        BY <1>3
      <4> QED
        BY <2>4, <3>1, <4>1
    <3>3. /\ SumOf(f, B(n) \cup {n}) = SumOf(f, B(n)) + f[n]
          /\ SumOf(g, B(n) \cup {n}) = SumOf(g, B(n)) + g[n]
      BY <3>1, <3>2, SumAdd
    <3>4. /\ SumOf(f, B(n + 1)) = SumOf(f, B(n)) + f[n]
          /\ SumOf(g, B(n + 1)) = SumOf(g, B(n)) + g[n]
      BY <3>1, <3>3
    <3>5. /\ f[n] \in Nat /\ g[n] \in Nat
          /\ g[n] = LET left == IF SumOf(f, B(n)) <= TrafficUnits
                                THEN TrafficUnits - SumOf(f, B(n)) ELSE 0
                    IN  IF f[n] <= left THEN f[n] ELSE left
      BY <1>3, <2>4 DEF B
    <3> DEFINE s == SumOf(f, B(n))
               t == SumOf(g, B(n))
               x == f[n]
               y == g[n]
    <3>6. /\ s \in Nat /\ x \in Nat /\ y \in Nat /\ t = Within(s)
          /\ y = LET left == IF s <= TrafficUnits THEN TrafficUnits - s ELSE 0
                 IN  IF x <= left THEN x ELSE left
      BY <2>1, <2>2, <3>5
    <3> HIDE DEF s, t, x, y
    <3>7. t + y = Within(s + x)
      BY <3>6, TrafficUnitsAssumption
    <3>8. SumOf(g, B(n + 1)) = Within(SumOf(f, B(n + 1)))
      BY <3>4, <3>7 DEF s, t, x, y
    <3>9. n + 1 \in Nat
      BY <2>1
    <3> QED
      BY <3>8, <3>9
  <2> QED
    BY <2>3, <2>4
<1>6. T \in SUBSET Nat
  OBVIOUS
<1>7. T = Nat
  <2> HIDE DEF T
  <2> QED
    BY ONLY <1>4, <1>5, <1>6, Induction
<1> QED
  BY <1>1, <1>7 DEF f, g

\* Every priority is before some number.
LEMMA PrioritiesEnd ==
  ASSUME NEW slice, IsSlice(slice)
  PROVE  \E n \in Nat : PrioritiesBefore(slice, n) = Priorities(slice)
<1> DEFINE P == Priorities(slice)
           r == [p \in P |-> p]
<1>1. P \subseteq Nat /\ IsFiniteSet(P)
  BY PrioritiesAre
<1>2. CASE P = {}
  <2>1. PrioritiesBefore(slice, 0) = P
    BY <1>2 DEF PrioritiesBefore
  <2> QED
    BY <2>1
<1>3. CASE P # {}
  <2>1. P \in SUBSET Int /\ \A p \in P : r[p] \in Int
    BY <1>1
  <2> HIDE DEF r, P
  <2>2. PICK m \in P : \A p \in P \ {m} : Precedes(r, p, m)
    BY <1>1, <1>3, <2>1, LastInOrder
  <2>3. \A p \in P : p < m + 1 /\ m + 1 \in Nat
    BY <1>1, <2>2 DEF Precedes, r
  <2>4. PrioritiesBefore(slice, m + 1) = P
    BY <2>3 DEF PrioritiesBefore, P
  <2> QED
    BY <2>2, <2>3, <2>4 DEF P
<1> QED
  BY <1>2, <1>3

SharedTraffic(slice, config) ==
  MapThenSumSet(LAMBDA p : Traffic(slice, config, p), Priorities(slice))

\* Without a shortage the whole traffic is shared.
LEMMA TrafficIsWhole ==
  ASSUME NEW slice, IsSlice(slice), NEW config, config.overprovisioning \in Nat,
         ~Shortage(slice, config)
  PROVE  SharedTraffic(slice, config) = TrafficUnits
<1> DEFINE P == Priorities(slice)
           f == TrafficOf(slice, config)
           All == SumOf(ShareOf(slice, config), P)
<1>1. MapThenSumSet(LAMBDA p : Traffic(slice, config, p), P) = SumOf(f, P)
  <2>1. ASSUME NEW g
        PROVE  [t \in SUBSET P |-> IF t = {} THEN 0
                  ELSE LET x == CHOOSE y \in t : TRUE
                       IN  Traffic(slice, config, x) + g[t \ {x}]]
               = [t \in SUBSET P |-> StepOf(FALSE, f, t, g)]
    BY DEF StepOf, TrafficOf
  <2> HIDE DEF f, P
  <2> QED
    BY <2>1, SumUnfold DEF MapThenSumSet, MapThenFoldSet, Iteration, Recursion
<1>2. PICK n \in Nat : PrioritiesBefore(slice, n) = P
  BY PrioritiesEnd
<1>3. Ahead(slice, config, n) = All /\ All \in Nat /\ ~(All < TrafficUnits)
  BY <1>2, AheadIs
<1>4. SumOf(f, P) = IF All <= TrafficUnits THEN All ELSE TrafficUnits
  <2>1. SumOf(f, PrioritiesBefore(slice, n))
          = IF Ahead(slice, config, n) <= TrafficUnits
            THEN Ahead(slice, config, n) ELSE TrafficUnits
    BY TrafficBefore
  <2> QED
    BY <1>2, <1>3, <2>1
<1> HIDE DEF f, All, P
<1>5. SumOf(f, P) = TrafficUnits
  BY <1>3, <1>4, TrafficUnitsAssumption
<1> QED
  BY <1>1, <1>5 DEF P, SharedTraffic

\* Some members do not weigh more than all of them.
LEMMA MembersWeigh ==
  ASSUME NEW slice, IsSlice(slice)
  PROVE  /\ TotalWeight(slice, Members(slice)) \in Nat
         /\ \A S \in SUBSET Members(slice) :
              TotalWeight(slice, S) \in Nat
                /\ TotalWeight(slice, S) <= TotalWeight(slice, Members(slice))
<1> DEFINE M == Members(slice)
           f == WeightsOf(slice)
<1>1. M \in SUBSET DOMAIN slice
  BY DEF Members
<1>2. \A S \in SUBSET M : TotalWeight(slice, S) = SumOf(f, S)
  BY <1>1, TotalWeightIs
<1>3. IsFiniteSet(M) /\ \A i \in M : f[i] \in Nat
  BY <1>1, TotalWeightIs
<1> HIDE DEF M, f
<1>4. SumOf(f, M) \in Nat /\ \A S \in SUBSET M : SumOf(f, S) \in Nat /\ SumOf(f, S) <= SumOf(f, M)
  BY <1>3, SumParts
<1> QED
  BY <1>2, <1>4 DEF M

TooHeavy(slice) == TotalWeight(slice, Members(slice)) > MaxU64

\* A sum of weights that does not fit is less than what the members weigh.
LEMMA ScopeTooHeavy ==
  ASSUME NEW slice, IsSlice(slice), NEW config,
         \/ Overweight(slice)
         \/ ~(TotalWeight(slice, InPanic(slice, config)) <= MaxU64)
  PROVE  TooHeavy(slice)
<1>1. PICK S \in SUBSET Members(slice) : ~(TotalWeight(slice, S) <= MaxU64)
  <2>1. CASE Overweight(slice)
    <3>1. PICK p \in Priorities(slice) : TotalWeight(slice, MembersAt(slice, p)) > MaxU64
      BY <2>1 DEF Overweight
    <3>2. MembersAt(slice, p) \in SUBSET Members(slice)
      BY DEF MembersAt
    <3>3. TotalWeight(slice, MembersAt(slice, p)) \in Nat
      BY <3>2, MembersWeigh
    <3> QED
      BY <3>1, <3>2, <3>3, MaxU64Assumption
  <2>2. InPanic(slice, config) \in SUBSET Members(slice)
    BY DEF InPanic, InScope, MembersAt
  <2> QED
    BY <2>1, <2>2
<1>2. /\ TotalWeight(slice, Members(slice)) \in Nat /\ TotalWeight(slice, S) \in Nat
      /\ TotalWeight(slice, S) <= TotalWeight(slice, Members(slice))
  BY MembersWeigh
<1> QED
  BY <1>1, <1>2, MaxU64Assumption DEF TooHeavy

\* The errors of a scope, and why there may be one.
ScopeErs(slice, config, error) ==
  \/ error = "WeightOverflow" /\ TooHeavy(slice)
  \/ Shortage(slice, config) /\ error = "NoEligibleCandidates"
  \/ Shortage(slice, config) /\ error = "PanicRejected" /\ config.panic_mode = "fail_closed"

\* The scope of a decision: a priority that gets traffic, whoever is in it.
LEMMA ScopeHasTraffic ==
  ASSUME NEW slice, IsSlice(slice), slice # <<>>,
         NEW config, ValidPriorityConfig(config), NEW s \in SelectScope(slice, config)
  PROVE  /\ s.error = "none" \/ ScopeErs(slice, config, s.error)
         /\ s.error = "none" =>
              /\ s.priority \in Priorities(slice)
              /\ Ahead(slice, config, s.priority) < TrafficUnits
              /\ s.mode = "healthy" \/ /\ s.mode = "panic"
                                       /\ Panics(slice, config, s.priority)
                                       /\ config.panic_mode = "use_all"
<1>1. config.overprovisioning \in Nat /\ config.panic_mode \in PanicModes
  BY DEF ValidPriorityConfig
<1> DEFINE All == SumOf(ShareOf(slice, config), Priorities(slice))
           Fine(z) == \E p \in Priorities(slice) :
                        /\ z.priority = p
                        /\ z.mode = "healthy" \/ /\ z.mode = "panic" /\ Panics(slice, config, p)
                                                 /\ config.panic_mode = "use_all"
<1>2. /\ All \in Nat /\ (Shortage(slice, config) <=> All < TrafficUnits)
      /\ TotalEffective(slice, config) = IF All <= TrafficUnits THEN All ELSE TrafficUnits
      /\ \A n \in Nat : Ahead(slice, config, n) \in Nat /\ Ahead(slice, config, n) <= All
  BY <1>1, AheadIs
<1>3. ASSUME NEW p \in Priorities(slice), s = ScopeFromGroup(slice, config, p)
      PROVE  \/ s.error = "none" /\ s.priority = p /\ Fine(s)
             \/ s.error = "NoEligibleCandidates"
             \/ s.error = "PanicRejected" /\ config.panic_mode = "fail_closed"
  BY <1>1, <1>3, ScopeOfGroup DEF NoScope, Scope
<1>4. CASE Members(slice) = {} /\ s = NoScope("NoEligibleCandidates")
  <2>1. All = 0
    BY <1>4, PrioritiesAre, SumEmpty
  <2> QED
    BY <1>2, <1>4, <2>1, TrafficUnitsAssumption DEF NoScope, ScopeErs
<1>5. CASE /\ s = NoScope("WeightOverflow")
           /\ \/ Overweight(slice)
              \/ ~(TotalWeight(slice, InPanic(slice, config)) <= MaxU64)
  <2>1. TooHeavy(slice) /\ s.error = "WeightOverflow"
    BY <1>5, ScopeTooHeavy DEF NoScope
  <2> QED
    BY <2>1 DEF ScopeErs
<1>6. CASE /\ TotalEffective(slice, config) = 0
           /\ \/ s = NoScope("NoEligibleCandidates")
              \/ config.panic_mode = "fail_closed" /\ s = NoScope("PanicRejected")
              \/ \E p \in Priorities(slice) : s = ScopeFromGroup(slice, config, p)
  <2>1. Shortage(slice, config)
    BY <1>6, TrafficUnitsAssumption DEF Shortage
  <2>2. \/ s.error = "none" /\ Fine(s)
        \/ s.error = "NoEligibleCandidates"
        \/ s.error = "PanicRejected" /\ config.panic_mode = "fail_closed"
    BY <1>3, <1>6 DEF NoScope
  <2>3. \A p \in Priorities(slice) : Ahead(slice, config, p) < TrafficUnits
    <3>1. Priorities(slice) \subseteq Nat
      BY PrioritiesAre
    <3> HIDE DEF All
    <3> QED
      BY <1>2, <2>1, <3>1, TrafficUnitsAssumption
  <2> HIDE DEF All
  <2> QED
    BY <2>1, <2>2, <2>3 DEF ScopeErs
<1>7. CASE \E p \in Priorities(slice) :
             s = ScopeFromGroup(slice, config, p) /\ Traffic(slice, config, p) > 0
  <2>1. PICK p \in Priorities(slice) :
          s = ScopeFromGroup(slice, config, p) /\ Traffic(slice, config, p) > 0
    BY <1>7
  <2>2. /\ Effective(slice, config, p) > 0
        /\ ~Shortage(slice, config) => Ahead(slice, config, p) < TrafficUnits
    BY <1>1, <2>1, TrafficIs
  <2>3. InScope(slice, p, "healthy") # {}
    BY <1>1, <2>2, SharesAre
  <2>4. ~Shortage(slice, config) => s.error = "none"
    <3> SUFFICES ASSUME ~Shortage(slice, config)
                 PROVE  s.error = "none"
      OBVIOUS
    <3>1. ~Panics(slice, config, p)
      BY DEF Panics
    <3>2. s = Scope(p, "healthy")
      BY <2>1, <2>3, <3>1 DEF ScopeFromGroup
    <3> QED
      BY <3>2 DEF Scope
  <2>5. Ahead(slice, config, p) < TrafficUnits
    <3>1. p \in Nat
      BY PrioritiesAre
    <3> HIDE DEF All
    <3> QED
      BY <1>2, <2>2, <3>1, TrafficUnitsAssumption
  <2>6. \/ s.error = "none" /\ s.priority = p /\ Fine(s)
        \/ s.error = "NoEligibleCandidates"
        \/ s.error = "PanicRejected" /\ config.panic_mode = "fail_closed"
    BY <1>3, <2>1
  <2> HIDE DEF All
  <2> QED
    BY <2>4, <2>5, <2>6 DEF ScopeErs
<1> QED
  BY <1>4, <1>5, <1>6, <1>7, ScopesByCase

\* A locality has a weight exactly when one of its members is in scope, and
\* never more than if all of them were.
LEMMA LocalityWeightIs ==
  ASSUME NEW slice, IsSlice(slice), NEW config, config.overprovisioning \in Nat,
         NEW s, NEW l,
         LocalityMembers(slice, s.priority, l) # {}
  PROVE  /\ LocalityWeight(slice, config, s, l) > 0
              <=> LocalityMembers(slice, s.priority, l)
                    \cap InScope(slice, s.priority, s.mode) # {}
         /\ LocalityWeight(slice, config, s, l) \in Nat
         /\ TrafficUnits * ConfiguredWeight(slice, s.priority, l) \in Nat
         /\ LocalityWeight(slice, config, s, l)
              <= TrafficUnits * ConfiguredWeight(slice, s.priority, l)
<1> DEFINE M == LocalityMembers(slice, s.priority, l)
           S == M \cap InScope(slice, s.priority, s.mode)
           W == {slice[i].locality_weight : i \in M}
           weight == ConfiguredWeight(slice, s.priority, l)
           share == RatioUnits(TotalWeight(slice, S), TotalWeight(slice, M),
                               config.overprovisioning)
<1>1. M \in SUBSET DOMAIN slice /\ S \in SUBSET DOMAIN slice /\ M # {}
  BY PrioritiesAre DEF LocalityMembers
<1>2. \A w \in W : w \in Nat \ {0}
  BY PrioritiesAre DEF LocalityMembers
<1>3. weight \in Nat \ {0}
  <2>1. W # {}
    BY <1>1
  <2>2. weight = CHOOSE w \in W : TRUE
    BY DEF ConfiguredWeight
  <2> HIDE DEF W, weight
  <2> QED
    BY <1>2, <2>1, <2>2
<1>4. TotalWeight(slice, S) \in Nat /\ TotalWeight(slice, M) \in Nat \ {0}
  <2>1. PICK i \in M : TRUE
    BY <1>1
  <2> HIDE DEF M, S
  <2>2. TotalWeight(slice, S) \in Nat
    BY <1>1, TotalWeightIs
  <2>3. /\ TotalWeight(slice, M) \in Nat /\ slice[i].weight \in Nat \ {0}
        /\ slice[i].weight <= TotalWeight(slice, M)
    BY <1>1, <2>1, TotalWeightIs
  <2> QED
    BY <2>2, <2>3
<1>5. S = {} => TotalWeight(slice, S) = 0
  <2>1. {} \in SUBSET DOMAIN slice
    OBVIOUS
  <2>2. TotalWeight(slice, {}) = 0
    BY <2>1, TotalWeightIs, SumEmpty
  <2> QED
    BY <2>2
<1>6. LocalityWeight(slice, config, s, l)
        = weight * (IF S # {} THEN Max({share, 1}) ELSE share)
  BY DEF LocalityWeight
<1> HIDE DEF M, S, weight, W
<1>7. share \in 0..TrafficUnits /\ (S = {} => share = 0)
  <2> DEFINE a == TotalWeight(slice, S)
             b == TotalWeight(slice, M)
             c == config.overprovisioning
  <2>1. a \in Nat /\ b \in Nat \ {0} /\ c \in Nat /\ (S = {} => a = 0)
    BY <1>4, <1>5
  <2> HIDE DEF a, b, c
  <2>2. /\ RatioUnits(a, b, c) \in 0..TrafficUnits
        /\ a = 0 => RatioUnits(a, b, c) = 0
    BY ONLY <2>1, RatioIs
  <2> QED
    BY <2>1, <2>2 DEF a, b, c
<1> HIDE DEF share
<1>8. Max({share, 1}) \in 1..TrafficUnits
  BY <1>7, MaxOfTwo, TrafficUnitsAssumption
<1> DEFINE x == IF S # {} THEN Max({share, 1}) ELSE share
<1>9. x \in 0..TrafficUnits /\ (x > 0 <=> S # {})
  BY <1>7, <1>8, TrafficUnitsAssumption
<1>10. LocalityWeight(slice, config, s, l) = weight * x
  BY <1>6
<1> HIDE DEF x
<1>11. /\ weight * x > 0 <=> x > 0
       /\ weight * x \in Nat /\ TrafficUnits * weight \in Nat
       /\ weight * x <= TrafficUnits * weight
  <2>1. \A a, b \in Nat, w \in Nat \ {0} :
          /\ w * a > 0 <=> a > 0
          /\ w * a \in Nat /\ b * w \in Nat
          /\ a <= b => w * a <= b * w
    OBVIOUS
  <2>2. x \in Nat /\ x <= TrafficUnits /\ TrafficUnits \in Nat
    BY <1>9, TrafficUnitsAssumption
  <2> QED
    BY ONLY <1>3, <2>1, <2>2
<1> QED
  BY <1>9, <1>10, <1>11 DEF S, M, weight

\* A sum of effective weights that does not fit is one the configured weights
\* of the localities may add up to.
LEMMA LocalitiesTooHeavy ==
  ASSUME NEW slice, IsSlice(slice), NEW config, config.overprovisioning \in Nat,
         NEW s, LocalityTotal(slice, config, s) > MaxU64
  PROVE  LocalitiesMayWeigh(slice, s.priority) > MaxU64
<1> DEFINE L == Localities(slice, s.priority)
           M == MembersAt(slice, s.priority)
           u(l) == LocalityWeight(slice, config, s, l)
           v(l) == TrafficUnits * ConfiguredWeight(slice, s.priority, l)
           f == [l \in L |-> u(l)]
           g == [l \in L |-> v(l)]
<1>1. IsFiniteSet(L)
  <2> DEFINE h == [i \in M |-> slice[i].locality]
  <2>1. IsFiniteSet(M)
    BY PrioritiesAre, EligibleIs, FS_Subset
  <2>2. h \in Surjection(M, L)
    BY DEF Surjection, Localities
  <2> HIDE DEF h, L, M
  <2> QED
    BY <2>1, <2>2, FS_Surjection
<1>2. \A l \in L : u(l) \in Nat /\ v(l) \in Nat /\ u(l) <= v(l)
  <2>1. \A l \in L : LocalityMembers(slice, s.priority, l) # {}
    BY DEF Localities, LocalityMembers
  <2> QED
    BY <2>1, LocalityWeightIs
<1>3. LocalityTotal(slice, config, s) = MapThenSumSet(LAMBDA l : u(l), L)
  BY DEF LocalityTotal
<1>4. LocalitiesMayWeigh(slice, s.priority) = MapThenSumSet(LAMBDA l : v(l), L)
  BY DEF LocalitiesMayWeigh
<1> HIDE DEF L
<1>5. MapThenSumSet(LAMBDA l : u(l), L) = SumOf(f, L)
  <2>1. ASSUME NEW k
        PROVE  [t \in SUBSET L |-> IF t = {} THEN 0
                  ELSE LET x == CHOOSE y \in t : TRUE IN u(x) + k[t \ {x}]]
               = [t \in SUBSET L |-> StepOf(FALSE, f, t, k)]
    BY DEF StepOf
  <2> HIDE DEF f, u
  <2> QED
    BY <2>1, SumUnfold DEF MapThenSumSet, MapThenFoldSet, Iteration, Recursion
<1>6. MapThenSumSet(LAMBDA l : v(l), L) = SumOf(g, L)
  <2>1. ASSUME NEW k
        PROVE  [t \in SUBSET L |-> IF t = {} THEN 0
                  ELSE LET x == CHOOSE y \in t : TRUE IN v(x) + k[t \ {x}]]
               = [t \in SUBSET L |-> StepOf(FALSE, g, t, k)]
    BY DEF StepOf
  <2> HIDE DEF g, v
  <2> QED
    BY <2>1, SumUnfold DEF MapThenSumSet, MapThenFoldSet, Iteration, Recursion
<1>7. \A l \in L : f[l] \in Int /\ g[l] \in Int /\ f[l] <= g[l]
  BY <1>2
<1> HIDE DEF f, g, u, v
<1>8. SumOf(f, L) <= SumOf(g, L) /\ SumOf(f, L) \in Int /\ SumOf(g, L) \in Int
  BY <1>1, <1>7, SumMonotone, SumType
<1> QED
  BY <1>3, <1>4, <1>5, <1>6, <1>8, MaxU64Assumption

\* Whatever the shares of localities round to, none with members in scope is
\* out of reach.
LEMMA ReachableIs ==
  ASSUME NEW slice, IsSlice(slice), NEW config, config.overprovisioning \in Nat, NEW s
  PROVE  Reachable(slice, config, s)
           = {slice[i].locality : i \in InScope(slice, s.priority, s.mode)}
<1> DEFINE M(l) == LocalityMembers(slice, s.priority, l)
           I == InScope(slice, s.priority, s.mode)
<1>1. /\ I \subseteq MembersAt(slice, s.priority)
      /\ \A l : M(l) = {i \in MembersAt(slice, s.priority) : slice[i].locality = l}
  BY DEF InScope, LocalityMembers
<1>2. ASSUME NEW l \in Reachable(slice, config, s)
      PROVE  l \in {slice[i].locality : i \in I}
  <2>1. /\ l \in {slice[i].locality : i \in MembersAt(slice, s.priority)}
        /\ LocalityWeight(slice, config, s, l) > 0
    BY <1>2 DEF Reachable, Localities
  <2>2. M(l) # {}
    BY <1>1, <2>1
  <2>3. M(l) \cap I # {}
    BY <2>1, <2>2, LocalityWeightIs
  <2> QED
    BY <1>1, <2>3
<1>3. ASSUME NEW i \in I
      PROVE  slice[i].locality \in Reachable(slice, config, s)
  <2> DEFINE l == slice[i].locality
  <2>1. M(l) # {} /\ M(l) \cap I # {}
    BY <1>1, <1>3
  <2>2. LocalityWeight(slice, config, s, l) > 0
    BY <2>1, LocalityWeightIs
  <2> QED
    BY <1>1, <1>3, <2>2 DEF Reachable, Localities
<1> QED
  BY <1>2, <1>3

\* A decision is an error of its scope, a member of it, or what is wrong with
\* its localities.
LEMMA DecisionsAre ==
  ASSUME NEW slice, NEW config, NEW kind,
         NEW d \in IF kind = "priority" THEN PriorityDecisions(slice, config)
                  ELSE LocalityDecisions(slice, config)
  PROVE  \E s \in SelectScope(slice, config) :
           \/ s.error # "none" /\ d = Decision(0, s)
           \/ s.error = "none" /\ \E i \in InScope(slice, s.priority, s.mode) : d = Decision(i, s)
           \/ /\ s.error = "none" /\ kind # "priority"
              /\ \/ /\ Conflicting(slice, s.priority)
                    /\ d = Decision(0, NoScope("InconsistentTopology"))
                 \/ /\ LocalityTotal(slice, config, s) > MaxU64
                    /\ d = Decision(0, NoScope("WeightOverflow"))
<1>1. CASE kind = "priority"
  <2>1. PICK s \in SelectScope(slice, config) :
          d \in IF s.error # "none" THEN {Decision(0, s)}
                ELSE {Decision(i, s) : i \in InScope(slice, s.priority, s.mode)}
    BY <1>1 DEF PriorityDecisions
  <2> QED
    BY <2>1
<1>2. CASE kind # "priority"
  <2>1. PICK s \in SelectScope(slice, config) :
          d \in IF s.error # "none" THEN {Decision(0, s)}
                ELSE DecisionsInScope(slice, config, s)
    BY <1>2 DEF LocalityDecisions
  <2>2. CASE s.error # "none"
    BY <2>1, <2>2
  <2>3. CASE s.error = "none"
    <3>1. d \in DecisionsInScope(slice, config, s)
      BY <2>1, <2>3
    <3> QED
      BY <1>2, <2>3, <3>1, DecidedInScope
  <2> QED
    BY <2>2, <2>3
<1> QED
  BY <1>1, <1>2

\* The shares of an answer cover the traffic, whatever they were rounded to.
LEMMA TrafficCovered ==
  ASSUME PicksIInv
  PROVE  TrafficIsCovered
<1> SUFFICES ASSUME policy.kind \in Grouping, last.slice # <<>>
             PROVE  TrafficIsCovered
  BY DEF TrafficIsCovered
<1> DEFINE slice == last.slice
           config == policy.config
           r == last.result
<1>1. policy \in Policies /\ IsSlice(slice)
  BY InvariantGives
<1>2. ValidPriorityConfig(config) /\ config.overprovisioning \in Nat
  BY <1>1, PoliciesAssumption DEF ValidConfig, ValidPriorityConfig, Grouping
<1>3. r \in IF policy.kind = "priority" THEN PriorityDecisions(slice, config)
            ELSE LocalityDecisions(slice, config)
  BY DEF PicksIInv, LastIsDecided, Grouping
<1>4. slice # <<>>
  OBVIOUS
<1>5. ~Shortage(slice, config) => SharedTraffic(slice, config) = TrafficUnits
  <2> HIDE DEF slice, config
  <2> QED
    BY <1>1, <1>2, TrafficIsWhole
<1>6. \A s \in SelectScope(slice, config) :
        Reachable(slice, config, s)
          = {slice[i].locality : i \in InScope(slice, s.priority, s.mode)}
  <2> HIDE DEF slice, config
  <2> QED
    BY <1>1, <1>2, ReachableIs
<1>7. PICK s \in SelectScope(slice, config) :
        \/ s.error # "none" /\ r = Decision(0, s)
        \/ s.error = "none" /\ \E i \in InScope(slice, s.priority, s.mode) : r = Decision(i, s)
        \/ /\ s.error = "none" /\ policy.kind # "priority"
           /\ \/ /\ Conflicting(slice, s.priority)
                 /\ r = Decision(0, NoScope("InconsistentTopology"))
              \/ /\ LocalityTotal(slice, config, s) > MaxU64
                 /\ r = Decision(0, NoScope("WeightOverflow"))
  <2> HIDE DEF slice, config, r
  <2> QED
    BY ONLY <1>3, DecisionsAre
<1>8. /\ s.error = "none" \/ ScopeErs(slice, config, s.error)
      /\ s.error = "none" =>
           /\ s.priority \in Priorities(slice)
           /\ Ahead(slice, config, s.priority) < TrafficUnits
           /\ s.mode = "healthy" \/ /\ s.mode = "panic"
                                    /\ Panics(slice, config, s.priority)
                                    /\ config.panic_mode = "use_all"
  <2> HIDE DEF slice, config
  <2> QED
    BY <1>1, <1>2, <1>4, <1>7, ScopeHasTraffic
<1>9. \/ r.error = "none"
      \/ Shortage(slice, config) /\ r.error = "NoEligibleCandidates"
      \/ Shortage(slice, config) /\ r.error = "PanicRejected" /\ config.panic_mode = "fail_closed"
      \/ Excused(slice)
  <2>1. CASE s.error # "none" /\ r = Decision(0, s)
    <3>1. r.error = s.error
      BY <2>1 DEF Decision
    <3>2. ScopeErs(slice, config, r.error)
      BY <1>8, <2>1, <3>1
    <3> QED
      BY <3>2 DEF ScopeErs, TooHeavy, Excused
  <2>2. CASE \E i \in InScope(slice, s.priority, s.mode) : s.error = "none" /\ r = Decision(i, s)
    BY <2>2 DEF Decision
  <2>3. CASE /\ s.error = "none" /\ policy.kind # "priority"
             /\ Conflicting(slice, s.priority)
             /\ r = Decision(0, NoScope("InconsistentTopology"))
    BY <1>8, <2>3 DEF Decision, NoScope, Excused, Grouping
  <2>4. CASE /\ s.error = "none" /\ policy.kind # "priority"
             /\ LocalityTotal(slice, config, s) > MaxU64
             /\ r = Decision(0, NoScope("WeightOverflow"))
    <3>1. LocalitiesMayWeigh(slice, s.priority) > MaxU64
      BY <1>1, <1>2, <2>4, LocalitiesTooHeavy
    <3> QED
      BY <1>8, <2>4, <3>1 DEF Decision, NoScope, Excused, Grouping
  <2> QED
    BY <1>7, <2>1, <2>2, <2>3, <2>4
<1> HIDE DEF r
<1>10. ASSUME r.index # 0
       PROVE  /\ Ahead(slice, config, r.priority) < TrafficUnits
              /\ slice[r.index].priority = r.priority
              /\ \/ IsEligible(slice[r.index])
                 \/ /\ Shortage(slice, config) /\ config.panic_mode = "use_all"
                    /\ Availability(slice, r.priority, 100)
                         < (config.panic_threshold * TrafficUnits) \div 100
                    /\ IsPanicEligible(slice[r.index])
  <2>1. s.error = "none" /\ \E i \in InScope(slice, s.priority, s.mode) : r = Decision(i, s)
    BY <1>7, <1>10 DEF Decision
  <2>2. PICK i \in InScope(slice, s.priority, s.mode) : r = Decision(i, s)
    BY <2>1
  <2>3. r.index = i /\ r.priority = s.priority
    BY <2>2 DEF Decision
  <2>4. slice[i].priority = s.priority
    BY DEF InScope, MembersAt
  <2>5. CASE s.mode = "healthy"
    <3>1. IsEligible(slice[i])
      BY <2>5 DEF InScope
    <3> QED
      BY <1>8, <2>1, <2>3, <2>4, <3>1
  <2>6. CASE s.mode = "panic"
    <3>1. IsPanicEligible(slice[i])
      BY <2>6 DEF InScope
    <3>2. Panics(slice, config, s.priority) /\ config.panic_mode = "use_all"
      BY <1>8, <2>1, <2>6
    <3>3. /\ Shortage(slice, config)
          /\ Availability(slice, s.priority, 100)
               < (config.panic_threshold * TrafficUnits) \div 100
      BY <3>2 DEF Panics
    <3> QED
      BY <1>8, <2>1, <2>3, <2>4, <3>1, <3>2, <3>3
  <2> QED
    BY <1>8, <2>1, <2>5, <2>6
<1> QED
  BY <1>5, <1>6, <1>9, <1>10 DEF TrafficIsCovered, r, SharedTraffic

\* Whatever the shares round to, the priorities cover the traffic in order, only
\* a shortage makes a priority panic, no locality with members is lost, and a
\* decision fails for want of members or for a reason the slice itself gives.
THEOREM TrafficStaysCovered == Spec => []TrafficIsCovered
BY TrafficCovered, PicksInvariance, PTL

-----------------------------------------------------------------------------
(* Cycles.                                                                 *)

\* A multiple of n that is smaller than n in size is 0.
LEMMA SmallMultiple ==
  ASSUME NEW n \in Nat \ {0}, NEW k \in Int, n * k < n, n * k > -n
  PROVE  k = 0
<1>1. CASE k >= 1
  <2>1. PICK e \in Nat : k = 1 + e
    <3>1. k - 1 \in Nat /\ k = 1 + (k - 1)
      BY <1>1
    <3> QED
      BY <3>1
  <2>2. n * k = n + n * e /\ n * e \in Nat
    BY <2>1
  <2> QED
    BY <2>2
<1>2. CASE k <= -1
  <2>1. PICK e \in Nat : k = -1 - e
    <3>1. -1 - k \in Nat /\ k = -1 - (-1 - k)
      BY <1>2
    <3> QED
      BY <3>1
  <2>2. n * k = -n - n * e /\ n * e \in Nat
    BY <2>1
  <2> QED
    BY <2>2
<1> QED
  BY <1>1, <1>2

\* What remains is what remains, however it was found.
LEMMA Remainder ==
  ASSUME NEW n \in Int, NEW d \in Nat \ {0}, NEW q \in Int, NEW r \in 0..(d - 1), n = d * q + r
  PROVE  n % d = r
BY Division

\* How far the places of a slice are from a cursor, and from one another.
LEMMA DistanceIs ==
  ASSUME NEW slice, IsSlice(slice), NEW from \in Nat,
         NEW i \in DOMAIN slice, NEW j \in DOMAIN slice
  PROVE  /\ Distance(slice, from, i) \in 0..(Len(slice) - 1)
         /\ Distance(slice, from, i) \in Nat
         /\ i # j => Distance(slice, from, i) # Distance(slice, from, j)
         /\ Distance(slice, from, i) < Distance(slice, from, j) =>
              Distance(slice, i, j) = Distance(slice, from, j) - Distance(slice, from, i) - 1
         /\ Distance(slice, i, i) = Len(slice) - 1
<1> DEFINE n == Len(slice)
           a == i - 1 - from
           b == j - 1 - from
           c == j - 1 - i
           z == i - 1 - i
<1>1. n \in Nat \ {0} /\ i \in 1..n /\ j \in 1..n
  BY CandidateIs DEF IsSlice
<1>2. a \in Int /\ b \in Int /\ c \in Int /\ c = b - a - 1 /\ z = -1 /\ z \in Int
  BY <1>1
<1>3. /\ a - b = i - j /\ i - j < n /\ i - j > -n
  BY <1>1
<1>4. /\ Distance(slice, from, i) = a % n /\ Distance(slice, from, j) = b % n
      /\ Distance(slice, i, j) = c % n /\ Distance(slice, i, i) = z % n
  BY DEF Distance
<1> HIDE DEF n, a, b, c, z
<1> DEFINE p == a \div n
           q == b \div n
           x == a % n
           y == b % n
<1>5. p \in Int /\ x \in 0..(n - 1) /\ a = n * p + x
  BY ONLY <1>1, <1>2, Division
<1>6. q \in Int /\ y \in 0..(n - 1) /\ b = n * q + y
  BY ONLY <1>1, <1>2, Division
<1> HIDE DEF p, q, x, y
<1>7. x \in Nat /\ y \in Nat
  BY <1>1, <1>5, <1>6
<1>8. ASSUME i # j
      PROVE  x # y
  <2> SUFFICES ASSUME x = y
               PROVE  FALSE
    OBVIOUS
  <2>1. a - b = n * (p - q) /\ p - q \in Int
    BY <1>1, <1>5, <1>6
  <2>2. p - q = 0
    <3> DEFINE k == p - q
    <3>1. n * k < n /\ n * k > -n /\ k \in Int
      BY <1>3, <2>1
    <3> HIDE DEF k
    <3>2. k = 0
      BY <1>1, <3>1, SmallMultiple
    <3> QED
      BY <3>2 DEF k
  <2>3. a - b = 0
    BY <1>1, <2>1, <2>2
  <2> QED
    BY <1>1, <1>3, <1>8, <2>3
<1>9. ASSUME x < y
      PROVE  c % n = y - x - 1
  <2> DEFINE k == q - p
             r == y - x - 1
  <2>1. k \in Int /\ r \in 0..(n - 1) /\ c = n * k + r
    <3>1. k \in Int /\ r \in 0..(n - 1)
      BY <1>1, <1>5, <1>6, <1>9
    <3>2. c = (n * q + y) - (n * p + x) - 1
      BY <1>2, <1>5, <1>6
    <3>3. n * k = n * q - n * p
      BY <1>1, <1>5, <1>6
    <3>4. n * q \in Int /\ n * p \in Int /\ x \in Int /\ y \in Int
      BY <1>1, <1>5, <1>6
    <3> QED
      BY <3>1, <3>2, <3>3, <3>4
  <2> HIDE DEF k, r
  <2>2. c % n = r
    BY ONLY <1>1, <1>2, <2>1, Remainder
  <2> QED
    BY <2>2 DEF r
<1>10. z % n = n - 1
  <2> DEFINE k == -1
             r == n - 1
  <2>1. k \in Int /\ r \in 0..(n - 1) /\ z = n * k + r
    BY <1>1, <1>2
  <2> HIDE DEF k, r
  <2>2. z % n = r
    BY ONLY <1>1, <1>2, <2>1, Remainder
  <2> QED
    BY <2>2 DEF r
<1>11. /\ Distance(slice, from, i) = x /\ Distance(slice, from, j) = y
       /\ Distance(slice, i, j) = c % n /\ Distance(slice, i, i) = z % n /\ Len(slice) = n
  BY <1>4 DEF x, y, n
<1> QED
  BY <1>5, <1>7, <1>8, <1>9, <1>10, <1>11

\* The turns of a finite set of identities, as a sum.
LEMMA TurnsIs ==
  ASSUME NEW D, IsFiniteSet(D), NEW f \in [D -> Nat]
  PROVE  Turns(f) = SumOf(f, D) /\ Turns(f) \in Nat
<1>1. DOMAIN f = D
  OBVIOUS
<1>2. ASSUME NEW g
      PROVE  [t \in SUBSET D |-> IF t = {} THEN 0
                ELSE LET x == CHOOSE y \in t : TRUE IN f[x] + g[t \ {x}]]
             = [t \in SUBSET D |-> StepOf(FALSE, f, t, g)]
  BY DEF StepOf
<1>3. Turns(f) = MapThenSumSet(LAMBDA id : f[id], D)
  BY <1>1 DEF Turns
<1>4. MapThenSumSet(LAMBDA id : f[id], D) = Iteration(FALSE, f, D)[D]
  BY <1>2 DEF MapThenSumSet, MapThenFoldSet, Iteration, Recursion
<1>5. Turns(f) = SumOf(f, D)
  BY <1>3, <1>4, SumUnfold
<1> QED
  BY <1>5, SumParts

\* Terms that are no larger, and come to the same, are the same.
LEMMA SameTerms ==
  ASSUME NEW D, IsFiniteSet(D), NEW f \in [D -> Nat], NEW g \in [D -> Nat],
         \A x \in D : f[x] <= g[x], SumOf(f, D) = SumOf(g, D)
  PROVE  f = g
<1> SUFFICES ASSUME NEW x \in D
             PROVE  f[x] = g[x]
  OBVIOUS
<1> DEFINE s == SumOf(f, D \ {x})
           t == SumOf(g, D \ {x})
<1>1. \A y \in D : f[y] \in Int /\ g[y] \in Int
  OBVIOUS
<1>2. SumOf(f, D) = f[x] + s /\ SumOf(g, D) = g[x] + t
  BY <1>1, SumRemove
<1>3. IsFiniteSet(D \ {x}) /\ \A y \in D \ {x} : f[y] \in Int /\ g[y] \in Int /\ f[y] <= g[y]
  BY <1>1, FS_Subset
<1>4. s <= t
  BY <1>3, SumMonotone
<1>5. s \in Int /\ t \in Int
  BY <1>3, SumType
<1>6. f[x] \in Int /\ g[x] \in Int /\ f[x] <= g[x]
  BY <1>1
<1> HIDE DEF s, t
<1>7. f[x] + s = g[x] + t
  BY <1>2
<1> QED
  BY ONLY <1>4, <1>5, <1>6, <1>7

\* The places that take turns, what a turn of each counts, and the shares, as sums.
RotaOf(kind, slice) ==
  IF kind = "least_loaded" THEN LeastLoadedOf(slice) ELSE Eligible(slice)

TurnsAt(kind, slice) ==
  [i \in DOMAIN slice |-> IF kind = "smooth_weighted_round_robin" THEN slice[i].weight ELSE 1]

PlacesOf(slice, S, id) == {i \in S : slice[i].id = id}

SharesOf(kind, slice) ==
  [id \in {slice[i].id : i \in RotaOf(kind, slice)} |->
     SumOf(TurnsAt(kind, slice), PlacesOf(slice, RotaOf(kind, slice), id))]

\* Those who take turns are eligible.
LEMMA RotaIs ==
  ASSUME NEW kind, NEW slice, IsSlice(slice)
  PROVE  LET R == RotaOf(kind, slice)
         IN  /\ R \subseteq Eligible(slice) /\ R \subseteq DOMAIN slice
             /\ IsFiniteSet(R) /\ (R = {} <=> Eligible(slice) = {})
<1> DEFINE R == RotaOf(kind, slice)
<1>1. R \subseteq Eligible(slice) /\ (R = {} <=> Eligible(slice) = {})
  BY LeastLoadedIs DEF RotaOf
<1> QED
  BY <1>1, EligibleIs, FS_Subset

\* The turns of an identity, as a sum over its places.
LEMMA TurnsOfIdentity ==
  ASSUME NEW slice, NEW S \in SUBSET DOMAIN slice
  PROVE  MapThenSumSet(
           LAMBDA i : IF policy.kind = "smooth_weighted_round_robin"
                      THEN slice[i].weight ELSE 1, S)
         = SumOf(TurnsAt(policy.kind, slice), S)
<1> DEFINE f == TurnsAt(policy.kind, slice)
<1>1. ASSUME NEW g
      PROVE  [t \in SUBSET S |-> IF t = {} THEN 0
                ELSE LET x == CHOOSE y \in t : TRUE
                     IN  (IF policy.kind = "smooth_weighted_round_robin"
                          THEN slice[x].weight ELSE 1) + g[t \ {x}]]
             = [t \in SUBSET S |-> StepOf(FALSE, f, t, g)]
  BY DEF StepOf, TurnsAt
<1> HIDE DEF f
<1>2. MapThenSumSet(
        LAMBDA i : IF policy.kind = "smooth_weighted_round_robin"
                   THEN slice[i].weight ELSE 1, S) = SumOf(f, S)
  BY <1>1, SumUnfold DEF MapThenSumSet, MapThenFoldSet, Iteration, Recursion
<1> QED
  BY <1>2 DEF f

\* The shares of a slice are these sums.
LEMMA SharesAreSums ==
  \A slice : IsSlice(slice) => Shares(slice) = SharesOf(policy.kind, slice)
<1> SUFFICES ASSUME NEW slice, IsSlice(slice)
             PROVE  Shares(slice) = SharesOf(policy.kind, slice)
  OBVIOUS
<1> DEFINE R == RotaOf(policy.kind, slice)
<1>1. Rota(slice) = R
  BY DEF Rota, RotaOf
<1>2. ASSUME NEW id
      PROVE  MapThenSumSet(
               LAMBDA i : IF policy.kind = "smooth_weighted_round_robin"
                          THEN slice[i].weight ELSE 1, {i \in Rota(slice) : slice[i].id = id})
             = SumOf(TurnsAt(policy.kind, slice), PlacesOf(slice, R, id))
  <2>1. {i \in Rota(slice) : slice[i].id = id} = PlacesOf(slice, R, id)
    BY <1>1 DEF PlacesOf
  <2>2. PlacesOf(slice, R, id) \in SUBSET DOMAIN slice
    BY RotaIs DEF PlacesOf
  <2> HIDE DEF R
  <2> QED
    BY <2>1, <2>2, TurnsOfIdentity
<1>3. Shares(slice) = [id \in {slice[i].id : i \in Rota(slice)} |->
                         SumOf(TurnsAt(policy.kind, slice), PlacesOf(slice, R, id))]
  <2> HIDE DEF R
  <2> QED
    BY <1>2 DEF Shares
<1> QED
  BY <1>1, <1>3 DEF SharesOf

\* The shares count the places of an identity, or are its weight.
LEMMA SharesCount ==
  ASSUME NEW kind, NEW slice, IsSlice(slice)
  PROVE  LET R == RotaOf(kind, slice)
             s == SharesOf(kind, slice)
         IN  /\ s \in [DOMAIN s -> Nat] /\ IsFiniteSet(DOMAIN s)
             /\ \A id : id \in DOMAIN s <=> \E i \in R : slice[i].id = id
             /\ kind # "smooth_weighted_round_robin" =>
                  \A id \in DOMAIN s : s[id] = Cardinality(PlacesOf(slice, R, id))
             /\ kind = "smooth_weighted_round_robin" /\ ~Repeats(slice, Eligible(slice)) =>
                  /\ \A i \in R : s[slice[i].id] = slice[i].weight
                  /\ SumOf(s, DOMAIN s) = TotalWeight(slice, Eligible(slice))
<1> DEFINE R == RotaOf(kind, slice)
           s == SharesOf(kind, slice)
           f == TurnsAt(kind, slice)
           D == {slice[i].id : i \in R}
<1>1. R \subseteq Eligible(slice) /\ R \subseteq DOMAIN slice /\ IsFiniteSet(R)
  BY RotaIs
<1>2. \A i \in DOMAIN slice : f[i] \in Nat
  BY CandidateIs DEF TurnsAt
<1>3. \A id : PlacesOf(slice, R, id) \subseteq R /\ IsFiniteSet(PlacesOf(slice, R, id))
  BY <1>1, FS_Subset DEF PlacesOf
<1>4. \A id \in D : s[id] = SumOf(f, PlacesOf(slice, R, id))
  BY DEF SharesOf
<1>5. IsFiniteSet(D)
  <2> DEFINE g == [i \in R |-> slice[i].id]
  <2>1. g \in Surjection(R, D)
    <3>1. g \in [R -> D] /\ \A id \in D : \E i \in R : g[i] = id
      OBVIOUS
    <3> HIDE DEF g, R, D
    <3> QED
      BY <3>1 DEF Surjection
  <2> HIDE DEF g, R, D
  <2> QED
    BY <1>1, <2>1, FS_Surjection
<1>6. s = [id \in D |-> SumOf(f, PlacesOf(slice, R, id))]
  BY DEF SharesOf
<1>7. s \in [D -> Nat]
  <2>1. ASSUME NEW id \in D PROVE SumOf(f, PlacesOf(slice, R, id)) \in Nat
    <3> HIDE DEF f, R
    <3>1. \A i \in PlacesOf(slice, R, id) : f[i] \in Nat
      BY <1>1, <1>2, <1>3
    <3> QED
      BY <1>3, <3>1, SumParts
  <2> HIDE DEF f, R, D, s
  <2> QED
    BY <1>6, <2>1
<1>8. ASSUME kind # "smooth_weighted_round_robin", NEW id \in D
      PROVE  s[id] = Cardinality(PlacesOf(slice, R, id))
  <2>1. \A i \in PlacesOf(slice, R, id) : f[i] = 1
    BY <1>1, <1>3, <1>8 DEF TurnsAt
  <2>2. s[id] = SumOf(f, PlacesOf(slice, R, id))
    BY <1>4
  <2>3. Cardinality(PlacesOf(slice, R, id)) \in Nat
    BY <1>3, FS_CardinalityType
  <2> HIDE DEF f, R, s, D
  <2>4. SumOf(f, PlacesOf(slice, R, id)) = 1 * Cardinality(PlacesOf(slice, R, id))
    BY <1>3, <2>1, SumOfOnes
  <2> QED
    BY <2>2, <2>3, <2>4
<1>9. ASSUME kind = "smooth_weighted_round_robin", ~Repeats(slice, Eligible(slice))
      PROVE  /\ \A i \in R : s[slice[i].id] = slice[i].weight
             /\ SumOf(s, D) = TotalWeight(slice, Eligible(slice))
  <2>1. R = Eligible(slice)
    BY <1>9 DEF RotaOf
  <2>2. \A i, j \in R : slice[i].id = slice[j].id => i = j
    BY <1>9, <2>1 DEF Repeats
  <2>3. ASSUME NEW i \in R PROVE s[slice[i].id] = slice[i].weight
    <3>1. PlacesOf(slice, R, slice[i].id) = {i}
      BY <2>2 DEF PlacesOf
    <3>2. s[slice[i].id] = SumOf(f, {i})
      BY <1>4, <3>1
    <3>3. f[i] = slice[i].weight /\ f[i] \in Int
      BY <1>1, <1>2, <1>9 DEF TurnsAt
    <3>4. SumOf(f, {i}) = 1 * 0 + f[i]
      <4> HIDE DEF f
      <4>1. SumOf(f, {} \cup {i}) = SumOf(f, {}) + f[i]
        BY <3>3, SumAdd, FS_EmptySet
      <4>2. {} \cup {i} = {i}
        OBVIOUS
      <4> QED
        BY <3>3, <4>1, <4>2, SumEmpty
    <3> QED
      BY <3>2, <3>3, <3>4
  <2> DEFINE w == WeightsOf(slice)
             b == [i \in R |-> slice[i].id]
  <2>4. /\ TotalWeight(slice, R) = SumOf(w, R)
        /\ \A i \in R : w[i] = slice[i].weight /\ slice[i].weight \in Nat
    BY <1>1, TotalWeightIs
  <2>5. Onto(b, R) = D
    BY DEF Onto
  <2>6. \A i \in R : w[i] \in Int /\ w[i] = s[b[i]]
    BY <2>3, <2>4
  <2>7. \A i, j \in R : b[i] = b[j] => i = j
    BY <2>2
  <2>8. SumOf(w, R) = SumOf(s, Onto(b, R))
    <3> HIDE DEF w, s, b, R, D
    <3> QED
      BY <1>1, <2>6, <2>7, SumOnto
  <2>9. SumOf(s, D) = TotalWeight(slice, R)
    BY <2>4, <2>5, <2>8
  <2> QED
    BY <2>1, <2>3, <2>9
<1>10. DOMAIN s = D /\ \A id : id \in D <=> \E i \in R : slice[i].id = id
  BY <1>7
<1> HIDE DEF R, s, D
<1> QED
  BY <1>5, <1>7, <1>8, <1>9, <1>10 DEF R, s

\* The cursor takes the place it comes to first of those it has not been to,
\* and comes to this one last from then on.
LEMMA CursorTurns ==
  ASSUME NEW slice, IsSlice(slice), NEW R \in SUBSET DOMAIN slice, NEW from \in Nat,
         NEW V \in SUBSET R, V # R,
         \A v \in V, u \in R \ V : Distance(slice, from, u) < Distance(slice, from, v),
         NEW i \in R, \A j \in R : Distance(slice, from, i) <= Distance(slice, from, j)
  PROVE  /\ i \notin V
         /\ \A v \in V \cup {i}, u \in R \ (V \cup {i}) :
              Distance(slice, i, u) < Distance(slice, i, v)
<1> DEFINE d(j) == Distance(slice, from, j)
           n == Len(slice)
<1>1. \A j \in R : j \in DOMAIN slice /\ d(j) \in 0..(n - 1) /\ d(j) \in Nat
  BY DistanceIs
<1>2. n \in Nat
  BY DEF IsSlice
<1>3. i \notin V
  <2> SUFFICES ASSUME i \in V
               PROVE  FALSE
    OBVIOUS
  <2>1. PICK u \in R \ V : TRUE
    OBVIOUS
  <2>2. d(u) < d(i) /\ d(i) <= d(u)
    BY <2>1
  <2>3. d(u) \in Nat /\ d(i) \in Nat
    BY <1>1, <2>1
  <2> HIDE DEF d
  <2> QED
    BY <2>2, <2>3
<1>4. ASSUME NEW u \in R, u # i
      PROVE  d(i) < d(u) /\ Distance(slice, i, u) = d(u) - d(i) - 1
  <2>1. d(i) # d(u) /\ d(i) <= d(u)
    BY <1>4, DistanceIs
  <2>2. d(i) < d(u)
    <3>1. d(u) \in Nat /\ d(i) \in Nat
      BY <1>1
    <3> HIDE DEF d
    <3> QED
      BY <2>1, <3>1
  <2> QED
    BY <2>2, DistanceIs
<1>5. Distance(slice, i, i) = n - 1
  BY DistanceIs
<1>6. ASSUME NEW v \in V \cup {i}, NEW u \in R \ (V \cup {i})
      PROVE  Distance(slice, i, u) < Distance(slice, i, v)
  <2>1. /\ Distance(slice, i, u) = d(u) - d(i) - 1
        /\ d(i) \in Nat /\ d(u) \in 0..(n - 1) /\ d(i) < d(u)
    BY <1>1, <1>4
  <2>2. CASE v = i
    <3> HIDE DEF d, n
    <3> QED
      BY <1>2, <1>5, <2>1, <2>2
  <2>3. CASE v # i
    <3>1. v \in V /\ u \in R \ V
      BY <2>3
    <3>2. Distance(slice, i, v) = d(v) - d(i) - 1 /\ d(v) \in Nat
      BY <1>1, <1>4, <2>3, <3>1
    <3>3. d(u) < d(v)
      BY <3>1
    <3> HIDE DEF d, n
    <3> QED
      BY <1>2, <2>1, <3>2, <3>3
  <2> QED
    BY <2>2, <2>3
<1> QED
  BY <1>3, <1>6

\* One turn more for the identity at a place is one place more it was at.
LEMMA ServedAtPlaces ==
  ASSUME NEW slice, NEW V, IsFiniteSet(V), NEW i, i \notin V,
         NEW D, NEW served \in [D -> Nat], slice[i].id \in D,
         NEW id \in D, served[id] = Cardinality(PlacesOf(slice, V, id))
  PROVE  Served(slice, served, Selected(i))[id] = Cardinality(PlacesOf(slice, V \cup {i}, id))
<1> DEFINE P == PlacesOf(slice, V, id)
<1>1. IsFiniteSet(P) /\ i \notin P
  BY FS_Subset DEF PlacesOf
<1>2. CASE slice[i].id = id
  <2>1. PlacesOf(slice, V \cup {i}, id) = P \cup {i}
    BY <1>2 DEF PlacesOf
  <2>2. Served(slice, served, Selected(i))[id] = served[id] + 1
    BY <1>2 DEF Served, Selected
  <2>3. Cardinality(P \cup {i}) = Cardinality(P) + 1
    <3> HIDE DEF P
    <3> QED
      BY <1>1, FS_AddElement
  <2> QED
    BY <2>1, <2>2, <2>3
<1>3. CASE slice[i].id # id
  <2>1. PlacesOf(slice, V \cup {i}, id) = P
    BY <1>3 DEF PlacesOf
  <2>2. Served(slice, served, Selected(i))[id] = served[id]
    BY <1>3 DEF Served, Selected
  <2> QED
    BY <2>1, <2>2
<1> QED
  BY <1>2, <1>3

\* Who is served stays a number of turns for each identity.
LEMMA ServedTyped ==
  ASSUME NEW slice, NEW i, NEW D, NEW served \in [D -> Nat], slice[i].id \in D
  PROVE  LET new == Served(slice, served, Selected(i))
         IN  /\ new \in [D -> Nat]
             /\ new[slice[i].id] = served[slice[i].id] + 1
             /\ \A id \in D : id # slice[i].id => new[id] = served[id]
BY DEF Served, Selected

\* A turn more is a turn more in all.
LEMMA ServedInAll ==
  ASSUME NEW slice, NEW i, NEW D, IsFiniteSet(D), NEW served \in [D -> Nat], slice[i].id \in D
  PROVE  SumOf(Served(slice, served, Selected(i)), D) = SumOf(served, D) + 1
<1> DEFINE new == Served(slice, served, Selected(i))
           z == slice[i].id
<1>1. /\ new \in [D -> Nat] /\ new[z] = served[z] + 1
      /\ \A id \in D : id # z => new[id] = served[id]
  BY ServedTyped
<1> HIDE DEF new, z
<1>2. z \in D
  BY DEF z
<1>3. \A id \in D : /\ served[id] \in Int /\ new[id] \in Int
                    /\ (id # z => served[id] = new[id])
  BY <1>1
<1>4. SumOf(new, D) - new[z] = SumOf(served, D) - served[z]
  BY <1>2, <1>3, SumChanged
<1>5. SumOf(new, D) \in Int /\ SumOf(served, D) \in Int /\ served[z] \in Int
  BY <1>2, <1>3, SumType
<1>6. SumOf(new, D) = SumOf(served, D) + 1
  BY <1>1, <1>4, <1>5
<1> QED
  BY <1>6 DEF new

\* What is owed to an identity after a number of turns, in a decision.
Owed(shares, served, T, W, id) == T * shares[id] - served[id] * W

\* In a decision that follows T turns somebody has a credit above 0: the credits
\* come to all the shares of one turn.
LEMMA SomebodyIsOwed ==
  ASSUME NEW D, IsFiniteSet(D), NEW shares \in [D -> Nat], NEW served \in [D -> Nat],
         NEW T \in Nat, T = SumOf(served, D),
         NEW W \in Nat \ {0}, W = SumOf(shares, D)
  PROVE  \E id \in D : Owed(shares, served, T + 1, W, id) > 0
<1> SUFFICES ASSUME \A id \in D : ~(Owed(shares, served, T + 1, W, id) > 0)
             PROVE  FALSE
  OBVIOUS
<1> DEFINE f == [id \in D |-> (T + 1) * shares[id]]
           g == [id \in D |-> W * served[id]]
<1>1. \A id \in D : /\ shares[id] \in Int /\ f[id] = (T + 1) * shares[id]
                    /\ served[id] \in Int /\ g[id] = W * served[id]
  OBVIOUS
<1>2. ASSUME NEW id \in D PROVE f[id] \in Int /\ g[id] \in Int /\ f[id] <= g[id]
  <2>1. ~((T + 1) * shares[id] - served[id] * W > 0)
    BY DEF Owed
  <2>2. (T + 1) * shares[id] \in Int /\ served[id] * W \in Int /\ served[id] * W = W * served[id]
    BY <1>1
  <2> QED
    BY <1>1, <2>1, <2>2
<1> HIDE DEF f, g
<1>3. SumOf(f, D) = (T + 1) * W
  BY <1>1, SumScaled
<1>4. SumOf(g, D) = W * T
  <2>1. W \in Int /\ IsFiniteSet(D) /\ \A id \in D : served[id] \in Int /\ g[id] = W * served[id]
    BY <1>1
  <2>2. SumOf(g, D) = W * SumOf(served, D)
    BY ONLY <2>1, SumScaled
  <2> QED
    BY <2>2
<1>5. SumOf(f, D) <= SumOf(g, D)
  BY <1>2, SumMonotone
<1>6. (T + 1) * W = W * T + W /\ W * T \in Nat
  OBVIOUS
<1> QED
  BY <1>3, <1>4, <1>5, <1>6

\* What a decision leaves to the winner, and to another.
LEMMA DecidedAt ==
  ASSUME NEW slice, IsSlice(slice), NEW m, NEW w, ~Repeats(slice, Eligible(slice)),
         NEW i \in Eligible(slice), Credit(slice, m.states, i) \in Int
  PROVE  /\ i = w => Decided(slice, m, w)[slice[i].id].current
                       = Credit(slice, m.states, i) - TotalWeight(slice, Eligible(slice))
         /\ i # w => Decided(slice, m, w)[slice[i].id].current = Credit(slice, m.states, i)
<1> DEFINE x == Decided(slice, m, w)[slice[i].id].current
           a == Credit(slice, m.states, i)
           b == TotalWeight(slice, Eligible(slice))
<1>1. (i = w => x = a - b) /\ (i # w => x = a - 0)
  BY DecidedIs, ZenonT(20)
<1>2. a \in Int
  OBVIOUS
<1> HIDE DEF x, a, b
<1>3. (i = w => x = a - b) /\ (i # w => x = a)
  BY <1>1, <1>2
<1> QED
  BY <1>3 DEF x, a, b

\* A decision charges the winner, and owes the others their share more.
LEMMA CreditsTurn ==
  ASSUME NEW slice, IsSlice(slice), Eligible(slice) # {}, ~Repeats(slice, Eligible(slice)),
         NEW m, \A id \in DOMAIN m.states : m.states[id].current \in Int,
         NEW shares, shares = SharesOf("smooth_weighted_round_robin", slice),
         NEW served \in [DOMAIN shares -> Nat],
         NEW T \in Nat, T = SumOf(served, DOMAIN shares),
         NEW W, W = SumOf(shares, DOMAIN shares),
         \A i \in Eligible(slice) :
           /\ Credit(slice, m.states, i) = Owed(shares, served, T + 1, W, slice[i].id)
           /\ Credit(slice, m.states, i) > -W
  PROVE  LET w == Winner(slice, m.states)
             new == Decided(slice, m, w)
             after == Served(slice, served, Selected(w))
         IN  /\ after \in [DOMAIN shares -> Nat]
             /\ DOMAIN new = DOMAIN shares
             /\ \A id \in DOMAIN shares :
                  /\ new[id].current = Owed(shares, after, T + 1, W, id)
                  /\ new[id].current > -W
<1> DEFINE E == Eligible(slice)
           D == DOMAIN shares
           w == Winner(slice, m.states)
           new == Decided(slice, m, w)
           after == Served(slice, served, Selected(w))
           c(i) == Credit(slice, m.states, i)
<1>1. /\ shares \in [D -> Nat] /\ IsFiniteSet(D)
      /\ \A id : id \in D <=> \E i \in E : slice[i].id = id
      /\ \A i \in E : shares[slice[i].id] = slice[i].weight
      /\ W = TotalWeight(slice, E)
  <2>1. RotaOf("smooth_weighted_round_robin", slice) = E
    BY DEF RotaOf
  <2> QED
    BY <2>1, SharesCount
<1>2. W \in Nat \ {0}
  <2>1. /\ TotalWeight(slice, E) \in Nat
        /\ \A i \in E : slice[i].weight \in Nat \ {0} /\ slice[i].weight <= TotalWeight(slice, E)
    BY EligibleIs, TotalWeightIs
  <2>2. PICK i \in E : TRUE
    OBVIOUS
  <2> HIDE DEF E
  <2> QED
    BY <1>1, <2>1, <2>2
<1>3. w \in E /\ \A j \in E : c(w) >= c(j)
  BY WinnerIs
<1>4. \A i \in E : c(i) \in Int
  BY CreditType
<1>5. c(w) > 0
  <2>1. PICK id \in D : Owed(shares, served, T + 1, W, id) > 0
    <3> HIDE DEF D
    <3> QED
      BY <1>1, <1>2, SomebodyIsOwed
  <2>2. PICK j \in E : slice[j].id = id
    BY <1>1
  <2>3. c(j) > 0 /\ c(j) \in Int /\ c(w) \in Int /\ c(w) >= c(j)
    BY <1>3, <1>4, <2>1, <2>2
  <2> HIDE DEF c
  <2> QED
    BY <2>3
<1>6. DOMAIN new = D
  <2>1. DOMAIN new = {slice[i].id : i \in E}
    BY DecidedIs
  <2>2. D = {slice[i].id : i \in E}
    BY <1>1
  <2> QED
    BY <2>1, <2>2
<1>7. /\ after \in [D -> Nat]
      /\ after[slice[w].id] = served[slice[w].id] + 1
      /\ \A id \in D : id # slice[w].id => after[id] = served[id]
  BY <1>1, <1>3, ServedTyped
<1>8. ASSUME NEW id \in D
      PROVE  /\ new[id].current = Owed(shares, after, T + 1, W, id)
             /\ new[id].current > -W
  <2>1. PICK i \in E : slice[i].id = id
    BY <1>1
  <2>2. /\ i = w => new[id].current = c(i) - W
        /\ i # w => new[id].current = c(i)
    <3>1. /\ i = w => new[slice[i].id].current = c(i) - TotalWeight(slice, E)
          /\ i # w => new[slice[i].id].current = c(i)
      <4> HIDE DEF w
      <4> QED
        BY <1>4, DecidedAt
    <3> QED
      BY <1>1, <2>1, <3>1
  <2>3. /\ c(i) = (T + 1) * shares[id] - served[id] * W
        /\ c(i) > -W /\ c(i) \in Int
    BY <1>4, <2>1 DEF Owed
  <2>4. /\ (T + 1) * shares[id] \in Int /\ served[id] * W \in Int
        /\ (served[id] + 1) * W = served[id] * W + W
    BY <1>1, <1>2
  <2>5. CASE i = w
    <3>1. after[id] = served[id] + 1 /\ c(i) > 0
      BY <1>5, <1>7, <2>1, <2>5
    <3>2. new[id].current = c(i) - W
      BY <2>2, <2>5
    <3>3. Owed(shares, after, T + 1, W, id) = (T + 1) * shares[id] - (served[id] + 1) * W
      BY <3>1 DEF Owed
    <3> HIDE DEF new, after, c
    <3> QED
      BY <1>2, <2>3, <2>4, <3>1, <3>2, <3>3
  <2>6. CASE i # w
    <3>1. id # slice[w].id
      BY <1>3, <2>1, <2>6 DEF Repeats
    <3>2. after[id] = served[id]
      BY <1>7, <3>1
    <3>3. new[id].current = c(i)
      BY <2>2, <2>3, <2>6
    <3>4. Owed(shares, after, T + 1, W, id) = (T + 1) * shares[id] - served[id] * W
      BY <3>2 DEF Owed
    <3> QED
      BY <2>3, <3>3, <3>4
  <2> QED
    BY <2>5, <2>6
<1> QED
  BY <1>6, <1>7, <1>8

\* After as many turns as the shares come to, nobody who owes less than a cycle
\* has had more than its share.
LEMMA NobodyHadMore ==
  ASSUME NEW D, NEW shares \in [D -> Nat], NEW served \in [D -> Nat], NEW W \in Nat \ {0},
         \A id \in D : Owed(shares, served, W, W, id) > -W
  PROVE  \A id \in D : served[id] <= shares[id]
<1> SUFFICES ASSUME NEW id \in D
             PROVE  served[id] <= shares[id]
  OBVIOUS
<1> DEFINE x == served[id]
           y == shares[id]
<1>1. x \in Nat /\ y \in Nat
  OBVIOUS
<1>2. W * y - x * W > -W
  BY DEF Owed
<1> HIDE DEF x, y
<1>3. W * y = y * W /\ (y + 1) * W = y * W + W /\ y * W \in Int /\ x * W \in Int
  BY <1>1
<1>4. x * W < (y + 1) * W
  BY <1>2, <1>3
<1>5. x < y + 1
  BY <1>1, <1>4, Scaling
<1>6. x <= y
  BY <1>1, <1>5
<1> QED
  BY <1>6 DEF x, y

\* Where a policy is in a cycle.
InCycle(kind, slice, served, from, states) ==
  LET R == RotaOf(kind, slice)
      shares == SharesOf(kind, slice)
      D == DOMAIN shares
      W == SumOf(shares, D)
  IN  /\ served \in [D -> Nat]
      /\ kind = "smooth_weighted_round_robin" =>
           /\ DOMAIN states = D
           /\ \A id \in D :
                /\ states[id].current = Owed(shares, served, SumOf(served, D), W, id)
                /\ states[id].current > -W
      /\ kind # "smooth_weighted_round_robin" =>
           \E V \in SUBSET R :
             /\ \A id \in D : served[id] = Cardinality(PlacesOf(slice, V, id))
             /\ \A v \in V, u \in R \ V : Distance(slice, from, u) < Distance(slice, from, v)

\* Once as many turns were taken as the shares come to, each was served its share.
LEMMA FullCycle ==
  ASSUME NEW kind, NEW slice, IsSlice(slice), NEW served, NEW from, NEW states,
         InCycle(kind, slice, served, from, states),
         SumOf(served, DOMAIN SharesOf(kind, slice))
           = SumOf(SharesOf(kind, slice), DOMAIN SharesOf(kind, slice))
  PROVE  served = SharesOf(kind, slice)
<1> DEFINE R == RotaOf(kind, slice)
           shares == SharesOf(kind, slice)
           D == DOMAIN shares
           W == SumOf(shares, D)
<1>1. /\ shares \in [D -> Nat] /\ IsFiniteSet(D) /\ served \in [D -> Nat]
      /\ kind # "smooth_weighted_round_robin" =>
           \A id \in D : shares[id] = Cardinality(PlacesOf(slice, R, id))
  BY SharesCount DEF InCycle
<1>2. W \in Nat /\ SumOf(served, D) = W /\ \A id \in D : shares[id] <= W /\ served[id] <= W
  <2>1. \A f \in [D -> Nat] : SumOf(f, D) \in Nat /\ \A id \in D : f[id] <= SumOf(f, D)
    <3> HIDE DEF D
    <3> QED
      BY <1>1, SumParts
  <2> QED
    BY <1>1, <2>1
<1>3. \A id \in D : served[id] <= shares[id]
  <2>1. CASE kind = "smooth_weighted_round_robin" /\ W = 0
    <3> HIDE DEF W, D, shares
    <3> QED
      BY <1>1, <1>2, <2>1
  <2>2. CASE kind = "smooth_weighted_round_robin" /\ W # 0
    <3>1. \A id \in D : Owed(shares, served, W, W, id) > -W
      BY <1>2, <2>2 DEF InCycle
    <3> HIDE DEF W, D, shares
    <3> QED
      BY <1>1, <1>2, <2>2, <3>1, NobodyHadMore
  <2>3. CASE kind # "smooth_weighted_round_robin"
    <3>1. PICK V \in SUBSET R : \A id \in D : served[id] = Cardinality(PlacesOf(slice, V, id))
      BY <2>3 DEF InCycle
    <3>2. IsFiniteSet(R)
      BY RotaIs
    <3> HIDE DEF D, R, shares
    <3>3. ASSUME NEW id \in D PROVE served[id] <= shares[id]
      <4>1. /\ PlacesOf(slice, R, id) \subseteq R
            /\ PlacesOf(slice, V, id) \subseteq PlacesOf(slice, R, id)
        BY DEF PlacesOf
      <4>2. IsFiniteSet(PlacesOf(slice, R, id))
        BY <3>2, <4>1, FS_Subset
      <4>3. Cardinality(PlacesOf(slice, V, id)) <= Cardinality(PlacesOf(slice, R, id))
        BY <4>1, <4>2, FS_Subset
      <4> QED
        BY <1>1, <2>3, <3>1, <4>3
    <3> QED
      BY <3>3
  <2> QED
    BY <2>1, <2>2, <2>3
<1> HIDE DEF D, shares
<1>4. SumOf(served, D) = SumOf(shares, D)
  BY <1>2
<1>5. served = shares
  BY <1>1, <1>3, <1>4, SameTerms
<1> QED
  BY <1>5 DEF shares

\* A turn by the cursor goes on with the cycle.
LEMMA CycleByCursor ==
  ASSUME NEW kind, kind # "smooth_weighted_round_robin", NEW slice, IsSlice(slice),
         NEW from \in Nat, NEW served, NEW states, InCycle(kind, slice, served, from, states),
         served # SharesOf(kind, slice),
         NEW i \in RotaOf(kind, slice),
         \A j \in RotaOf(kind, slice) : Distance(slice, from, i) <= Distance(slice, from, j),
         NEW after
  PROVE  InCycle(kind, slice, Served(slice, served, Selected(i)), i, after)
<1> DEFINE R == RotaOf(kind, slice)
           shares == SharesOf(kind, slice)
           D == DOMAIN shares
<1>1. /\ shares \in [D -> Nat] /\ served \in [D -> Nat] /\ slice[i].id \in D
      /\ \A id \in D : shares[id] = Cardinality(PlacesOf(slice, R, id))
      /\ R \in SUBSET DOMAIN slice /\ IsFiniteSet(R)
  BY SharesCount, RotaIs DEF InCycle
<1>2. PICK V \in SUBSET R :
        /\ \A id \in D : served[id] = Cardinality(PlacesOf(slice, V, id))
        /\ \A v \in V, u \in R \ V : Distance(slice, from, u) < Distance(slice, from, v)
  BY DEF InCycle
<1>3. V # R
  BY <1>1, <1>2
<1>4. /\ i \notin V
      /\ \A v \in V \cup {i}, u \in R \ (V \cup {i}) :
           Distance(slice, i, u) < Distance(slice, i, v)
  <2> HIDE DEF R
  <2>1. i \in R /\ \A j \in R : Distance(slice, from, i) <= Distance(slice, from, j)
    BY DEF R
  <2> QED
    BY <1>1, <1>2, <1>3, <2>1, CursorTurns
<1>5. IsFiniteSet(V)
  BY <1>1, FS_Subset
<1> DEFINE new == Served(slice, served, Selected(i))
<1>6. new \in [D -> Nat] /\ \A id \in D : new[id] = Cardinality(PlacesOf(slice, V \cup {i}, id))
  <2> HIDE DEF D
  <2>1. new \in [D -> Nat]
    BY <1>1, ServedTyped
  <2>2. ASSUME NEW id \in D PROVE new[id] = Cardinality(PlacesOf(slice, V \cup {i}, id))
    <3>1. /\ IsFiniteSet(V) /\ i \notin V /\ served \in [D -> Nat] /\ slice[i].id \in D
          /\ served[id] = Cardinality(PlacesOf(slice, V, id))
      BY <1>1, <1>2, <1>4, <1>5
    <3> QED
      BY ONLY <3>1, ServedAtPlaces DEF new
  <2> QED
    BY <2>1, <2>2
<1>7. V \cup {i} \in SUBSET R
  OBVIOUS
<1> HIDE DEF new
<1>8. InCycle(kind, slice, new, i, after)
  BY <1>4, <1>6, <1>7 DEF InCycle
<1> QED
  BY <1>8 DEF new

\* ... and the first turn begins one.
LEMMA FirstByCursor ==
  ASSUME NEW kind, kind # "smooth_weighted_round_robin", NEW slice, IsSlice(slice),
         NEW from \in Nat, NEW i \in RotaOf(kind, slice),
         \A j \in RotaOf(kind, slice) : Distance(slice, from, i) <= Distance(slice, from, j),
         NEW after
  PROVE  InCycle(kind, slice,
                 Served(slice, [id \in DOMAIN SharesOf(kind, slice) |-> 0], Selected(i)), i, after)
<1> DEFINE R == RotaOf(kind, slice)
           shares == SharesOf(kind, slice)
           D == DOMAIN shares
           zero == [id \in D |-> 0]
<1>1. /\ slice[i].id \in D
      /\ \A id \in D : shares[id] = Cardinality(PlacesOf(slice, R, id))
      /\ IsFiniteSet(R)
  BY SharesCount, RotaIs
<1>2. zero # shares
  <2>1. i \in PlacesOf(slice, R, slice[i].id) /\ PlacesOf(slice, R, slice[i].id) \subseteq R
    BY DEF PlacesOf
  <2>2. Cardinality(PlacesOf(slice, R, slice[i].id)) # 0
    <3>1. IsFiniteSet(PlacesOf(slice, R, slice[i].id))
      BY <1>1, <2>1, FS_Subset
    <3> QED
      BY <2>1, <3>1, FS_EmptySet
  <2>3. zero[slice[i].id] # shares[slice[i].id]
    BY <1>1, <2>2
  <2> QED
    BY <2>3
<1>3. InCycle(kind, slice, zero, from, after)
  <2>1. zero \in [D -> Nat]
    OBVIOUS
  <2>2. \A id \in D : zero[id] = Cardinality(PlacesOf(slice, {}, id))
    <3>1. \A id : PlacesOf(slice, {}, id) = {}
      BY DEF PlacesOf
    <3> QED
      BY <3>1, FS_EmptySet
  <2>3. \A v \in {}, u \in R \ {} : Distance(slice, from, u) < Distance(slice, from, v)
    OBVIOUS
  <2>4. {} \in SUBSET R
    OBVIOUS
  <2> HIDE DEF zero
  <2> QED
    BY <2>1, <2>2, <2>3, <2>4 DEF InCycle
<1> HIDE DEF zero
<1>4. InCycle(kind, slice, Served(slice, zero, Selected(i)), i, after)
  BY <1>2, <1>3, CycleByCursor
<1> QED
  BY <1>4 DEF zero

\* A decision by credits goes on with the cycle of any slice of these shares.
LEMMA CycleByCredits ==
  ASSUME NEW kind, kind = "smooth_weighted_round_robin", NEW slice, IsSlice(slice),
         Eligible(slice) # {}, ~Repeats(slice, Eligible(slice)),
         NEW m, \A id \in DOMAIN m.states : m.states[id].current \in Int,
         NEW other, SharesOf(kind, other) = SharesOf(kind, slice),
         NEW served, NEW from, InCycle(kind, other, served, from, m.states), NEW to
  PROVE  LET w == Winner(slice, m.states)
         IN  InCycle(kind, other, Served(slice, served, Selected(w)), to, Decided(slice, m, w))
<1> DEFINE E == Eligible(slice)
           shares == SharesOf(kind, slice)
           D == DOMAIN shares
           T == SumOf(served, D)
           W == SumOf(shares, D)
           w == Winner(slice, m.states)
           new == Decided(slice, m, w)
           after == Served(slice, served, Selected(w))
<1>1. /\ shares \in [D -> Nat] /\ IsFiniteSet(D)
      /\ \A id : id \in D <=> \E i \in E : slice[i].id = id
      /\ \A i \in E : shares[slice[i].id] = slice[i].weight
      /\ W = TotalWeight(slice, E)
  <2>1. RotaOf(kind, slice) = E
    BY DEF RotaOf
  <2> QED
    BY <2>1, SharesCount
<1>2. /\ served \in [D -> Nat] /\ DOMAIN m.states = D
      /\ \A id \in D : /\ m.states[id].current = Owed(shares, served, T, W, id)
                       /\ m.states[id].current > -W
  BY DEF InCycle
<1>3. T \in Nat /\ W \in Nat
  <2>1. \A f \in [D -> Nat] : SumOf(f, D) \in Nat
    <3> HIDE DEF D
    <3> QED
      BY <1>1, SumParts
  <2> QED
    BY <1>1, <1>2, <2>1
<1>4. ASSUME NEW i \in E
      PROVE  /\ Credit(slice, m.states, i) = Owed(shares, served, T + 1, W, slice[i].id)
             /\ Credit(slice, m.states, i) > -W
  <2> DEFINE id == slice[i].id
             x == slice[i].weight
             y == served[id]
             c == m.states[id].current
  <2>1. id \in D /\ shares[id] = x /\ x \in Nat /\ y \in Nat
    BY <1>1, <1>2
  <2>2. Credit(slice, m.states, i) = x + c
    BY <1>2, <2>1 DEF Credit
  <2>3. c = T * x - y * W /\ c > -W
    BY <1>2, <2>1 DEF Owed
  <2>4. Owed(shares, served, T + 1, W, id) = (T + 1) * x - y * W
    BY <2>1 DEF Owed
  <2> HIDE DEF id, x, y, c, T, W
  <2>5. (T + 1) * x = T * x + x /\ T * x \in Int /\ y * W \in Int
    BY <1>3, <2>1
  <2>6. x + c = (T + 1) * x - y * W /\ x + c > -W
    BY <1>3, <2>1, <2>3, <2>5
  <2> QED
    BY <2>2, <2>4, <2>6 DEF id
<1>5. /\ after \in [D -> Nat] /\ DOMAIN new = D
      /\ \A id \in D : /\ new[id].current = Owed(shares, after, T + 1, W, id)
                       /\ new[id].current > -W
  <2>1. shares = SharesOf("smooth_weighted_round_robin", slice)
    OBVIOUS
  <2>2. T \in Nat /\ T = SumOf(served, DOMAIN shares) /\ W = SumOf(shares, DOMAIN shares)
    BY <1>3
  <2>3. served \in [DOMAIN shares -> Nat]
    BY <1>2
  <2>4. D = DOMAIN shares
    OBVIOUS
  <2> HIDE DEF shares, T, W, D
  <2>5. \A i \in Eligible(slice) :
          /\ Credit(slice, m.states, i) = Owed(shares, served, T + 1, W, slice[i].id)
          /\ Credit(slice, m.states, i) > -W
    BY <1>4
  <2> QED
    BY <2>1, <2>2, <2>3, <2>4, <2>5, CreditsTurn
<1>6. SumOf(after, D) = T + 1
  <2>1. w \in E
    BY WinnerIs
  <2>2. slice[w].id \in D
    BY <1>1, <2>1
  <2> HIDE DEF D, w
  <2> QED
    BY <1>1, <1>2, <2>2, ServedInAll
<1>7. SharesOf(kind, other) = shares
  OBVIOUS
<1> HIDE DEF shares, T, w, after, new
<1>8. InCycle(kind, other, after, to, new)
  BY <1>5, <1>6, <1>7 DEF InCycle
<1> QED
  BY <1>8 DEF after, new, w

\* ... and one that finds the credits even begins one.
LEMMA FirstByCredits ==
  ASSUME NEW kind, kind = "smooth_weighted_round_robin", NEW slice, IsSlice(slice),
         Eligible(slice) # {}, ~Repeats(slice, Eligible(slice)),
         NEW m, \A id \in DOMAIN m.states : m.states[id].current \in Int,
         \A i \in Eligible(slice) : Credit(slice, m.states, i) = slice[i].weight, NEW to
  PROVE  LET w == Winner(slice, m.states)
             zero == [id \in DOMAIN SharesOf(kind, slice) |-> 0]
         IN  InCycle(kind, slice, Served(slice, zero, Selected(w)), to, Decided(slice, m, w))
<1> DEFINE E == Eligible(slice)
           shares == SharesOf(kind, slice)
           D == DOMAIN shares
           W == SumOf(shares, D)
           zero == [id \in D |-> 0]
           w == Winner(slice, m.states)
           new == Decided(slice, m, w)
           after == Served(slice, zero, Selected(w))
<1>1. /\ shares \in [D -> Nat] /\ IsFiniteSet(D)
      /\ \A id : id \in D <=> \E i \in E : slice[i].id = id
      /\ \A i \in E : shares[slice[i].id] = slice[i].weight
      /\ W = TotalWeight(slice, E)
  <2>1. RotaOf(kind, slice) = E
    BY DEF RotaOf
  <2> QED
    BY <2>1, SharesCount
<1>2. zero \in [D -> Nat] /\ SumOf(zero, D) = 0
  <2>1. zero \in [D -> Nat] /\ \A id \in D : zero[id] = 0
    OBVIOUS
  <2>2. Cardinality(D) \in Nat
    BY <1>1, FS_CardinalityType
  <2> HIDE DEF zero, D
  <2>3. SumOf(zero, D) = 0 * Cardinality(D)
    BY <1>1, <2>1, SumOfOnes
  <2> QED
    BY <2>1, <2>2, <2>3
<1>3. W \in Nat \ {0}
  <2>1. /\ TotalWeight(slice, E) \in Nat
        /\ \A i \in E : slice[i].weight \in Nat \ {0} /\ slice[i].weight <= TotalWeight(slice, E)
    BY EligibleIs, TotalWeightIs
  <2>2. PICK i \in E : TRUE
    OBVIOUS
  <2> HIDE DEF E
  <2> QED
    BY <1>1, <2>1, <2>2
<1>4. ASSUME NEW i \in E
      PROVE  /\ Credit(slice, m.states, i) = Owed(shares, zero, 0 + 1, W, slice[i].id)
             /\ Credit(slice, m.states, i) > -W
  <2> DEFINE id == slice[i].id
             x == slice[i].weight
  <2>1. id \in D /\ shares[id] = x /\ x \in Nat /\ zero[id] = 0
    BY <1>1
  <2>2. Credit(slice, m.states, i) = x
    OBVIOUS
  <2>3. Owed(shares, zero, 0 + 1, W, id) = (0 + 1) * x - 0 * W
    BY <2>1 DEF Owed
  <2> HIDE DEF id, x, W
  <2>4. (0 + 1) * x - 0 * W = x /\ x > -W
    BY <1>3, <2>1
  <2> QED
    BY <2>2, <2>3, <2>4 DEF id
<1>5. /\ after \in [D -> Nat] /\ DOMAIN new = D
      /\ \A id \in D : /\ new[id].current = Owed(shares, after, 0 + 1, W, id)
                       /\ new[id].current > -W
  <2>1. shares = SharesOf("smooth_weighted_round_robin", slice) /\ D = DOMAIN shares
    OBVIOUS
  <2>2. 0 \in Nat /\ 0 = SumOf(zero, DOMAIN shares) /\ W = SumOf(shares, DOMAIN shares)
    BY <1>2
  <2>3. zero \in [DOMAIN shares -> Nat]
    BY <1>2
  <2> HIDE DEF shares, W, D, zero
  <2>4. \A i \in Eligible(slice) :
          /\ Credit(slice, m.states, i) = Owed(shares, zero, 0 + 1, W, slice[i].id)
          /\ Credit(slice, m.states, i) > -W
    BY <1>4
  <2> QED
    BY <2>1, <2>2, <2>3, <2>4, CreditsTurn
<1>6. SumOf(after, D) = 0 + 1
  <2>1. w \in E
    BY WinnerIs
  <2>2. slice[w].id \in D
    BY <1>1, <2>1
  <2> HIDE DEF D, w, zero
  <2> QED
    BY <1>1, <1>2, <2>2, ServedInAll
<1> HIDE DEF zero, w, after, new
<1>7. InCycle(kind, slice, after, to, new)
  BY <1>5, <1>6 DEF InCycle
<1> QED
  BY <1>7 DEF after, new, w, zero

\* The streak, in terms of these sums.
StreakOK(p, k, from, states) ==
  k.slice # <<>> =>
    /\ p.kind \in Rotating /\ k.slice \in Slices[p.inputs]
    /\ InCycle(p.kind, k.slice, k.served, from, states)

\* The turns somebody was served, and all the shares, as sums of the streak's slice.
LEMMA TurnsAre ==
  \A slice : IsSlice(slice) =>
    LET shares == SharesOf(policy.kind, slice)
    IN  /\ Shares(slice) = shares
        /\ \A served \in [DOMAIN shares -> Nat] :
             Turns(served) = SumOf(served, DOMAIN shares)
        /\ Turns(shares) = SumOf(shares, DOMAIN shares)
<1> SUFFICES ASSUME NEW slice, IsSlice(slice)
             PROVE  LET shares == SharesOf(policy.kind, slice)
                    IN  /\ Shares(slice) = shares
                        /\ \A served \in [DOMAIN shares -> Nat] :
                             Turns(served) = SumOf(served, DOMAIN shares)
                        /\ Turns(shares) = SumOf(shares, DOMAIN shares)
  OBVIOUS
<1> DEFINE shares == SharesOf(policy.kind, slice)
           D == DOMAIN shares
<1>1. shares \in [D -> Nat] /\ IsFiniteSet(D)
  BY SharesCount
<1>2. Shares(slice) = shares
  BY SharesAreSums
<1>3. \A f \in [D -> Nat] : Turns(f) = SumOf(f, D)
  <2> HIDE DEF D
  <2> QED
    BY <1>1, TurnsIs
<1> QED
  BY <1>1, <1>2, <1>3

\* The invariant of the streak says no more and no less.
LEMMA StreakIs ==
  policy \in Policies => (StreakIInv <=> StreakOK(policy, streak, cursor, smooth.states))
<1> SUFFICES ASSUME policy \in Policies, streak.slice # <<>>,
                    policy.kind \in Rotating, streak.slice \in Slices[policy.inputs]
             PROVE  StreakIInv <=> StreakOK(policy, streak, cursor, smooth.states)
  BY DEF StreakIInv, StreakOK
<1> DEFINE slice == streak.slice
           served == streak.served
           shares == SharesOf(policy.kind, slice)
           D == DOMAIN shares
           R == RotaOf(policy.kind, slice)
<1>1. IsSlice(slice)
  BY SlicesAreSlices
<1>2. /\ Shares(slice) = shares /\ Turns(shares) = SumOf(shares, D)
      /\ \A f \in [D -> Nat] : Turns(f) = SumOf(f, D)
  BY <1>1, TurnsAre
<1>3. Rota(slice) = R
  BY DEF Rota, RotaOf
<1>4. ASSUME served \in [D -> Nat], policy.kind = "smooth_weighted_round_robin"
      PROVE  Charged(shares, served, smooth.states)
               <=> /\ DOMAIN smooth.states = D
                   /\ \A id \in D :
                        /\ smooth.states[id].current
                             = Owed(shares, served, SumOf(served, D), SumOf(shares, D), id)
                        /\ smooth.states[id].current > -SumOf(shares, D)
  BY <1>2, <1>4 DEF Charged, Owed
<1>5. ASSUME served \in [D -> Nat], NEW V \in SUBSET R
      PROVE  Visited(slice, served, V)
               <=> /\ \A id \in D : served[id] = Cardinality(PlacesOf(slice, V, id))
                   /\ \A v \in V, u \in R \ V :
                        Distance(slice, cursor, u) < Distance(slice, cursor, v)
  <2>1. DOMAIN served = D
    BY <1>5
  <2> HIDE DEF D, R, shares
  <2> QED
    BY <1>3, <2>1 DEF Visited, PlacesOf
<1>6. StreakIInv <=>
        /\ served \in [D -> Nat]
        /\ IF policy.kind = "smooth_weighted_round_robin"
           THEN Charged(shares, served, smooth.states)
           ELSE \E V \in SUBSET R : Visited(slice, served, V)
  BY <1>2, <1>3 DEF StreakIInv
<1>7. StreakOK(policy, streak, cursor, smooth.states)
        <=> InCycle(policy.kind, slice, served, cursor, smooth.states)
  BY DEF StreakOK
<1> QED
  BY <1>4, <1>5, <1>6, <1>7 DEF InCycle

\* A cycle that ends is one that is full.
LEMMA CycleIsFull ==
  ASSUME policy \in Policies, StreakIInv, CycleEnds
  PROVE  streak.served = Shares(streak.slice)
<1> DEFINE slice == streak.slice
           served == streak.served
           shares == SharesOf(policy.kind, slice)
<1>1. /\ slice # <<>> /\ slice \in Slices[policy.inputs]
      /\ InCycle(policy.kind, slice, served, cursor, smooth.states)
  BY StreakIs DEF StreakOK, CycleEnds
<1>2. IsSlice(slice)
  BY <1>1, SlicesAreSlices
<1>3. served \in [DOMAIN shares -> Nat]
  BY <1>1 DEF InCycle
<1>4. SumOf(served, DOMAIN shares) = SumOf(shares, DOMAIN shares) /\ Shares(slice) = shares
  BY <1>2, <1>3, TurnsAre DEF CycleEnds
<1>5. served = shares
  BY <1>1, <1>2, <1>4, FullCycle
<1> QED
  BY <1>4, <1>5

\* Who was served less than the shares is in a cycle that goes on.
LEMMA CycleGoesOn ==
  ASSUME policy \in Policies, StreakIInv, streak.slice # <<>>, ~CycleEnds
  PROVE  streak.served # SharesOf(policy.kind, streak.slice)
<1>1. streak.slice \in Slices[policy.inputs]
  BY StreakIs DEF StreakOK
<1>2. IsSlice(streak.slice)
  BY <1>1, SlicesAreSlices
<1>3. Shares(streak.slice) = SharesOf(policy.kind, streak.slice)
  BY <1>2, TurnsAre
<1> QED
  BY <1>3 DEF CycleEnds

\* What the history of turns becomes.
LEMMA StreakBecomes ==
  ASSUME NEW slice, NEW r
  PROVE  /\ policy.kind \notin Rotating \/ r.index = 0 => Streak(slice, r) = NoStreak
         /\ policy.kind \in Rotating /\ r.index # 0 =>
              /\ streak.slice # <<>> /\ ~CycleEnds /\ SameRotation(slice) =>
                   Streak(slice, r) = [slice |-> streak.slice,
                                       served |-> Served(slice, streak.served, r)]
              /\ ~(streak.slice # <<>> /\ ~CycleEnds /\ SameRotation(slice)) =>
                   Streak(slice, r)
                     = IF ~Even(slice) THEN NoStreak
                       ELSE [slice |-> slice,
                             served |-> Served(slice, [id \in DOMAIN Shares(slice) |-> 0], r)]
BY DEF Streak

\* No streak is fine.
LEMMA NoStreakOK ==
  ASSUME NEW p, NEW from, NEW states
  PROVE  StreakOK(p, NoStreak, from, states)
BY DEF StreakOK, NoStreak

\* Round robin and least loaded keep the invariant of the streak.
LEMMA StreakOfCursor ==
  ASSUME PicksIInv, StreakIInv, PickInTurn
  PROVE  StreakOK(policy', streak', cursor', smooth'.states)
<1> DEFINE kind == policy.kind
           R(slice) == RotaOf(kind, slice)
<1>1. kind \in {"round_robin", "least_loaded"} /\ kind \in Rotating
      /\ kind # "smooth_weighted_round_robin"
  BY DEF PickInTurn, Rotating
<1>2. PICK slice \in Slices[policy.inputs] :
        /\ cursor' = Advance(slice, cursor, R(slice)).cursor
        /\ Note(slice, 0, Advance(slice, cursor, R(slice)).result)
  BY <1>1 DEF PickInTurn, RoundRobin, LeastLoaded, RotaOf
<1> DEFINE o == Advance(slice, cursor, R(slice))
           r == o.result
<1>3. /\ policy \in Policies /\ cursor \in Nat /\ IsSlice(slice)
  BY InvariantGives, MaxU64Assumption
<1>4. R(slice) \in SUBSET DOMAIN slice /\ (R(slice) = {} <=> Eligible(slice) = {})
  BY <1>3, RotaIs
<1>5. policy' = policy /\ streak' = Streak(slice, r)
  BY <1>2 DEF Note
<1>6. /\ R(slice) = {} => Nobody(slice, r)
      /\ R(slice) # {} => \E i \in R(slice) :
           /\ r = Selected(i) /\ o.cursor = i
           /\ \A j \in R(slice) : Distance(slice, cursor, i) <= Distance(slice, cursor, j)
  <2> HIDE DEF R
  <2> QED
    BY <1>3, <1>4, AdvanceIs
<1>7. CASE R(slice) = {}
  <2>1. r.index = 0
    BY <1>6, <1>7 DEF Nobody, Failed
  <2>2. streak' = NoStreak
    BY <1>5, <2>1, StreakBecomes
  <2> QED
    BY <2>2, NoStreakOK
<1>8. CASE R(slice) # {}
  <2>1. PICK i \in R(slice) :
          /\ r = Selected(i) /\ o.cursor = i
          /\ \A j \in R(slice) : Distance(slice, cursor, i) <= Distance(slice, cursor, j)
    BY <1>6, <1>8
  <2>2. r.index = i /\ i # 0 /\ cursor' = i
    <3>1. i \in DOMAIN slice
      BY <1>4, <2>1
    <3> QED
      BY <1>2, <1>3, <2>1, <3>1, CandidateIs DEF Selected
  <2>3. CASE streak.slice # <<>> /\ ~CycleEnds /\ SameRotation(slice)
    <3>1. streak.slice = slice
      BY <1>1, <2>3 DEF SameRotation
    <3>2. streak' = [slice |-> slice, served |-> Served(slice, streak.served, Selected(i))]
      BY <1>1, <1>5, <2>1, <2>2, <2>3, <3>1, StreakBecomes
    <3>3. InCycle(kind, slice, streak.served, cursor, smooth.states)
      BY <1>3, <2>3, <3>1, StreakIs DEF StreakOK
    <3>4. streak.served # SharesOf(kind, slice)
      BY <1>3, <2>3, <3>1, CycleGoesOn
    <3>5. i \in RotaOf(kind, slice)
          /\ \A j \in RotaOf(kind, slice) : Distance(slice, cursor, i) <= Distance(slice, cursor, j)
      BY <2>1
    <3> HIDE DEF kind
    <3>6. InCycle(kind, slice, Served(slice, streak.served, Selected(i)), i, smooth'.states)
      BY <1>1, <1>3, <3>3, <3>4, <3>5, CycleByCursor
    <3> QED
      BY <1>1, <1>5, <2>2, <3>2, <3>6 DEF StreakOK, kind
  <2>4. CASE ~(streak.slice # <<>> /\ ~CycleEnds /\ SameRotation(slice))
    <3> DEFINE zero == [id \in DOMAIN SharesOf(kind, slice) |-> 0]
    <3>1. Even(slice)
      BY <1>1 DEF Even
    <3>2. Shares(slice) = SharesOf(kind, slice)
      BY <1>3, TurnsAre
    <3>3. streak' = [slice |-> slice, served |-> Served(slice, zero, Selected(i))]
      BY <1>1, <1>5, <2>1, <2>2, <2>4, <3>1, <3>2, StreakBecomes
    <3>5. i \in RotaOf(kind, slice)
          /\ \A j \in RotaOf(kind, slice) : Distance(slice, cursor, i) <= Distance(slice, cursor, j)
      BY <2>1
    <3>6. InCycle(kind, slice, Served(slice, zero, Selected(i)), i, smooth'.states)
      <4> HIDE DEF kind
      <4> QED
        BY <1>1, <1>3, <3>5, FirstByCursor
    <3> HIDE DEF zero
    <3> QED
      BY <1>1, <1>5, <2>2, <3>3, <3>6 DEF StreakOK
  <2> QED
    BY <2>3, <2>4
<1> QED
  BY <1>7, <1>8

\* Smooth weighted round robin keeps the invariant of the streak.
LEMMA StreakOfCredits ==
  ASSUME PicksIInv, StreakIInv, PickSmoothly
  PROVE  StreakOK(policy', streak', cursor', smooth'.states)
<1> DEFINE kind == policy.kind
           next == NextEpoch(smooth)
<1>1. kind = "smooth_weighted_round_robin" /\ kind \in Rotating
  BY DEF PickSmoothly, Rotating
<1>2. PICK slice \in Slices[policy.inputs] :
        /\ smooth' = SmoothWeightedRoundRobin(slice, smooth).smooth
        /\ Note(slice, 0, SmoothWeightedRoundRobin(slice, smooth).result)
  BY DEF PickSmoothly
<1> DEFINE o == SmoothWeightedRoundRobin(slice, smooth)
           r == o.result
           E == Eligible(slice)
           w == Winner(slice, next.states)
<1>3. policy \in Policies /\ SmoothOK(smooth) /\ IsSlice(slice)
  BY InvariantGives
<1>4. policy' = policy /\ streak' = Streak(slice, r)
  BY <1>2 DEF Note
<1>5. CASE E = {} \/ Repeats(slice, E)
  <2>1. r.index = 0
    <3>1. /\ slice = <<>> => r = Failed("Empty")
          /\ slice # <<>> /\ Repeats(slice, E) => r = Failed("DuplicateIdentity")
          /\ slice # <<>> /\ E = {} => r = Failed("NoEligibleCandidates")
      BY <1>3, SmoothIs
    <3>2. \A error : Failed(error).index = 0
      BY DEF Failed
    <3> HIDE DEF r, E
    <3> QED
      BY <1>5, <3>1, <3>2
  <2>2. streak' = NoStreak
    BY <1>4, <2>1, StreakBecomes
  <2> QED
    BY <2>2, NoStreakOK
<1>6. CASE E # {} /\ ~Repeats(slice, E)
  <2>1. /\ w \in E /\ r = Selected(w)
        /\ smooth' = [states |-> Decided(slice, next, w), epoch |-> next.epoch]
    BY <1>2, <1>3, <1>6, SmoothIs
  <2>2. r.index = w /\ w # 0 /\ smooth'.states = Decided(slice, next, w)
    <3>1. w \in DOMAIN slice
      BY <1>3, <2>1, EligibleIs
    <3>2. w # 0
      BY <1>3, <3>1, CandidateIs
    <3> QED
      BY <2>1, <3>2 DEF Selected
  <2>3. /\ \A id \in DOMAIN next.states : next.states[id].current \in Int
        /\ next.states = IF smooth.epoch = MaxEpoch THEN NoStates ELSE smooth.states
    BY <1>3, NextEpochIs
  <2>4. Shares(slice) = SharesOf(kind, slice)
    BY <1>3, TurnsAre
  <2>5. CASE streak.slice # <<>> /\ ~CycleEnds /\ SameRotation(slice)
    <3> DEFINE other == streak.slice
    <3>1. Shares(slice) = Shares(other) /\ smooth.epoch # MaxEpoch
      BY <1>1, <2>5 DEF SameRotation
    <3>2. streak' = [slice |-> other, served |-> Served(slice, streak.served, Selected(w))]
      <4>1. r = Selected(w) /\ r.index # 0 /\ streak' = Streak(slice, r)
        BY <1>4, <2>1, <2>2
      <4>2. policy.kind \in Rotating
        BY <1>1
      <4> HIDE DEF r, w, next, o
      <4>3. streak' = [slice |-> streak.slice, served |-> Served(slice, streak.served, r)]
        BY <2>5, <4>1, <4>2, StreakBecomes
      <4> QED
        BY <4>1, <4>3
    <3>3. /\ other \in Slices[policy.inputs]
          /\ InCycle(kind, other, streak.served, cursor, smooth.states)
      BY <1>3, <2>5, StreakIs DEF StreakOK
    <3>4. IsSlice(other)
      BY <1>3, <3>3, SlicesAreSlices
    <3>5. SharesOf(kind, other) = SharesOf(kind, slice)
      BY <2>4, <3>1, <3>4, TurnsAre
    <3>6. next.states = smooth.states
      BY <2>3, <3>1
    <3>7. InCycle(kind, other, streak.served, cursor, next.states)
      BY <3>3, <3>6
    <3> HIDE DEF kind, next, other
    <3>8. InCycle(kind, other, Served(slice, streak.served, Selected(w)), cursor',
                  Decided(slice, next, w))
      BY <1>1, <1>3, <1>6, <2>3, <3>5, <3>7, CycleByCredits
    <3> QED
      BY <1>1, <1>4, <2>2, <3>2, <3>3, <3>8 DEF StreakOK, kind
  <2>6. CASE ~(streak.slice # <<>> /\ ~CycleEnds /\ SameRotation(slice)) /\ Even(slice)
    <3> DEFINE zero == [id \in DOMAIN SharesOf(kind, slice) |-> 0]
    <3>1. streak' = [slice |-> slice, served |-> Served(slice, zero, Selected(w))]
      BY <1>1, <1>4, <2>1, <2>2, <2>4, <2>6, StreakBecomes
    <3>2. ASSUME NEW i \in E PROVE Credit(slice, next.states, i) = slice[i].weight
      <4>1. slice[i].weight \in Nat
        BY <1>3, EligibleIs, CandidateIs
      <4>2. slice[i].id \in DOMAIN next.states => next.states[slice[i].id].current = 0
        <5>1. DOMAIN NoStates = {}
          BY DEF NoStates
        <5>2. smooth.epoch # MaxEpoch =>
                \A j \in E : slice[j].id \in DOMAIN smooth.states =>
                  smooth.states[slice[j].id].current = 0
          BY <1>1, <2>6 DEF Even
        <5> HIDE DEF next
        <5> QED
          BY <2>3, <5>1, <5>2
      <4> HIDE DEF next
      <4> QED
        BY <4>1, <4>2 DEF Credit
    <3>3. InCycle(kind, slice, Served(slice, zero, Selected(w)), cursor', Decided(slice, next, w))
      <4> HIDE DEF kind, next
      <4> QED
        BY <1>1, <1>3, <1>6, <2>3, <3>2, FirstByCredits
    <3> HIDE DEF zero
    <3> QED
      BY <1>1, <1>4, <2>2, <3>1, <3>3 DEF StreakOK
  <2>7. CASE ~(streak.slice # <<>> /\ ~CycleEnds /\ SameRotation(slice)) /\ ~Even(slice)
    <3>1. streak' = NoStreak
      BY <1>1, <1>4, <2>2, <2>7, StreakBecomes
    <3> QED
      BY <3>1, NoStreakOK
  <2> QED
    BY <2>5, <2>6, <2>7
<1> QED
  BY <1>5, <1>6

\* The other policies take no turns.
LEMMA OthersTakeNoTurns ==
  ASSUME PickAtRandom \/ PickByScore \/ PickFromTable \/ PickInGroups
  PROVE  policy' = policy /\ streak' = NoStreak
<1>1. policy.kind \in Drawing \cup Hashing \cup Caching \cup Grouping
  BY DEF PickAtRandom, PickByScore, PickFromTable, PickInGroups
<1>2. policy.kind \notin Rotating
  BY <1>1, KindsDiffer
<1>3. \E slice, q, r : Note(slice, q, r)
  <2>1. CASE PickAtRandom
    BY <2>1 DEF PickAtRandom
  <2>2. CASE PickByScore
    BY <2>2 DEF PickByScore
  <2>3. CASE PickFromTable
    <3>1. PICK slice \in Slices[policy.inputs], q \in Request :
            LET o == IF policy.kind = "ring_hash"
                     THEN RingHash(slice, q, policy.hash, policy.config, cache)
                     ELSE Maglev(slice, q, policy.hash, policy.config, cache)
            IN  cache' = o.cache /\ Note(slice, q, o.result)
      BY <2>3 DEF PickFromTable
    <3> QED
      BY <3>1
  <2>4. CASE PickInGroups
    BY <2>4 DEF PickInGroups
  <2> QED
    BY <2>1, <2>2, <2>3, <2>4
<1>4. PICK slice, q, r : Note(slice, q, r)
  BY <1>3
<1>5. policy' = policy /\ streak' = Streak(slice, r)
  BY <1>4 DEF Note
<1> QED
  BY <1>2, <1>5, StreakBecomes

\* The invariant of the streak holds forever.
LEMMA StreakInvariance == Spec => []StreakIInv
<1>1. ASSUME PicksIInv, PicksIInv', StreakOK(policy', streak', cursor', smooth'.states)
      PROVE  StreakIInv'
  <2>1. policy' \in Policies
    BY <1>1 DEF PicksIInv, RoutingTypeOK
  <2>2. (policy \in Policies => (StreakIInv <=> StreakOK(policy, streak, cursor, smooth.states)))'
    BY StreakIs, PTL
  <2> QED
    BY <1>1, <2>1, <2>2
<1>2. Init => StreakIInv
  BY DEF Init, RoutingInit, StreakIInv, NoStreak
<1>3. ASSUME PicksIInv, PicksIInv', StreakIInv, Pick
      PROVE  StreakIInv'
  <2>1. StreakOK(policy', streak', cursor', smooth'.states)
    <3>1. CASE PickInTurn
      BY <1>3, <3>1, StreakOfCursor
    <3>2. CASE PickSmoothly
      BY <1>3, <3>2, StreakOfCredits
    <3>3. CASE PickAtRandom \/ PickByScore \/ PickFromTable \/ PickInGroups
      BY <3>3, OthersTakeNoTurns, NoStreakOK
    <3> QED
      BY <1>3, <3>1, <3>2, <3>3 DEF Pick
  <2> QED
    BY <1>1, <1>3, <2>1
<1>4. ASSUME PicksIInv, PicksIInv', StreakIInv, Reset
      PROVE  StreakIInv'
  <2>1. streak' = NoStreak
    BY <1>4 DEF Reset
  <2> QED
    BY <1>1, <1>4, <2>1, NoStreakOK
<1>5. ASSUME PicksIInv, PicksIInv', StreakIInv, UNCHANGED routingVars
      PROVE  StreakIInv'
  <2>1. /\ policy' = policy /\ streak' = streak /\ cursor' = cursor /\ smooth' = smooth
        /\ policy \in Policies
    BY <1>5 DEF routingVars, stateVars, PicksIInv, RoutingTypeOK
  <2>2. StreakOK(policy, streak, cursor, smooth.states)
    BY <1>5, <2>1, StreakIs
  <2> QED
    BY <1>1, <1>5, <2>1, <2>2
<1>6. PicksIInv /\ PicksIInv' /\ StreakIInv /\ [Next]_vars => StreakIInv'
  BY <1>3, <1>4, <1>5 DEF Next, vars, ObservedPick, ResetPolicy, Observing, Judging
<1> QED
  BY <1>2, <1>6, PicksInvariance, PTL DEF Spec

\* A complete cycle gave each identity exactly its share: its weight under smooth
\* weighted round robin, its places under round robin and among equal loads.
THEOREM CyclesStayExact == Spec => []CyclesAreExact
<1>1. PicksIInv /\ StreakIInv => CyclesAreExact
  BY CycleIsFull DEF CyclesAreExact, PicksIInv, RoutingTypeOK
<1> QED
  BY <1>1, PicksInvariance, StreakInvariance, PTL

=============================================================================
