----------------------------- MODULE SumTheorems -----------------------------
(***************************************************************************)
(* What the models need to know of a sum over a finite set, and of its     *)
(* members: SumFunctionOnSet of the module Functions is a fold, a function *)
(* defined by recursion over the subsets of the set.                       *)
(*                                                                         *)
(* Everything rests on MinimalSet, a form of induction that has a set in   *)
(* the place of a predicate: a family of subsets that is not empty has a   *)
(* smallest member. A lemma takes it of the subsets for which it fails.    *)
(***************************************************************************)
EXTENDS Integers, Functions, FiniteSetTheorems, WellFoundedInduction, TLAPS

\* A family of subsets of a finite set has a member that contains no other.
LEMMA MinimalSet ==
  ASSUME NEW S, IsFiniteSet(S), NEW F, F \subseteq SUBSET S, F # {}
  PROVE  \E T \in F : \A U \in F : U \subseteq T => U = T
  <1>1. IsWellFoundedOn(StrictSubsetOrdering(S), FiniteSubsetsOf(S))
    BY FS_StrictSubsetOrderingWellFounded
  <1>2. F \subseteq FiniteSubsetsOf(S)
    BY FS_FiniteSubsetsOfFinite
  <1>3. PICK T \in F : \A U \in F : ~(<<U, T>> \in StrictSubsetOrdering(S))
    BY <1>1, <1>2, WFMin
  <1>. QED BY <1>3 DEF StrictSubsetOrdering

\* A set of naturals has a least member.
LEMMA LeastNatural ==
  ASSUME NEW P, P \subseteq Nat, P # {}
  PROVE  \E n \in P : \A m \in P : n <= m
  <1>1. PICK k \in P : k \in Nat
    OBVIOUS
  <1>. DEFINE S == 0 .. k
              F == {0 .. m : m \in P \cap 0 .. k}
  <1>2. F \subseteq SUBSET S
    <2>1. ASSUME NEW m \in P \cap 0 .. k PROVE 0 .. m \subseteq 0 .. k
      BY <1>1
    <2>. QED BY <2>1
  <1>3. IsFiniteSet(S)
    BY <1>1, FS_Interval
  <1>4. F # {}
    BY <1>1
  <1>5. PICK T \in F : \A U \in F : U \subseteq T => U = T
    <2>. HIDE DEF F, S
    <2>. QED BY <1>2, <1>3, <1>4, MinimalSet
  <1>6. PICK n \in P \cap 0 .. k : T = 0 .. n
    OBVIOUS
  <1>7. ASSUME NEW m \in P, m < n PROVE FALSE
    <2>1. 0 .. m \in F /\ 0 .. m \subseteq T /\ n \in T /\ n \notin 0 .. m
      BY <1>6, <1>7
    <2>. QED BY <2>1, <1>5
  <1>. QED BY <1>6, <1>7

\* A finite set of integers has a greatest member.
LEMMA GreatestMember ==
  ASSUME NEW S, IsFiniteSet(S), S \subseteq Int, S # {}
  PROVE  \E n \in S : \A m \in S : m <= n
  <1>. DEFINE Unbounded(s) == s # {} /\ \A n \in s : \E m \in s : ~(m <= n)
              F == {s \in SUBSET S : Unbounded(s)}
  <1>. SUFFICES ASSUME S \in F PROVE FALSE
    OBVIOUS
  <1>1. F \subseteq SUBSET S /\ F # {}
    OBVIOUS
  <1>2. \E T \in F : \A U \in F : U \subseteq T => U = T
    <2>1. IsFiniteSet(S)
      OBVIOUS
    <2>. HIDE DEF F
    <2>. QED BY ONLY <1>1, <2>1, MinimalSet
  <1>3. PICK T \in F : \A U \in F : U \subseteq T => U = T
    BY <1>2
  <1>4. PICK x \in T : x \in Int
    OBVIOUS
  <1>5. CASE T = {x}
    BY <1>3, <1>4, <1>5
  <1>6. CASE T # {x}
    <2>1. T \ {x} \notin F /\ T \ {x} # {}
      BY <1>3, <1>4, <1>6
    <2>2. PICK n \in T \ {x} : \A m \in T \ {x} : m <= n
      BY <2>1
    <2>3. n \in Int /\ T \subseteq Int
      OBVIOUS
    <2>4. \E y \in T : \A m \in T : m <= y
      <3>1. CASE x <= n
        BY <2>2, <3>1
      <3>2. CASE n < x
        <4>1. \A m \in T : m <= x
          BY <2>2, <2>3, <1>4, <3>2
        <4>. QED BY <4>1, <1>4
      <3>. QED BY <2>3, <1>4, <3>1, <3>2
    <2>. QED BY <2>4
  <1>. QED BY <1>5, <1>6

\* A set that holds 0 and with every natural the next one holds them all.
LEMMA NaturalsClosed ==
  ASSUME NEW P, 0 \in P, \A n \in Nat : n \in P => n + 1 \in P
  PROVE  Nat \subseteq P
  <1>. SUFFICES ASSUME Nat \ P # {} PROVE FALSE
    OBVIOUS
  <1>1. PICK n \in Nat \ P : \A m \in Nat \ P : n <= m
    BY LeastNatural
  <1>2. n # 0 /\ n - 1 \in Nat
    BY <1>1
  <1>3. n - 1 \in P
    BY <1>1, <1>2
  <1>4. (n - 1) + 1 = n
    BY <1>1
  <1>. QED BY <1>1, <1>2, <1>3, <1>4

-----------------------------------------------------------------------------
(* The fold is a function: the recursion behind it has one solution.       *)

Pick(s) == CHOOSE x \in s : TRUE

Summed(g, fun, s) == IF s = {} THEN 0 ELSE fun[Pick(s)] + g[s \ {Pick(s)}]

\* g sums up fun over the subsets of S.
SumsUp(g, fun, S) == g = [s \in SUBSET S |-> Summed(g, fun, s)]

\* g does so for the subsets of at most n elements.
SumsUpTo(g, fun, S, n) ==
  \A s \in SUBSET S : Cardinality(s) <= n => g[s] = Summed(g, fun, s)

\* The fold is the value of the function that sums up.
LEMMA SumUnfolds ==
  ASSUME NEW fun, NEW S
  PROVE  SumFunctionOnSet(fun, S) = (CHOOSE g : SumsUp(g, fun, S))[S]
  BY DEF SumFunctionOnSet, FoldFunctionOnSet, MapThenFoldSet, Pick, Summed, SumsUp

\* Some function sums up over the subsets of at most n elements.
LEMMA PartialSums ==
  ASSUME NEW fun, NEW S, IsFiniteSet(S), NEW n \in Nat
  PROVE  \E g : SumsUpTo(g, fun, S, n)
  <1>. DEFINE P == {k \in Nat : \E g : SumsUpTo(g, fun, S, k)}
  <1>1. 0 \in P
    <2>. DEFINE g == [s \in SUBSET S |-> 0]
    <2>1. ASSUME NEW s \in SUBSET S, Cardinality(s) <= 0 PROVE s = {}
      BY <2>1, FS_Subset, FS_EmptySet, FS_CardinalityType
    <2>2. SumsUpTo(g, fun, S, 0)
      BY <2>1 DEF SumsUpTo, Summed
    <2>. QED BY <2>2
  <1>2. ASSUME NEW k \in Nat, k \in P PROVE k + 1 \in P
    <2>1. PICK g : SumsUpTo(g, fun, S, k)
      BY <1>2
    <2>. DEFINE h == [s \in SUBSET S |-> Summed(g, fun, s)]
    <2>2. ASSUME NEW s \in SUBSET S, Cardinality(s) <= k + 1, s # {}
          PROVE  h[s \ {Pick(s)}] = g[s \ {Pick(s)}]
      <3>1. Pick(s) \in s /\ IsFiniteSet(s)
        BY <2>2, FS_Subset DEF Pick
      <3>2. /\ Cardinality(s \ {Pick(s)}) = Cardinality(s) - 1
            /\ Cardinality(s) \in Nat /\ s \ {Pick(s)} \in SUBSET S
        BY <3>1, FS_RemoveElement, FS_CardinalityType
      <3>3. Cardinality(s \ {Pick(s)}) <= k
        BY <3>2, <2>2
      <3>. QED BY <3>2, <3>3, <2>1 DEF SumsUpTo
    <2>3. SumsUpTo(h, fun, S, k + 1)
      BY <2>2 DEF SumsUpTo, Summed
    <2>. QED BY <2>3
  <1>. HIDE DEF P
  <1>3. Nat \subseteq P
    BY <1>1, <1>2, NaturalsClosed
  <1>. QED BY <1>3 DEF P

\* Some function sums up over all the subsets of a finite set.
LEMMA SumExists ==
  ASSUME NEW fun, NEW S, IsFiniteSet(S)
  PROVE  \E g : SumsUp(g, fun, S)
  <1>1. Cardinality(S) \in Nat
    BY FS_CardinalityType
  <1>2. PICK g : SumsUpTo(g, fun, S, Cardinality(S))
    BY <1>1, PartialSums
  <1>. DEFINE h == [s \in SUBSET S |-> g[s]]
  <1>3. ASSUME NEW s \in SUBSET S PROVE h[s] = Summed(h, fun, s)
    <2>1. Cardinality(s) <= Cardinality(S) /\ s \ {Pick(s)} \in SUBSET S
      BY FS_Subset
    <2>. QED BY <2>1, <1>2 DEF SumsUpTo, Summed
  <1>4. h = [s \in SUBSET S |-> Summed(h, fun, s)]
    BY <1>3
  <1>. QED BY <1>4 DEF SumsUp

\* Whatever set a function was summed up for, a subset has one sum.
LEMMA SumUnique ==
  ASSUME NEW fun, NEW S, NEW T \in SUBSET S, IsFiniteSet(T), NEW g, NEW h,
         SumsUp(g, fun, S), SumsUp(h, fun, T)
  PROVE  g[T] = h[T]
  <1>. DEFINE F == {s \in SUBSET T : g[s] # h[s]}
  <1>. SUFFICES ASSUME F # {} PROVE FALSE
    OBVIOUS
  <1>1. F \subseteq SUBSET T
    OBVIOUS
  <1>2. PICK s \in F : \A u \in F : u \subseteq s => u = s
    <2>. HIDE DEF F
    <2>. QED BY <1>1, MinimalSet
  <1>3. s # {}
    BY <1>2 DEF SumsUp, Summed
  <1>4. Pick(s) \in s
    BY <1>3 DEF Pick
  <1>5. g[s \ {Pick(s)}] = h[s \ {Pick(s)}]
    BY <1>2, <1>4
  <1>. QED BY <1>3, <1>5 DEF SumsUp, Summed

-----------------------------------------------------------------------------
(* The facts about sums that the models use.                               *)

\* Nothing sums up to zero.
THEOREM SumEmpty ==
  ASSUME NEW fun
  PROVE  SumFunctionOnSet(fun, {}) = 0
  <1>1. SumsUp(CHOOSE g : SumsUp(g, fun, {}), fun, {})
    BY SumExists, FS_EmptySet
  <1>. QED BY <1>1, SumUnfolds DEF SumsUp, Summed

\* A sum is the picked value and the sum of the others.
LEMMA SumPick ==
  ASSUME NEW fun, NEW S, IsFiniteSet(S), S # {}
  PROVE  SumFunctionOnSet(fun, S) = fun[Pick(S)] + SumFunctionOnSet(fun, S \ {Pick(S)})
  <1>. DEFINE R == S \ {Pick(S)}
              g == CHOOSE f : SumsUp(f, fun, S)
              h == CHOOSE f : SumsUp(f, fun, R)
  <1>1. IsFiniteSet(R) /\ R \in SUBSET S
    BY FS_Subset
  <1>2. SumsUp(g, fun, S) /\ SumsUp(h, fun, R)
    BY <1>1, SumExists
  <1>3. SumFunctionOnSet(fun, S) = g[S] /\ SumFunctionOnSet(fun, R) = h[R]
    BY SumUnfolds
  <1>. HIDE DEF g, h
  <1>4. g[S] = fun[Pick(S)] + g[R]
    BY <1>2 DEF SumsUp, Summed
  <1>5. g[R] = h[R]
    BY <1>1, <1>2, SumUnique
  <1>. QED BY <1>3, <1>4, <1>5

\* A sum of naturals is a natural.
THEOREM SumType ==
  ASSUME NEW S, IsFiniteSet(S), NEW fun, \A x \in S : fun[x] \in Nat
  PROVE  SumFunctionOnSet(fun, S) \in Nat
  <1>. DEFINE F == {s \in SUBSET S : SumFunctionOnSet(fun, s) \notin Nat}
  <1>. SUFFICES ASSUME F # {} PROVE FALSE
    OBVIOUS
  <1>1. F \subseteq SUBSET S
    OBVIOUS
  <1>2. PICK s \in F : \A u \in F : u \subseteq s => u = s
    <2>1. IsFiniteSet(S)
      OBVIOUS
    <2>. HIDE DEF F
    <2>. QED BY <1>1, <2>1, MinimalSet
  <1>3. s # {} /\ IsFiniteSet(s)
    <2>1. SumFunctionOnSet(fun, s) # 0
      BY <1>2
    <2>. QED BY <2>1, SumEmpty, FS_Subset
  <1>4. Pick(s) \in s
    BY <1>3 DEF Pick
  <1>5. SumFunctionOnSet(fun, s \ {Pick(s)}) \in Nat
    BY <1>2, <1>4
  <1>6. fun[Pick(s)] \in Nat
    BY <1>4
  <1>. QED BY <1>3, <1>5, <1>6, SumPick

\* Any member of the set can be summed up last.
THEOREM SumRemove ==
  ASSUME NEW S, IsFiniteSet(S), NEW fun, \A x \in S : fun[x] \in Nat, NEW x \in S
  PROVE  SumFunctionOnSet(fun, S) = fun[x] + SumFunctionOnSet(fun, S \ {x})
  <1>. DEFINE Sum(s) == SumFunctionOnSet(fun, s)
              F == {s \in SUBSET S : \E y \in s : Sum(s) # fun[y] + Sum(s \ {y})}
  <1>. SUFFICES ASSUME F # {} PROVE FALSE
    OBVIOUS
  <1>1. F \subseteq SUBSET S
    OBVIOUS
  <1>2. PICK s \in F : \A u \in F : u \subseteq s => u = s
    <2>1. IsFiniteSet(S)
      OBVIOUS
    <2>. HIDE DEF F
    <2>. QED BY <1>1, <2>1, MinimalSet
  <1>3. PICK y \in s : Sum(s) # fun[y] + Sum(s \ {y})
    OBVIOUS
  <1>. DEFINE p == Pick(s)
              r == (s \ {p}) \ {y}
  <1>4. p \in s /\ IsFiniteSet(s) /\ s # {}
    BY FS_Subset DEF Pick
  <1>5. Sum(s) = fun[p] + Sum(s \ {p})
    BY <1>4, SumPick
  <1>. HIDE DEF p
  <1>6. p # y /\ p \in s \ {y} /\ y \in s \ {p}
    BY <1>3, <1>4, <1>5
  <1>7. s \ {p} \notin F /\ s \ {y} \notin F
    BY <1>2, <1>4, <1>6
  <1>8. Sum(s \ {p}) = fun[y] + Sum(r)
    BY <1>6, <1>7
  <1>9. Sum(s \ {y}) = fun[p] + Sum(r)
    <2>1. Sum(s \ {y}) = fun[p] + Sum((s \ {y}) \ {p})
      BY <1>6, <1>7
    <2>2. (s \ {y}) \ {p} = r
      OBVIOUS
    <2>. QED BY <2>1, <2>2
  <1>10. Sum(r) \in Nat
    <2>1. IsFiniteSet(r) /\ r \subseteq S
      BY FS_Subset
    <2>. QED BY <2>1, SumType
  <1>11. fun[p] \in Nat /\ fun[y] \in Nat
    BY <1>4
  <1>. HIDE DEF Sum, r
  <1>. QED BY <1>3, <1>5, <1>8, <1>9, <1>10, <1>11

\* A new member adds its value.
THEOREM SumAdd ==
  ASSUME NEW S, IsFiniteSet(S), NEW x, x \notin S,
         NEW fun, \A y \in S \union {x} : fun[y] \in Nat
  PROVE  SumFunctionOnSet(fun, S \union {x}) = SumFunctionOnSet(fun, S) + fun[x]
  <1>. DEFINE T == S \union {x}
  <1>1. IsFiniteSet(T) /\ x \in T /\ T \ {x} = S
    BY FS_AddElement
  <1>2. \A y \in T : fun[y] \in Nat
    OBVIOUS
  <1>. HIDE DEF T
  <1>3. SumFunctionOnSet(fun, T) = fun[x] + SumFunctionOnSet(fun, T \ {x})
    BY <1>1, <1>2, SumRemove
  <1>4. SumFunctionOnSet(fun, S) \in Nat /\ fun[x] \in Nat
    BY <1>1, <1>2, SumType, FS_Subset
  <1>. QED BY <1>1, <1>3, <1>4 DEF T

\* Functions that agree on a set have the same sum over it.
THEOREM SumSame ==
  ASSUME NEW S, IsFiniteSet(S), NEW fun, NEW gun, \A x \in S : fun[x] = gun[x]
  PROVE  SumFunctionOnSet(fun, S) = SumFunctionOnSet(gun, S)
  <1>. DEFINE F == {s \in SUBSET S : SumFunctionOnSet(fun, s) # SumFunctionOnSet(gun, s)}
  <1>. SUFFICES ASSUME F # {} PROVE FALSE
    OBVIOUS
  <1>1. F \subseteq SUBSET S
    OBVIOUS
  <1>2. PICK s \in F : \A u \in F : u \subseteq s => u = s
    <2>1. IsFiniteSet(S)
      OBVIOUS
    <2>. HIDE DEF F
    <2>. QED BY <1>1, <2>1, MinimalSet
  <1>3. s # {} /\ IsFiniteSet(s)
    BY <1>2, SumEmpty, FS_Subset
  <1>4. Pick(s) \in s
    BY <1>3 DEF Pick
  <1>5. SumFunctionOnSet(fun, s \ {Pick(s)}) = SumFunctionOnSet(gun, s \ {Pick(s)})
    BY <1>2, <1>4
  <1>6. fun[Pick(s)] = gun[Pick(s)]
    BY <1>4
  <1>. QED BY <1>2, <1>3, <1>5, <1>6, SumPick

\* Fewer members have no larger sum.
THEOREM SumMonotone ==
  ASSUME NEW S, IsFiniteSet(S), NEW T \in SUBSET S,
         NEW fun, \A x \in S : fun[x] \in Nat
  PROVE  SumFunctionOnSet(fun, T) <= SumFunctionOnSet(fun, S)
  <1>. DEFINE Sum(s) == SumFunctionOnSet(fun, s)
              F == {s \in SUBSET S : T \subseteq s /\ ~(Sum(T) <= Sum(s))}
  <1>. SUFFICES ASSUME F # {} PROVE FALSE
    OBVIOUS
  <1>1. F \subseteq SUBSET S
    OBVIOUS
  <1>2. PICK s \in F : \A u \in F : u \subseteq s => u = s
    <2>1. IsFiniteSet(S)
      OBVIOUS
    <2>. HIDE DEF F
    <2>. QED BY <1>1, <2>1, MinimalSet
  <1>3. IsFiniteSet(s) /\ IsFiniteSet(T) /\ \A y \in s : fun[y] \in Nat
    BY FS_Subset
  <1>4. Sum(T) \in Nat
    BY <1>3, SumType
  <1>5. PICK x \in s : x \notin T
    <2>1. T \subseteq s /\ s # T
      BY <1>2, <1>4
    <2>. QED BY <2>1
  <1>6. Sum(s) = fun[x] + Sum(s \ {x}) /\ Sum(s \ {x}) \in Nat /\ fun[x] \in Nat
    <2>1. IsFiniteSet(s \ {x}) /\ \A y \in s \ {x} : fun[y] \in Nat
      BY <1>3, FS_Subset
    <2>. QED BY <1>3, <2>1, SumRemove, SumType
  <1>7. Sum(T) <= Sum(s \ {x})
    BY <1>2, <1>5
  <1>8. ~(Sum(T) <= Sum(s))
    OBVIOUS
  <1>. HIDE DEF Sum
  <1>. QED BY <1>4, <1>6, <1>7, <1>8

\* Equal values sum up to a product.
THEOREM SumConstant ==
  ASSUME NEW S, IsFiniteSet(S), NEW c \in Nat, NEW fun, \A x \in S : fun[x] = c
  PROVE  SumFunctionOnSet(fun, S) = Cardinality(S) * c
  <1>. DEFINE F == {s \in SUBSET S : SumFunctionOnSet(fun, s) # Cardinality(s) * c}
  <1>. SUFFICES ASSUME F # {} PROVE FALSE
    OBVIOUS
  <1>1. F \subseteq SUBSET S
    OBVIOUS
  <1>2. PICK s \in F : \A u \in F : u \subseteq s => u = s
    <2>1. IsFiniteSet(S)
      OBVIOUS
    <2>. HIDE DEF F
    <2>. QED BY <1>1, <2>1, MinimalSet
  <1>3. s # {}
    <2>1. Cardinality({}) * c = 0
      BY FS_EmptySet
    <2>2. SumFunctionOnSet(fun, {}) = 0
      BY SumEmpty
    <2>. QED BY <1>2, <2>1, <2>2
  <1>4. PICK x \in s : TRUE
    BY <1>3
  <1>5. IsFiniteSet(s) /\ \A y \in s : fun[y] \in Nat
    BY FS_Subset
  <1>6. SumFunctionOnSet(fun, s) = c + SumFunctionOnSet(fun, s \ {x})
    <2>1. fun[x] = c
      OBVIOUS
    <2>. HIDE DEF F
    <2>. QED BY <1>5, <2>1, SumRemove
  <1>7. SumFunctionOnSet(fun, s \ {x}) = Cardinality(s \ {x}) * c
    BY <1>2
  <1>8. Cardinality(s) \in Nat /\ Cardinality(s \ {x}) = Cardinality(s) - 1
    BY <1>5, FS_RemoveElement, FS_CardinalityType
  <1>9. c + (Cardinality(s) - 1) * c = Cardinality(s) * c
    BY <1>8
  <1>. QED BY <1>2, <1>6, <1>7, <1>8, <1>9
=============================================================================
