---------------------------- MODULE SumTheorems -----------------------------
(***************************************************************************)
(* What SumFunction of the Functions module computes on a finite domain,   *)
(* for any domain and any integers: the facts that the proofs about        *)
(* budgets and charges cite.  A recursive function is reasoned about with  *)
(* induction as a fact about sets of naturals, so that no operator has to  *)
(* be passed to a theorem.                                                 *)
(***************************************************************************)
EXTENDS Integers, Functions, FiniteSetTheorems, WellFoundedInduction, TLAPS

\* A nonempty set of naturals has a least element.
LEMMA LeastNatural ==
  ASSUME NEW T \in SUBSET Nat, T # {}
  PROVE  \E n \in T : \A m \in T : n <= m
<1>1. PICK n \in T : \A m \in T : ~(<<m, n>> \in OpToRel(<, Nat))
  BY NatLessThanWellFounded, WFMin
<1>2. \A m \in T : ~(m < n)
  BY <1>1 DEF OpToRel
<1>3. QED
  BY <1>2

\* Induction, for a set that holds zero and every successor of a member.
LEMMA InductiveSet ==
  ASSUME NEW A \in SUBSET Nat, 0 \in A, \A n \in A : n + 1 \in A
  PROVE  \A n \in Nat : n \in A
<1> SUFFICES ASSUME Nat \ A # {} PROVE FALSE
  OBVIOUS
<1>1. PICK n \in Nat \ A : \A m \in Nat \ A : n <= m
  BY LeastNatural
<1>2. n - 1 \in Nat /\ n - 1 \notin Nat \ A
  BY <1>1
<1>3. QED
  BY <1>1, <1>2

-----------------------------------------------------------------------------
(* The recursive function behind SumFunction has one solution. *)

Pick(s) == CHOOSE x \in s : TRUE

Summed(F, f, s) == IF s = {} THEN 0 ELSE f[Pick(s)] + F[s \ {Pick(s)}]

Sums(F, f, S) == F = [s \in SUBSET S |-> Summed(F, f, s)]

LEMMA SumIsRecursive ==
  ASSUME NEW f, NEW S
  PROVE  SumFunctionOnSet(f, S) = (CHOOSE F : Sums(F, f, S))[S]
BY DEF SumFunctionOnSet, FoldFunctionOnSet, MapThenFoldSet, Sums, Summed, Pick

LEMMA Smaller ==
  ASSUME NEW S, IsFiniteSet(S), NEW s \in SUBSET S, NEW x \in s
  PROVE  /\ Cardinality(s) \in Nat /\ Cardinality(s) >= 1
         /\ s \ {x} \in SUBSET S
         /\ Cardinality(s \ {x}) = Cardinality(s) - 1
<1>1. IsFiniteSet(s)
  BY FS_Subset
<1>2. s # {} /\ Cardinality(s) \in Nat /\ Cardinality(s \ {x}) = Cardinality(s) - 1
      /\ Cardinality(s \ {x}) \in Nat
  BY <1>1, FS_CardinalityType, FS_RemoveElement
<1>3. QED
  BY <1>2

LEMMA AnyIsMember ==
  ASSUME NEW s, s # {}
  PROVE  Pick(s) \in s
BY DEF Pick

LEMMA SumExists ==
  ASSUME NEW S, IsFiniteSet(S), NEW f, \A x \in S : f[x] \in Int
  PROVE  \E F \in [SUBSET S -> Int] : Sums(F, f, S)
<1> DEFINE Upto(n, F) ==
      \A s \in SUBSET S : Cardinality(s) <= n => F[s] = Summed(F, f, s)
    A == {n \in Nat : \E F \in [SUBSET S -> Int] : Upto(n, F)}
<1>0. \A s \in SUBSET S : IsFiniteSet(s) /\ Cardinality(s) \in Nat
  BY FS_Subset, FS_CardinalityType
<1>1. 0 \in A
  <2> DEFINE F == [s \in SUBSET S |-> 0]
  <2>1. \A s \in SUBSET S : Cardinality(s) <= 0 => s = {}
    BY <1>0, FS_EmptySet
  <2>2. Upto(0, F)
    BY <2>1 DEF Summed
  <2>3. F \in [SUBSET S -> Int]
    OBVIOUS
  <2>4. QED
    BY <2>2, <2>3
<1>2. ASSUME NEW n \in A PROVE n + 1 \in A
  <2>1. PICK F \in [SUBSET S -> Int] : Upto(n, F)
    OBVIOUS
  <2> DEFINE G == [s \in SUBSET S |-> Summed(F, f, s)]
  <2>2. ASSUME NEW s \in SUBSET S PROVE Summed(F, f, s) \in Int
    BY AnyIsMember DEF Summed
  <2>3. G \in [SUBSET S -> Int]
    BY <2>2
  <2>4. ASSUME NEW s \in SUBSET S, Cardinality(s) <= n + 1
        PROVE  G[s] = Summed(G, f, s)
    <3>1. CASE s = {}
      BY <3>1 DEF Summed
    <3>2. CASE s # {}
      <4>1. /\ Pick(s) \in s /\ s \ {Pick(s)} \in SUBSET S
            /\ Cardinality(s \ {Pick(s)}) <= n
        BY <3>2, <2>4, AnyIsMember, Smaller, <1>0
      <4>2. G[s \ {Pick(s)}] = F[s \ {Pick(s)}]
        BY <4>1, <2>1
      <4>3. QED
        BY <3>2, <4>2 DEF Summed
    <3>3. QED
      BY <3>1, <3>2
  <2> HIDE DEF G
  <2>5. Upto(n + 1, G)
    BY <2>4
  <2>6. QED
    BY <2>3, <2>5
<1>3. Cardinality(S) \in A
  <2> HIDE DEF A
  <2>1. A \in SUBSET Nat
    BY DEF A
  <2>2. QED
    BY <1>1, <1>2, <2>1, InductiveSet, FS_CardinalityType
<1>4. PICK F \in [SUBSET S -> Int] : Upto(Cardinality(S), F)
  BY <1>3
<1>5. ASSUME NEW s \in SUBSET S PROVE F[s] = Summed(F, f, s)
  BY <1>4, FS_Subset
<1>6. QED
  BY <1>5 DEF Sums

\* Two solutions agree where they are both defined, even of functions that
\* are defined elsewhere too.
LEMMA SumIsUnique ==
  ASSUME NEW S, IsFiniteSet(S), NEW T \in SUBSET S, NEW f, NEW g,
         \A x \in T : f[x] = g[x],
         NEW F, Sums(F, f, S), NEW G, Sums(G, g, T)
  PROVE  G[T] = F[T]
<1> DEFINE A == {n \in Nat : \A s \in SUBSET T : Cardinality(s) <= n => F[s] = G[s]}
<1>0. \A s \in SUBSET T : s \in SUBSET S /\ IsFiniteSet(s) /\ Cardinality(s) \in Nat
  BY FS_Subset, FS_CardinalityType
<1>1. \A s \in SUBSET T : F[s] = Summed(F, f, s) /\ G[s] = Summed(G, g, s)
  BY <1>0 DEF Sums
<1>2. 0 \in A
  <2>1. \A s \in SUBSET T : Cardinality(s) <= 0 => s = {}
    BY <1>0, FS_EmptySet
  <2>2. F[{}] = 0 /\ G[{}] = 0
    BY <1>1 DEF Summed
  <2>3. QED
    BY <2>1, <2>2
<1>3. ASSUME NEW n \in A PROVE n + 1 \in A
  <2>1. ASSUME NEW s \in SUBSET T, Cardinality(s) <= n + 1 PROVE F[s] = G[s]
    <3>1. CASE s = {}
      BY <3>1, <1>1 DEF Summed
    <3>2. CASE s # {}
      <4>1. /\ Pick(s) \in s /\ s \ {Pick(s)} \in SUBSET T
            /\ Cardinality(s \ {Pick(s)}) <= n
        BY <3>2, <2>1, AnyIsMember, Smaller, <1>0
      <4>2. F[s \ {Pick(s)}] = G[s \ {Pick(s)}] /\ f[Pick(s)] = g[Pick(s)]
        BY <4>1
      <4>3. QED
        BY <3>2, <4>2, <1>1 DEF Summed
    <3>3. QED
      BY <3>1, <3>2
  <2>2. QED
    BY <2>1
<1>4. Cardinality(T) \in A
  <2> HIDE DEF A
  <2>1. A \in SUBSET Nat
    BY DEF A
  <2>2. QED
    BY <1>2, <1>3, <2>1, <1>0, InductiveSet
<1>5. QED
  BY <1>4, <1>0

\* F tells the sum of f over every part of S.
Solves(F, f, S) ==
  /\ F \in [SUBSET S -> Int]
  /\ Sums(F, f, S)
  /\ \A T \in SUBSET S : SumFunctionOnSet(f, T) = F[T]

LEMMA SumIsSolution ==
  ASSUME NEW S, IsFiniteSet(S), NEW f, \A x \in S : f[x] \in Int
  PROVE  \E F : Solves(F, f, S)
<1>1. PICK F \in [SUBSET S -> Int] : Sums(F, f, S)
  BY SumExists
<1>2. ASSUME NEW T \in SUBSET S PROVE SumFunctionOnSet(f, T) = F[T]
  <2>1. SumFunctionOnSet(f, T) = (CHOOSE G : Sums(G, f, T))[T]
    BY SumIsRecursive
  <2>2. IsFiniteSet(T) /\ \A x \in T : f[x] \in Int
    BY FS_Subset
  <2>3. PICK G \in [SUBSET T -> Int] : Sums(G, f, T)
    BY <2>2, SumExists
  <2>4. Sums(CHOOSE H : Sums(H, f, T), f, T)
    BY <2>3
  <2> DEFINE C == CHOOSE H : Sums(H, f, T)
  <2> HIDE DEF C
  <2>5. Sums(C, f, T) /\ SumFunctionOnSet(f, T) = C[T]
    BY <2>1, <2>4 DEF C
  <2>6. QED
    BY <2>5, <1>1, SumIsUnique
<1>3. QED
  BY <1>1, <1>2 DEF Solves

TakesOut(F, f, S) == \A s \in SUBSET S : \A x \in s : F[s] = f[x] + F[s \ {x}]

LEMMA SolutionRemove ==
  ASSUME NEW S, IsFiniteSet(S), NEW f, \A x \in S : f[x] \in Int,
         NEW F, Solves(F, f, S)
  PROVE  TakesOut(F, f, S)
<1> DEFINE A == {n \in Nat : \A s \in SUBSET S : \A x \in s :
                  Cardinality(s) <= n => F[s] = f[x] + F[s \ {x}]}
<1>0. \A s \in SUBSET S : IsFiniteSet(s) /\ Cardinality(s) \in Nat
  BY FS_Subset, FS_CardinalityType
<1>1. \A s \in SUBSET S : F[s] = Summed(F, f, s) /\ F[s] \in Int
  BY DEF Solves, Sums
<1>2. 0 \in A
  <2>1. \A s \in SUBSET S : Cardinality(s) <= 0 => s = {}
    BY <1>0, FS_EmptySet
  <2>2. QED
    BY <2>1
<1>3. ASSUME NEW n \in A PROVE n + 1 \in A
  <2>1. ASSUME NEW s \in SUBSET S, NEW x \in s, Cardinality(s) <= n + 1
        PROVE  F[s] = f[x] + F[s \ {x}]
    <3> DEFINE p == Pick(s)
    <3>1. p \in s /\ F[s] = f[p] + F[s \ {p}]
      BY <1>1, AnyIsMember DEF Summed
    <3> HIDE DEF p
    <3>2. CASE x = p
      BY <3>1, <3>2
    <3>3. CASE x # p
      <4>1. /\ s \ {p} \in SUBSET S /\ x \in s \ {p} /\ Cardinality(s \ {p}) <= n
            /\ s \ {x} \in SUBSET S /\ p \in s \ {x} /\ Cardinality(s \ {x}) <= n
        BY <3>1, <3>3, <2>1, Smaller, <1>0
      <4> DEFINE rest == s \ {p, x}
      <4>2. (s \ {p}) \ {x} = rest /\ (s \ {x}) \ {p} = rest /\ rest \in SUBSET S
        OBVIOUS
      <4> HIDE DEF rest
      <4>3. F[s \ {p}] = f[x] + F[rest]
        BY <4>1, <4>2
      <4>4. F[s \ {x}] = f[p] + F[rest]
        BY <4>1, <4>2
      <4>5. f[x] \in Int /\ f[p] \in Int /\ F[rest] \in Int
        BY <3>1, <4>2, <1>1
      <4>6. F[s] = f[p] + (f[x] + F[rest])
        BY <3>1, <4>3
      <4>7. f[p] + (f[x] + F[rest]) = f[x] + (f[p] + F[rest])
        BY <4>5
      <4>8. QED
        BY <4>4, <4>6, <4>7
    <3>4. QED
      BY <3>2, <3>3
  <2>2. QED
    BY <2>1
<1>4. \A n \in Nat : n \in A
  <2> HIDE DEF A
  <2>1. A \in SUBSET Nat
    BY DEF A
  <2>2. QED
    BY <1>2, <1>3, <2>1, InductiveSet
<1>5. ASSUME NEW s \in SUBSET S, NEW x \in s PROVE F[s] = f[x] + F[s \ {x}]
  <2>1. Cardinality(s) \in Nat /\ Cardinality(s) <= Cardinality(s) /\ Cardinality(s) \in A
    BY <1>4, <1>0
  <2>2. QED
    BY <2>1
<1>6. QED
  BY <1>5 DEF TakesOut

-----------------------------------------------------------------------------
(* What proofs about sums cite. *)

\* A sum of integers is an integer, and 0 when there are none.
THEOREM SumOfIntegers ==
  ASSUME NEW S, IsFiniteSet(S), NEW f, \A x \in S : f[x] \in Int
  PROVE  /\ SumFunctionOnSet(f, S) \in Int
         /\ SumFunctionOnSet(f, {}) = 0
<1>1. PICK F : Solves(F, f, S)
  BY SumIsSolution
<1>2. {} \in SUBSET S /\ S \in SUBSET S
  OBVIOUS
<1>3. F[{}] = 0
  BY <1>1, <1>2 DEF Solves, Sums, Summed
<1>4. QED
  BY <1>1, <1>2, <1>3 DEF Solves

\* Any one term can be taken out of a sum.
THEOREM SumTakeOne ==
  ASSUME NEW S, IsFiniteSet(S), NEW f, \A x \in S : f[x] \in Int, NEW x \in S
  PROVE  SumFunctionOnSet(f, S) = f[x] + SumFunctionOnSet(f, S \ {x})
<1>1. PICK F : Solves(F, f, S)
  BY SumIsSolution
<1>2. S \ {x} \in SUBSET S /\ S \in SUBSET S
  OBVIOUS
<1>3. F[S] = f[x] + F[S \ {x}]
  BY <1>1, <1>2, SolutionRemove DEF TakesOut
<1>4. QED
  BY <1>1, <1>2, <1>3 DEF Solves

\* Larger terms make a larger sum.
THEOREM SumIsMonotone ==
  ASSUME NEW S, IsFiniteSet(S), NEW f, NEW g,
         \A x \in S : f[x] \in Int /\ g[x] \in Int /\ f[x] <= g[x]
  PROVE  SumFunctionOnSet(f, S) <= SumFunctionOnSet(g, S)
<1>1. PICK F : Solves(F, f, S)
  BY SumIsSolution
<1>2. PICK G : Solves(G, g, S)
  BY SumIsSolution
<1> DEFINE A == {n \in Nat : \A s \in SUBSET S : Cardinality(s) <= n => F[s] <= G[s]}
<1>0. \A s \in SUBSET S : IsFiniteSet(s) /\ Cardinality(s) \in Nat
  BY FS_Subset, FS_CardinalityType
<1>3. F[{}] = 0 /\ G[{}] = 0
  <2>1. {} \in SUBSET S
    OBVIOUS
  <2>2. QED
    BY <2>1, <1>1, <1>2 DEF Solves, Sums, Summed
<1>4. 0 \in A
  <2>1. ASSUME NEW s \in SUBSET S, Cardinality(s) <= 0 PROVE F[s] <= G[s]
    <3>1. s = {}
      BY <2>1, <1>0, FS_EmptySet
    <3>2. QED
      BY <3>1, <1>3
  <2>2. QED
    BY <2>1
<1>5. ASSUME NEW n \in A PROVE n + 1 \in A
  <2>1. ASSUME NEW s \in SUBSET S, Cardinality(s) <= n + 1 PROVE F[s] <= G[s]
    <3>1. CASE s = {}
      BY <3>1, <1>3
    <3>2. CASE s # {}
      <4>1. PICK x \in s : TRUE
        BY <3>2
      <4>2. s \ {x} \in SUBSET S /\ Cardinality(s \ {x}) <= n
        BY <4>1, <2>1, Smaller, <1>0
      <4>3. F[s \ {x}] <= G[s \ {x}] /\ f[x] <= g[x]
        BY <4>2
      <4>4. /\ F[s \ {x}] \in Int /\ G[s \ {x}] \in Int
            /\ f[x] \in Int /\ g[x] \in Int
        BY <4>2, <1>1, <1>2 DEF Solves
      <4>5. F[s] = f[x] + F[s \ {x}] /\ G[s] = g[x] + G[s \ {x}]
        BY <1>1, <1>2, SolutionRemove DEF TakesOut
      <4>6. QED
        BY <4>3, <4>4, <4>5
    <3>3. QED
      BY <3>1, <3>2
  <2>2. QED
    BY <2>1
<1>6. Cardinality(S) \in A
  <2> HIDE DEF A
  <2>1. A \in SUBSET Nat
    BY DEF A
  <2>2. QED
    BY <1>4, <1>5, <2>1, <1>0, InductiveSet
<1>7. F[S] <= G[S]
  BY <1>6, <1>0
<1>8. QED
  BY <1>1, <1>2, <1>7 DEF Solves

\* A sum depends on its terms only.
THEOREM SumOfEqual ==
  ASSUME NEW S, IsFiniteSet(S), NEW f, NEW g,
         \A x \in S : f[x] \in Int /\ g[x] = f[x]
  PROVE  SumFunctionOnSet(g, S) = SumFunctionOnSet(f, S)
<1>1. \A x \in S : f[x] \in Int /\ g[x] \in Int /\ f[x] <= g[x] /\ g[x] <= f[x]
  OBVIOUS
<1>2. SumFunctionOnSet(f, S) \in Int /\ SumFunctionOnSet(g, S) \in Int
  BY <1>1, SumOfIntegers
<1>3. SumFunctionOnSet(f, S) <= SumFunctionOnSet(g, S)
  BY <1>1, SumIsMonotone
<1>4. SumFunctionOnSet(g, S) <= SumFunctionOnSet(f, S)
  BY <1>1, SumIsMonotone
<1>5. QED
  BY <1>2, <1>3, <1>4

\* The sum of a function restricted to a part of its domain.
THEOREM SumOfPart ==
  ASSUME NEW S, IsFiniteSet(S), NEW f, \A x \in S : f[x] \in Int, NEW T \in SUBSET S
  PROVE  SumFunction([x \in T |-> f[x]]) = SumFunctionOnSet(f, T)
<1> DEFINE g == [x \in T |-> f[x]]
<1>1. IsFiniteSet(T) /\ \A x \in T : f[x] \in Int /\ g[x] = f[x]
  BY FS_Subset
<1>2. SumFunction(g) = SumFunctionOnSet(g, T)
  BY DEF SumFunction
<1> HIDE DEF g
<1>3. SumFunctionOnSet(g, T) = SumFunctionOnSet(f, T)
  BY <1>1, SumOfEqual
<1>4. QED
  BY <1>2, <1>3 DEF g

\* A sum of natural numbers is one, and is at least what a part comes to.
THEOREM SumOfNaturals ==
  ASSUME NEW S, IsFiniteSet(S), NEW f, \A x \in S : f[x] \in Nat
  PROVE  /\ SumFunctionOnSet(f, S) \in Nat
         /\ \A T \in SUBSET S : SumFunctionOnSet(f, T) <= SumFunctionOnSet(f, S)
<1>1. PICK F : Solves(F, f, S)
  BY SumIsSolution
<1> DEFINE A == {n \in Nat : \A s \in SUBSET S : Cardinality(s) <= n =>
                                  \A T \in SUBSET s : F[T] <= F[s]}
<1>0. \A s \in SUBSET S : IsFiniteSet(s) /\ Cardinality(s) \in Nat
  BY FS_Subset, FS_CardinalityType
<1>2. \A s \in SUBSET S : F[s] \in Int /\ F[{}] = 0
  <2>1. {} \in SUBSET S
    OBVIOUS
  <2>2. QED
    BY <2>1, <1>1 DEF Solves, Sums, Summed
<1>3. 0 \in A
  <2>1. ASSUME NEW s \in SUBSET S, Cardinality(s) <= 0, NEW T \in SUBSET s
        PROVE  F[T] <= F[s]
    <3>1. s = {} /\ T = {}
      BY <2>1, <1>0, FS_EmptySet
    <3>2. QED
      BY <3>1, <1>2
  <2>2. QED
    BY <2>1
<1>4. ASSUME NEW n \in A PROVE n + 1 \in A
  <2>1. ASSUME NEW s \in SUBSET S, Cardinality(s) <= n + 1, NEW T \in SUBSET s
        PROVE  F[T] <= F[s]
    <3>1. CASE T = s
      BY <3>1, <1>2
    <3>2. CASE T # s
      <4>1. PICK x \in s : x \notin T
        BY <3>2
      <4>2. /\ s \ {x} \in SUBSET S /\ Cardinality(s \ {x}) <= n
            /\ T \in SUBSET (s \ {x}) /\ T \in SUBSET S
        BY <4>1, <2>1, Smaller, <1>0
      <4>3. F[T] <= F[s \ {x}]
        BY <4>2
      <4>4. F[s] = f[x] + F[s \ {x}]
        BY <1>1, SolutionRemove DEF TakesOut
      <4>5. F[T] \in Int /\ F[s \ {x}] \in Int /\ f[x] \in Nat
        BY <4>2, <1>2
      <4>6. QED
        BY <4>3, <4>4, <4>5
    <3>3. QED
      BY <3>1, <3>2
  <2>2. QED
    BY <2>1
<1>5. Cardinality(S) \in A
  <2> HIDE DEF A
  <2>1. A \in SUBSET Nat
    BY DEF A
  <2>2. QED
    BY <1>3, <1>4, <2>1, <1>0, InductiveSet
<1>6. \A T \in SUBSET S : F[T] <= F[S]
  BY <1>5, <1>0
<1>7. {} \in SUBSET S /\ S \in SUBSET S
  OBVIOUS
<1>8. F[S] \in Nat
  BY <1>2, <1>6, <1>7
<1>9. QED
  BY <1>1, <1>6, <1>7, <1>8 DEF Solves

\* Terms that are 0 may be left out.
THEOREM SumOfZeros ==
  ASSUME NEW S, IsFiniteSet(S), NEW f, \A x \in S : f[x] \in Int, NEW T \in SUBSET S,
         \A x \in S \ T : f[x] = 0
  PROVE  SumFunctionOnSet(f, S) = SumFunctionOnSet(f, T)
<1>1. PICK F : Solves(F, f, S)
  BY SumIsSolution
<1>2. TakesOut(F, f, S)
  BY <1>1, SolutionRemove
<1> DEFINE A == {n \in Nat : \A s \in SUBSET S :
                  T \subseteq s /\ Cardinality(s) <= n => F[s] = F[T]}
<1>0. \A s \in SUBSET S : IsFiniteSet(s) /\ Cardinality(s) \in Nat
  BY FS_Subset, FS_CardinalityType
<1>3. 0 \in A
  <2>1. ASSUME NEW s \in SUBSET S, T \subseteq s, Cardinality(s) <= 0 PROVE F[s] = F[T]
    <3>1. s = {} /\ T = {}
      BY <2>1, <1>0, FS_EmptySet
    <3>2. QED
      BY <3>1
  <2>2. QED
    BY <2>1
<1>4. ASSUME NEW n \in A PROVE n + 1 \in A
  <2>1. ASSUME NEW s \in SUBSET S, T \subseteq s, Cardinality(s) <= n + 1 PROVE F[s] = F[T]
    <3>1. CASE T = s
      BY <3>1
    <3>2. CASE T # s
      <4>1. PICK x \in s : x \notin T
        BY <3>2, <2>1
      <4>2. s \ {x} \in SUBSET S /\ Cardinality(s \ {x}) <= n /\ T \subseteq s \ {x}
        BY <4>1, <2>1, Smaller, <1>0
      <4>3. F[s \ {x}] = F[T]
        BY <4>2
      <4>4. F[s] = f[x] + F[s \ {x}] /\ f[x] = 0 /\ F[T] \in Int
        <5>1. F[s] = f[x] + F[s \ {x}]
          BY <1>2 DEF TakesOut
        <5>2. f[x] = 0
          BY <4>1
        <5>3. F[T] \in Int
          BY <1>1 DEF Solves
        <5>4. QED
          BY <5>1, <5>2, <5>3
      <4>5. QED
        BY <4>3, <4>4
    <3>3. QED
      BY <3>1, <3>2
  <2>2. QED
    BY <2>1
<1>5. Cardinality(S) \in A
  <2> HIDE DEF A
  <2>1. A \in SUBSET Nat
    BY DEF A
  <2>2. QED
    BY <1>3, <1>4, <2>1, <1>0, InductiveSet
<1>6. F[S] = F[T]
  BY <1>5, <1>0
<1>7. QED
  BY <1>1, <1>6 DEF Solves

\* Changing one term changes the sum by as much.
THEOREM SumChangeOne ==
  ASSUME NEW S, IsFiniteSet(S), NEW f, NEW g, NEW x \in S,
         \A y \in S : f[y] \in Int /\ g[y] \in Int,
         \A y \in S \ {x} : g[y] = f[y]
  PROVE  SumFunctionOnSet(g, S) = SumFunctionOnSet(f, S) - f[x] + g[x]
<1>1. SumFunctionOnSet(f, S) = f[x] + SumFunctionOnSet(f, S \ {x})
  BY SumTakeOne
<1>2. SumFunctionOnSet(g, S) = g[x] + SumFunctionOnSet(g, S \ {x})
  BY SumTakeOne
<1>3. IsFiniteSet(S \ {x})
  BY FS_Subset
<1>4. SumFunctionOnSet(g, S \ {x}) = SumFunctionOnSet(f, S \ {x})
  BY <1>3, SumOfEqual
<1>5. SumFunctionOnSet(f, S \ {x}) \in Int
  BY <1>3, SumOfIntegers
<1>6. QED
  BY <1>1, <1>2, <1>4, <1>5
============================================================================
