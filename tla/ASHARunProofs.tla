---------------------------- MODULE ASHARunProofs ----------------------------
(***************************************************************************)
(* Proofs about ASHARun, for any number of candidates, workers, rungs,     *)
(* retries and starts of the run, and any scores: how many trials a rung   *)
(* promotes and which, that a decision on disk replays, that all decisions *)
(* were made by one start, and that a run that ends has settled every      *)
(* trial.                                                                  *)
(***************************************************************************)
EXTENDS ASHARun, SumTheorems, SequenceTheorems

-----------------------------------------------------------------------------
(* The pool: permits and the queue for them *)

PoolShape(h, q) ==
  /\ h \subseteq Experiment /\ IsFiniteSet(h) /\ Cardinality(h) <= Workers
  /\ q \in Seq(Experiment) /\ IsInjective(q)
  /\ Range(q) \cap h = {}

\* The first k of a sequence, and those after them.
LEMMA HeadAndRest ==
  ASSUME NEW S, NEW q \in Seq(S), IsInjective(q), NEW k \in 0..Len(q)
  PROVE  LET rest == SubSeq(q, k + 1, Len(q))
         IN /\ rest \in Seq(S) /\ IsInjective(rest)
            /\ \A i \in 1..k : q[i] \notin Range(rest)
            /\ Range(q) = {q[i] : i \in 1..k} \cup Range(rest)
<1> DEFINE rest == SubSeq(q, k + 1, Len(q))
<1>1. /\ rest \in Seq(S) /\ Len(rest) = Len(q) - k /\ Len(q) \in Nat
      /\ \A i \in 1..(Len(q) - k) : rest[i] = q[i + k]
  OBVIOUS
<1>2. DOMAIN rest = 1..(Len(q) - k) /\ DOMAIN q = 1..Len(q)
  BY <1>1
<1> HIDE DEF rest
<1>3. IsInjective(rest)
  <2> SUFFICES ASSUME NEW i \in 1..(Len(q) - k), NEW j \in 1..(Len(q) - k), rest[i] = rest[j]
      PROVE i = j
    BY <1>2 DEF IsInjective
  <2>1. i + k \in DOMAIN q /\ j + k \in DOMAIN q /\ q[i + k] = q[j + k]
    BY <1>1, <1>2
  <2>2. i + k = j + k
    BY <2>1 DEF IsInjective
  <2>3. QED
    BY <1>1, <2>2
<1>4. \A i \in 1..k : q[i] \notin Range(rest)
  <2> SUFFICES ASSUME NEW i \in 1..k, NEW j \in 1..(Len(q) - k), q[i] = rest[j] PROVE FALSE
    BY <1>2 DEF Range
  <2>1. i \in DOMAIN q /\ j + k \in DOMAIN q /\ q[i] = q[j + k]
    BY <1>1, <1>2
  <2>2. i = j + k
    BY <2>1 DEF IsInjective
  <2>3. QED
    BY <1>1, <2>2
<1>5. Range(q) \subseteq {q[i] : i \in 1..k} \cup Range(rest)
  <2> SUFFICES ASSUME NEW i \in 1..Len(q), ~(i <= k) PROVE q[i] \in Range(rest)
    BY <1>2 DEF Range
  <2>1. i - k \in DOMAIN rest /\ rest[i - k] = q[i]
    BY <1>1, <1>2
  <2>2. QED
    BY <2>1 DEF Range
<1>6. {q[i] : i \in 1..k} \cup Range(rest) \subseteq Range(q)
  <2>1. \A i \in 1..k : i \in DOMAIN q
    BY <1>1, <1>2
  <2>2. \A i \in DOMAIN rest : i + k \in DOMAIN q /\ rest[i] = q[i + k]
    BY <1>1, <1>2
  <2>3. QED
    BY <2>1, <2>2 DEF Range
<1>7. QED
  BY <1>1, <1>3, <1>4, <1>5, <1>6 DEF rest

LEMMA Placed ==
  ASSUME NEW h, NEW q, PoolShape(h, q), Place(h, q)
  PROVE  /\ PoolShape(holding', queue')
         /\ holding' \cup Range(queue') = h \cup Range(q)
<1> DEFINE k == Min2(Len(q), Workers - Cardinality(h))
           H == {q[i] : i \in 1..k}
<1>1. holding' = h \cup H /\ queue' = SubSeq(q, k + 1, Len(q))
  BY DEF Place
<1>2. Cardinality(h) \in Nat /\ Len(q) \in Nat /\ Workers \in Nat
  BY FS_CardinalityType, RunAssumption DEF PoolShape
<1>3. k \in 0..Len(q) /\ k <= Workers - Cardinality(h)
  BY <1>2 DEF Min2, PoolShape
<1> HIDE DEF k
<1>4. /\ queue' \in Seq(Experiment) /\ IsInjective(queue')
      /\ \A i \in 1..k : q[i] \notin Range(queue')
      /\ Range(q) = H \cup Range(queue')
  BY <1>1, <1>3, HeadAndRest DEF PoolShape
<1>5. IsFiniteSet(H) /\ Cardinality(H) <= k
  <2>1. IsFiniteSet(1..k) /\ Cardinality(1..k) = k
    BY <1>2, <1>3, FS_Interval
  <2> DEFINE f == [i \in 1..k |-> q[i]]
  <2>2. f \in Surjection(1..k, H)
    BY DEF Surjection
  <2>3. QED
    BY <2>1, <2>2, FS_Surjection
<1>6. IsFiniteSet(holding') /\ Cardinality(holding') <= Workers
  <2>1. /\ IsFiniteSet(h \cup H)
        /\ Cardinality(h \cup H) = Cardinality(h) + Cardinality(H) - Cardinality(h \cap H)
    BY <1>5, FS_Union DEF PoolShape
  <2>2. Cardinality(h \cap H) \in Nat /\ Cardinality(H) \in Nat
    BY <1>5, FS_Intersection, FS_CardinalityType DEF PoolShape
  <2>3. QED
    BY <1>1, <1>2, <1>3, <1>5, <2>1, <2>2
<1>7. holding' \subseteq Experiment
  BY <1>1, <1>2, <1>3 DEF PoolShape
<1>8. Range(queue') \cap holding' = {}
  BY <1>1, <1>4 DEF PoolShape
<1>9. QED
  BY <1>1, <1>4, <1>6, <1>7, <1>8 DEF PoolShape

\* One more at the end of a sequence that does not have it yet.
LEMMA Appended ==
  ASSUME NEW S, NEW q \in Seq(S), IsInjective(q), NEW e \in S, e \notin Range(q)
  PROVE  /\ Append(q, e) \in Seq(S) /\ IsInjective(Append(q, e))
         /\ Range(Append(q, e)) = Range(q) \cup {e}
<1> DEFINE s == Append(q, e)
           n == Len(q)
<1>1. n \in Nat /\ DOMAIN q = 1..n
  OBVIOUS
<1>2. /\ s \in Seq(S) /\ DOMAIN s = 1..(n + 1)
      /\ s[n + 1] = e /\ \A i \in 1..n : s[i] = q[i]
  BY <1>1
<1> HIDE DEF s, n
<1>3. Range(s) = Range(q) \cup {e}
  <2>1. Range(s) \subseteq Range(q) \cup {e}
    BY <1>1, <1>2 DEF Range
  <2>2. Range(q) \cup {e} \subseteq Range(s)
    BY <1>1, <1>2 DEF Range
  <2>3. QED
    BY <2>1, <2>2
<1>4. IsInjective(s)
  <2>1. \A i \in 1..n : q[i] # e
    BY <1>1 DEF Range
  <2>2. QED
    BY <1>1, <1>2, <2>1 DEF IsInjective
<1>5. QED
  BY <1>2, <1>3, <1>4 DEF s

LEMMA Queued ==
  ASSUME NEW h, NEW q, PoolShape(h, q), NEW e \in Experiment, e \notin h \cup Range(q)
  PROVE  PoolShape(h, Append(q, e)) /\ Range(Append(q, e)) = Range(q) \cup {e}
<1>1. q \in Seq(Experiment) /\ IsInjective(q)
  BY DEF PoolShape
<1>2. /\ Append(q, e) \in Seq(Experiment) /\ IsInjective(Append(q, e))
      /\ Range(Append(q, e)) = Range(q) \cup {e}
  BY <1>1, Appended
<1>3. QED
  BY <1>2 DEF PoolShape

LEMMA Dequeued ==
  ASSUME NEW h, NEW q, PoolShape(h, q), NEW k \in DOMAIN q
  PROVE  PoolShape(h, RemoveAt(q, k)) /\ Range(RemoveAt(q, k)) = Range(q) \ {q[k]}
<1> DEFINE s == RemoveAt(q, k)
           n == Len(q)
<1>1. q \in Seq(Experiment) /\ n \in Nat /\ DOMAIN q = 1..n /\ k \in 1..n
  BY DEF PoolShape
<1> DEFINE u == SubSeq(q, 1, k - 1)
           v == SubSeq(q, k + 1, n)
<1>2. /\ s \in Seq(Experiment) /\ DOMAIN s = 1..(n - 1)
      /\ \A i \in 1..(n - 1) : s[i] = IF i < k THEN q[i] ELSE q[i + 1]
  <2>1. /\ u \in Seq(Experiment) /\ Len(u) = k - 1
        /\ \A i \in 1..(k - 1) : u[i] = q[i]
    BY <1>1
  <2>2. /\ v \in Seq(Experiment) /\ Len(v) = n - k
        /\ \A i \in 1..(n - k) : v[i] = q[i + k]
    BY <1>1
  <2>3. s = u \o v
    BY DEF RemoveAt
  <2> HIDE DEF s, u, v
  <2>4. /\ s \in Seq(Experiment) /\ Len(s) = n - 1
        /\ \A i \in 1..(n - 1) : s[i] = IF i <= k - 1 THEN u[i] ELSE v[i - (k - 1)]
    <3>1. Len(u) + Len(v) = n - 1
      BY <1>1, <2>1, <2>2
    <3>2. /\ u \o v \in Seq(Experiment) /\ Len(u \o v) = Len(u) + Len(v)
          /\ \A i \in 1..(Len(u) + Len(v)) :
               (u \o v)[i] = IF i <= Len(u) THEN u[i] ELSE v[i - Len(u)]
      <4>1. u \in Seq(Experiment) /\ v \in Seq(Experiment)
        BY <2>1, <2>2
      <4>2. QED
        BY <4>1, ConcatProperties, Zenon
    <3>3. QED
      BY <2>1, <2>3, <3>1, <3>2
  <2>5. ASSUME NEW i \in 1..(n - 1) PROVE s[i] = IF i < k THEN q[i] ELSE q[i + 1]
    <3>1. CASE i < k
      BY <1>1, <2>1, <2>4, <3>1
    <3>2. CASE ~(i < k)
      <4>1. i - (k - 1) \in 1..(n - k) /\ (i - (k - 1)) + k = i + 1
        BY <1>1, <3>2
      <4>2. s[i] = v[i - (k - 1)]
        BY <1>1, <2>4, <3>2
      <4>3. QED
        BY <2>2, <3>2, <4>1, <4>2
    <3>3. QED
      BY <3>1, <3>2
  <2>6. QED
    BY <2>4, <2>5
<1> HIDE DEF s, n
<1>0. ASSUME NEW i \in 1..(n - 1)
      PROVE  \E j \in 1..n : j = (IF i < k THEN i ELSE i + 1) /\ j # k /\ s[i] = q[j]
  BY <1>1, <1>2
<1>3. IsInjective(s)
  <2> SUFFICES ASSUME NEW i \in 1..(n - 1), NEW j \in 1..(n - 1), s[i] = s[j] PROVE i = j
    BY <1>2 DEF IsInjective
  <2>1. (IF i < k THEN i ELSE i + 1) = (IF j < k THEN j ELSE j + 1)
    BY <1>0, <1>1 DEF PoolShape, IsInjective
  <2>2. QED
    BY <1>1, <2>1
<1>4. Range(s) \subseteq Range(q) \ {q[k]}
  <2> SUFFICES ASSUME NEW i \in 1..(n - 1) PROVE s[i] \in Range(q) /\ s[i] # q[k]
    BY <1>2 DEF Range
  <2>1. PICK j \in 1..n : j # k /\ s[i] = q[j]
    BY <1>0
  <2>2. q[j] # q[k]
    BY <1>1, <2>1 DEF PoolShape, IsInjective
  <2>3. QED
    BY <1>1, <2>1, <2>2 DEF Range
<1>5. Range(q) \ {q[k]} \subseteq Range(s)
  <2> SUFFICES ASSUME NEW i \in 1..n, i # k PROVE q[i] \in Range(s)
    BY <1>1 DEF Range
  <2>1. CASE i < k
    BY <1>1, <1>2, <2>1 DEF Range
  <2>2. CASE i > k
    <3>1. i - 1 \in DOMAIN s /\ s[i - 1] = q[i]
      BY <1>1, <1>2, <2>2
    <3>2. QED
      BY <3>1 DEF Range
  <2>3. QED
    BY <1>1, <2>1, <2>2
<1>6. QED
  BY <1>2, <1>3, <1>4, <1>5 DEF PoolShape, s

LEMMA Released ==
  ASSUME NEW h, NEW q, PoolShape(h, q), NEW e \in h
  PROVE  PoolShape(h \ {e}, q)
<1>1. IsFiniteSet(h \ {e}) /\ Cardinality(h \ {e}) <= Cardinality(h)
  BY FS_Subset DEF PoolShape
<1>2. Cardinality(h \ {e}) \in Nat /\ Cardinality(h) \in Nat
  BY <1>1, FS_CardinalityType DEF PoolShape
<1>3. QED
  BY <1>1, <1>2, RunAssumption DEF PoolShape
-----------------------------------------------------------------------------
(* Functions computed step by step *)

Follows(f, base, N, T) == f[0] = base /\ \A n \in 1..N : f[n] = T[n][f[n - 1]]

\* A function whose values follow one from another exists.
LEMMA Iterated ==
  ASSUME NEW V, NEW base \in V, NEW N \in Nat, NEW T, T \in [1..N -> [V -> V]]
  PROVE  \E f \in [0..N -> V] : Follows(f, base, N, T)
<1> DEFINE Upto(n, f) == f[0] = base /\ \A k \in 1..n : f[k] = T[k][f[k - 1]]
           A == {n \in Nat : n <= N => \E f \in [0..n -> V] : Upto(n, f)}
<1>1. 0 \in A
  <2>1. [k \in 0..0 |-> base] \in [0..0 -> V] /\ Upto(0, [k \in 0..0 |-> base])
    OBVIOUS
  <2>2. QED
    BY <2>1
<1>2. ASSUME NEW n \in A PROVE n + 1 \in A
  <2> SUFFICES ASSUME n + 1 <= N PROVE \E f \in [0..(n + 1) -> V] : Upto(n + 1, f)
    OBVIOUS
  <2>1. PICK f \in [0..n -> V] : Upto(n, f)
    OBVIOUS
  <2> DEFINE g == [k \in 0..(n + 1) |-> IF k = n + 1 THEN T[n + 1][f[n]] ELSE f[k]]
  <2>2. T[n + 1][f[n]] \in V
    <3>1. n + 1 \in 1..N /\ f[n] \in V
      BY <2>1
    <3>2. QED
      BY <3>1
  <2>3. g \in [0..(n + 1) -> V]
    BY <2>1, <2>2
  <2>4. Upto(n + 1, g)
    <3>1. g[n + 1] = T[n + 1][f[n]] /\ \A k \in 0..n : g[k] = f[k]
      OBVIOUS
    <3>2. n \in 0..n /\ 0 \in 0..n /\ \A k \in 1..n : k \in 0..n /\ k - 1 \in 0..n
      OBVIOUS
    <3> HIDE DEF g
    <3>3. \A k \in 1..n : g[k] = T[k][g[k - 1]]
      BY <2>1, <3>1, <3>2
    <3>4. g[n + 1] = T[n + 1][g[(n + 1) - 1]] /\ g[0] = base
      BY <2>1, <3>1, <3>2
    <3>5. QED
      BY <3>3, <3>4
  <2>5. QED
    BY <2>3, <2>4
<1>3. N \in A
  <2> HIDE DEF A
  <2>1. A \in SUBSET Nat
    BY DEF A
  <2>2. QED
    BY <1>1, <1>2, <2>1, InductiveSet
<1>4. QED
  BY <1>3 DEF Follows

\* What a quotient is, and that nothing else is one.
LEMMA QuotientBounds ==
  ASSUME NEW a \in Nat, NEW d \in Nat, d > 0
  PROVE  a \div d \in Nat /\ d * (a \div d) <= a /\ a < d * (a \div d) + d
<1>1. a = d * (a \div d) + (a % d) /\ a % d \in 0..(d - 1) /\ a \div d \in Nat
  OBVIOUS
<1>2. d * (a \div d) \in Nat
  BY <1>1
<1>3. QED
  BY <1>1, <1>2

LEMMA QuotientIs ==
  ASSUME NEW a \in Nat, NEW d \in Nat, d > 0, NEW q \in Nat, d * q <= a, a < d * q + d
  PROVE  a \div d = q
<1> DEFINE p == a \div d
<1>1. p \in Nat /\ d * p <= a /\ a < d * p + d
  BY QuotientBounds
<1> HIDE DEF p
<1>2. d * p \in Nat /\ d * q \in Nat
  BY <1>1
<1>3. \A x \in Nat, y \in Nat : x + 1 <= y => d * x + d <= d * y
  <2> SUFFICES ASSUME NEW x \in Nat, NEW y \in Nat, x + 1 <= y PROVE d * x + d <= d * y
    OBVIOUS
  <2>1. PICK z \in Nat : y = x + 1 + z
    <3>1. y - (x + 1) \in Nat /\ y = x + 1 + (y - (x + 1))
      OBVIOUS
    <3>2. QED
      BY <3>1
  <2>2. d * y = d * x + d + d * z /\ d * z \in Nat /\ d * x \in Nat
    BY <2>1
  <2>3. d * y \in Nat
    OBVIOUS
  <2>4. QED
    BY <2>2, <2>3
<1>4. ~(p + 1 <= q)
  <2> SUFFICES ASSUME p + 1 <= q PROVE FALSE
    OBVIOUS
  <2>1. d * p + d <= d * q
    BY <1>1, <1>3
  <2>2. QED
    BY <1>1, <1>2, <2>1
<1>5. ~(q + 1 <= p)
  <2> SUFFICES ASSUME q + 1 <= p PROVE FALSE
    OBVIOUS
  <2>1. d * q + d <= d * p
    BY <1>1, <1>3
  <2>2. QED
    BY <1>1, <1>2, <2>1
<1>6. p = q
  BY <1>1, <1>4, <1>5
<1>7. QED
  BY <1>6 DEF p

\* Dividing twice is dividing by the product.
LEMMA DivideTwice ==
  ASSUME NEW a \in Nat, NEW b \in Nat, NEW c \in Nat, b > 0, c > 0
  PROVE  (a \div b) \div c = a \div (c * b)
<1> DEFINE m == a \div b
           q == m \div c
           d == c * b
<1>1. m \in Nat /\ b * m <= a /\ a < b * m + b
  BY QuotientBounds
<1> HIDE DEF m
<1>2. q \in Nat /\ c * q <= m /\ m < c * q + c
  BY <1>1, QuotientBounds
<1> HIDE DEF q
<1>3. \A x \in Nat, y \in Nat : x <= y => b * x <= b * y
  OBVIOUS
<1>4. d \in Nat /\ d > 0 /\ c * q \in Nat /\ b * m \in Nat
  BY <1>1, <1>2
<1>5. b * (c * q) = d * q /\ b * (c * q + c) = d * q + d /\ b * (m + 1) = b * m + b
  BY <1>1, <1>2
<1>6. d * q <= a /\ a < d * q + d
  <2>1. b * (c * q) <= b * m /\ b * (m + 1) <= b * (c * q + c)
    BY <1>1, <1>2, <1>3, <1>4
  <2>2. d * q \in Nat
    BY <1>2, <1>4
  <2> HIDE DEF d
  <2>3. QED
    BY <1>1, <1>4, <1>5, <2>1, <2>2
<1> HIDE DEF d
<1>7. a \div d = q
  BY <1>2, <1>4, <1>6, QuotientIs
<1>8. QED
  BY <1>7 DEF m, q, d

\* A rung has room for one in eta of those the rung before it had room for.
LEMMA CapacityOfRung ==
  /\ Capacity \in [1..Rungs -> Nat]
  /\ Capacity[1] = Initial \div Eta
  /\ \A r \in 2..Rungs : Capacity[r] = Capacity[r - 1] \div Eta
<1>1. Eta \in Nat /\ Eta >= 2 /\ Initial \in Nat /\ Rungs \in Nat /\ Rungs >= 2
  BY HalvingAssumption
<1> DEFINE T == [n \in 1..Rungs |-> [m \in Nat |-> Eta * m]]
<1>2. T \in [1..Rungs -> [Nat -> Nat]]
  BY <1>1
<1>3. PICK f \in [0..Rungs -> Nat] : f[0] = 1 /\ \A n \in 1..Rungs : f[n] = T[n][f[n - 1]]
  <2>1. \E f \in [0..Rungs -> Nat] : Follows(f, 1, Rungs, T)
    <3> HIDE DEF T
    <3>1. QED
      BY <1>1, <1>2, Iterated
  <2>2. QED
    BY <2>1 DEF Follows
<1>4. \A n \in 1..Rungs : f[n] = Eta * f[n - 1]
  <2> SUFFICES ASSUME NEW n \in 1..Rungs PROVE f[n] = Eta * f[n - 1]
    OBVIOUS
  <2>1. f[n - 1] \in Nat
    BY <1>1
  <2>2. QED
    BY <1>3, <2>1
<1> HIDE DEF T
<1> DEFINE Def(g) == g = [n \in 0..Rungs |-> IF n = 0 THEN 1 ELSE Eta * g[n - 1]]
<1>5. Def(f)
  <2>1. \A n \in 0..Rungs : f[n] = IF n = 0 THEN 1 ELSE Eta * f[n - 1]
    BY <1>1, <1>3, <1>4
  <2>2. f = [n \in 0..Rungs |-> f[n]]
    BY <1>3
  <2>3. QED
    BY <2>1, <2>2
<1>6. Def(Power)
  <2>1. Power = CHOOSE g : Def(g)
    BY DEF Power
  <2> HIDE DEF Def
  <2>2. QED
    BY <1>5, <2>1
<1>7. Power[0] = 1 /\ \A n \in 1..Rungs : Power[n] = Eta * Power[n - 1]
  <2>1. \A n \in 0..Rungs : Power[n] = IF n = 0 THEN 1 ELSE Eta * Power[n - 1]
    BY <1>6
  <2>2. 0 \in 0..Rungs /\ \A n \in 1..Rungs : n \in 0..Rungs /\ n # 0
    BY <1>1
  <2>3. QED
    BY <2>1, <2>2
<1> DEFINE A == {n \in Nat : n \in 0..Rungs => Power[n] \in Nat /\ Power[n] > 0}
<1>8. \A n \in Nat : n \in A
  <2>1. 0 \in A
    BY <1>7
  <2>2. ASSUME NEW n \in A PROVE n + 1 \in A
    <3> SUFFICES ASSUME n + 1 \in 0..Rungs PROVE Power[n + 1] \in Nat /\ Power[n + 1] > 0
      OBVIOUS
    <3>1. Power[n] \in Nat /\ Power[n] > 0
      BY <1>1
    <3>2. Power[n + 1] = Eta * Power[n]
      BY <1>1, <1>7
    <3>3. \A x \in Nat : x > 0 => Eta * x \in Nat /\ Eta * x > 0
      BY <1>1
    <3>4. QED
      BY <3>1, <3>2, <3>3
  <2>3. A \in SUBSET Nat
    OBVIOUS
  <2> HIDE DEF A
  <2>4. QED
    BY <2>1, <2>2, <2>3, InductiveSet
<1>9. \A n \in 0..Rungs : Power[n] \in Nat /\ Power[n] > 0
  BY <1>1, <1>8
<1> HIDE DEF Def, A
<1>10. \A r \in 1..Rungs : Capacity[r] \in Nat /\ Capacity[r] = Initial \div Power[r]
  <2> SUFFICES ASSUME NEW r \in 1..Rungs
      PROVE Capacity[r] \in Nat /\ Capacity[r] = Initial \div Power[r]
    OBVIOUS
  <2>1. \A p \in Nat : p > 0 => Initial \div p \in Nat
    BY <1>1
  <2>2. Power[r] \in Nat /\ Power[r] > 0
    BY <1>1, <1>9
  <2>3. Initial \div Power[r] \in Nat
    BY <2>1, <2>2, Zenon
  <2>4. QED
    BY <2>3 DEF Capacity
<1>11. ASSUME NEW r \in 2..Rungs PROVE Capacity[r] = Capacity[r - 1] \div Eta
  <2>1. r - 1 \in 1..Rungs /\ r \in 1..Rungs /\ r - 1 \in 0..Rungs
    BY <1>1
  <2> DEFINE p == Power[r - 1]
  <2>2. p \in Nat /\ p > 0 /\ Power[r] = Eta * p
    BY <1>7, <1>9, <2>1
  <2> HIDE DEF p
  <2>3. (Initial \div p) \div Eta = Initial \div (Eta * p)
    <3>1. Eta > 0
      BY <1>1
    <3>2. QED
      BY <1>1, <2>2, <3>1, DivideTwice, Zenon
  <2>4. Capacity[r - 1] = Initial \div p
    BY <1>10, <2>1 DEF p
  <2>5. QED
    BY <1>10, <2>1, <2>2, <2>3, <2>4
<1>12. Capacity[1] = Initial \div Eta
  <2>1. 1 \in 1..Rungs /\ 1 - 1 = 0
    BY <1>1
  <2>2. Power[1] = Eta
    BY <1>1, <1>7, <2>1
  <2>3. QED
    BY <1>10, <2>1, <2>2
<1>13. Capacity \in [1..Rungs -> Nat]
  BY <1>10 DEF Capacity
<1>14. QED
  BY <1>11, <1>12, <1>13

\* The queue of a run that starts: the candidates that have no evidence yet.
LEMMA NewTrialsQueued ==
  /\ PoolShape({}, NewTrials[Initial])
  /\ Range(NewTrials[Initial]) = {Trial(c) : c \in {c \in Candidates : ReceiptsOf(Trial(c)) = {}}}
<1> DEFINE V == Seq(Experiment)
           Todo(n) == ReceiptsOf(Trial(n)) = {}
           T == [n \in 1..Initial |-> [s \in V |-> IF Todo(n) THEN Append(s, Trial(n)) ELSE s]]
<1>1. Initial \in Nat /\ \A c \in 1..Initial : Trial(c) \in Experiment
  BY HalvingAssumption, RunAssumption DEF Trial, Exp, Experiment, Candidates
<1> HIDE DEF Todo
<1>2. T \in [1..Initial -> [V -> V]] /\ <<>> \in V
  BY <1>1
<1>3. PICK f \in [0..Initial -> V] : f[0] = <<>> /\ \A n \in 1..Initial : f[n] = T[n][f[n - 1]]
  <2>1. \E f \in [0..Initial -> V] : Follows(f, <<>>, Initial, T)
    <3> HIDE DEF T, V
    <3>1. QED
      BY <1>1, <1>2, Iterated
  <2>2. QED
    BY <2>1 DEF Follows
<1>4. \A n \in 1..Initial : f[n] = IF Todo(n) THEN Append(f[n - 1], Trial(n)) ELSE f[n - 1]
  <2> SUFFICES ASSUME NEW n \in 1..Initial
      PROVE f[n] = IF Todo(n) THEN Append(f[n - 1], Trial(n)) ELSE f[n - 1]
    OBVIOUS
  <2>1. f[n - 1] \in V
    BY <1>1, <1>3
  <2>2. QED
    BY <1>3, <2>1
<1> DEFINE Def(g) == g = [c \in 0..Initial |->
                            IF c = 0 THEN <<>>
                            ELSE IF Todo(c) THEN Append(g[c - 1], Trial(c))
                            ELSE g[c - 1]]
<1>5. Def(f)
  <2> DEFINE b == [c \in 0..Initial |->
                     IF c = 0 THEN <<>>
                     ELSE IF Todo(c) THEN Append(f[c - 1], Trial(c))
                     ELSE f[c - 1]]
  <2>1. \A c \in 0..Initial : f[c] = b[c]
    <3>1. \A c \in 1..Initial : c \in 0..Initial /\ c # 0
      BY <1>1
    <3>2. 0 \in 0..Initial /\ \A c \in 0..Initial : c = 0 \/ c \in 1..Initial
      BY <1>1
    <3>3. QED
      BY <1>3, <1>4, <3>1, <3>2
  <2>2. f = [c \in 0..Initial |-> f[c]] /\ b = [c \in 0..Initial |-> b[c]]
    BY <1>3
  <2> HIDE DEF b
  <2>3. f = b
    BY <2>1, <2>2
  <2>4. QED
    BY <2>3 DEF b
<1>6. Def(NewTrials)
  <2>1. NewTrials = CHOOSE g : Def(g)
    BY DEF NewTrials, Todo
  <2> HIDE DEF Def
  <2>2. QED
    BY <1>5, <2>1
<1>7. /\ NewTrials[0] = <<>>
      /\ \A c \in 1..Initial :
           NewTrials[c] = IF Todo(c) THEN Append(NewTrials[c - 1], Trial(c)) ELSE NewTrials[c - 1]
  <2>1. \A c \in 1..Initial : c \in 0..Initial /\ c # 0
    BY <1>1
  <2>2. 0 \in 0..Initial
    BY <1>1
  <2>3. QED
    BY <1>6, <2>1, <2>2
<1> HIDE DEF Def, T, V
<1> DEFINE Those(n) == {Trial(c) : c \in {c \in 1..n : Todo(c)}}
           A == {n \in Nat : n <= Initial =>
                   PoolShape({}, NewTrials[n]) /\ Range(NewTrials[n]) = Those(n)}
<1>8. 0 \in A
  <2>1. Range(<<>>) = {} /\ IsInjective(<<>>) /\ <<>> \in Seq(Experiment)
    BY DEF Range, IsInjective
  <2>2. IsFiniteSet({}) /\ Cardinality({}) <= Workers
    BY FS_EmptySet, RunAssumption
  <2>3. PoolShape({}, <<>>)
    BY <2>1, <2>2 DEF PoolShape
  <2>4. Those(0) = {}
    OBVIOUS
  <2>5. QED
    BY <1>7, <2>1, <2>3, <2>4
<1>9. ASSUME NEW n \in A PROVE n + 1 \in A
  <2> SUFFICES ASSUME n + 1 <= Initial
      PROVE PoolShape({}, NewTrials[n + 1]) /\ Range(NewTrials[n + 1]) = Those(n + 1)
    OBVIOUS
  <2>1. PoolShape({}, NewTrials[n]) /\ Range(NewTrials[n]) = Those(n)
    BY <1>1
  <2>2. n + 1 \in 1..Initial /\ (n + 1) - 1 = n /\ 1..(n + 1) = (1..n) \cup {n + 1}
    BY <1>1
  <2>3. CASE Todo(n + 1)
    <3>1. NewTrials[n + 1] = Append(NewTrials[n], Trial(n + 1))
      BY <1>7, <2>2, <2>3
    <3>2. Trial(n + 1) \notin Those(n)
      <4>1. \A c \in 1..n : Trial(c) # Trial(n + 1)
        BY DEF Trial, Exp
      <4>2. QED
        BY <4>1
    <3>3. Those(n + 1) = Those(n) \cup {Trial(n + 1)}
      BY <2>2, <2>3
    <3> HIDE DEF Those
    <3>4. Trial(n + 1) \in Experiment /\ Trial(n + 1) \notin {} \cup Range(NewTrials[n])
      BY <1>1, <2>1, <2>2, <3>2
    <3> HIDE DEF Todo
    <3>5. /\ PoolShape({}, NewTrials[n + 1])
          /\ Range(NewTrials[n + 1]) = Range(NewTrials[n]) \cup {Trial(n + 1)}
      <4> DEFINE q == NewTrials[n]
                 e == Trial(n + 1)
      <4>1. PoolShape({}, q) /\ e \in Experiment /\ e \notin {} \cup Range(q)
        BY <2>1, <3>4
      <4>2. NewTrials[n + 1] = Append(q, e)
        BY <3>1
      <4> HIDE DEF q, e
      <4>3. PoolShape({}, Append(q, e)) /\ Range(Append(q, e)) = Range(q) \cup {e}
        BY <4>1, Queued
      <4>4. QED
        BY <4>2, <4>3 DEF q, e
    <3>6. QED
      BY <2>1, <3>3, <3>5
  <2>4. CASE ~Todo(n + 1)
    <3>1. NewTrials[n + 1] = NewTrials[n]
      BY <1>7, <2>2, <2>4
    <3>2. Those(n + 1) = Those(n)
      BY <2>2, <2>4
    <3>3. QED
      BY <2>1, <3>1, <3>2
  <2>5. QED
    BY <2>3, <2>4
<1>10. Initial \in A
  <2>1. A \in SUBSET Nat
    OBVIOUS
  <2> HIDE DEF A
  <2>2. QED
    BY <1>1, <1>8, <1>9, <2>1, InductiveSet
<1>11. QED
  BY <1>1, <1>10 DEF Todo, Candidates
-----------------------------------------------------------------------------
(* Ranking: the best of a rung's observations *)

Receipt ==
  [cand : Candidates, rung : 1..Rungs, attempt : 0..MaxRetries, via : Nat, outcome : Outcomes]

\* One observation per candidate, all of them of rung r.
Lineup(obs, r) ==
  /\ obs \in Seq(Receipt)
  /\ \A i \in DOMAIN obs : obs[i].rung = r
  /\ \A i, j \in DOMAIN obs : obs[i].cand = obs[j].cand => i = j

Orders(R, D) ==
  /\ \A x, y \in D : x # y => <<x, y>> \in R \/ <<y, x>> \in R
  /\ \A x, y, z \in D : <<x, y>> \in R /\ <<y, z>> \in R => <<x, z>> \in R

Leads(x, E, R) == \A y \in E \ {x} : <<x, y>> \in R

\* A finite set has a least element under a strict total order.
LEMMA LeastUnder ==
  ASSUME NEW D, IsFiniteSet(D), NEW R, Orders(R, D), NEW E \in SUBSET D, E # {}
  PROVE  \E x \in E : Leads(x, E, R)
<1> USE DEF Orders, Leads
<1> DEFINE Least(S) == \E x \in S : \A y \in S \ {x} : <<x, y>> \in R
           A == {n \in Nat : \A S \in SUBSET D : Cardinality(S) = n /\ S # {} => Least(S)}
<1>0. \A S \in SUBSET D : IsFiniteSet(S) /\ Cardinality(S) \in Nat
  BY FS_Subset, FS_CardinalityType
<1>1. 0 \in A
  BY <1>0, FS_EmptySet
<1>2. ASSUME NEW n \in A PROVE n + 1 \in A
  <2> SUFFICES ASSUME NEW S \in SUBSET D, Cardinality(S) = n + 1, S # {} PROVE Least(S)
    OBVIOUS
  <2>1. PICK x \in S : TRUE
    OBVIOUS
  <2>2. Cardinality(S \ {x}) = n /\ S \ {x} \in SUBSET D
    <3>1. IsFiniteSet(S)
      BY <1>0
    <3>2. Cardinality(S \ {x}) = Cardinality(S) - 1
      BY <2>1, <3>1, FS_RemoveElement
    <3>3. QED
      BY <3>2
  <2>3. CASE S \ {x} = {}
    BY <2>1, <2>3
  <2>4. CASE S \ {x} # {}
    <3>1. PICK m \in S \ {x} : \A y \in (S \ {x}) \ {m} : <<m, y>> \in R
      BY <2>2, <2>4
    <3>2. CASE <<m, x>> \in R
      BY <2>1, <3>1, <3>2
    <3>3. CASE <<x, m>> \in R
      <4>1. \A y \in S \ {x} : <<x, y>> \in R
        BY <2>1, <3>1, <3>3
      <4>2. QED
        BY <2>1, <4>1
    <3>4. QED
      BY <2>1, <3>1, <3>2, <3>3
  <2>5. QED
    BY <2>3, <2>4
<1>3. \A n \in Nat : n \in A
  <2> HIDE DEF A
  <2>1. A \in SUBSET Nat
    BY DEF A
  <2>2. QED
    BY <1>1, <1>2, <2>1, InductiveSet
<1>4. Cardinality(E) \in Nat
  BY <1>0
<1>5. Cardinality(E) \in A
  BY <1>3, <1>4
<1>6. QED
  BY <1>5

\* The selection of observe and replay_promotion is an eligible observation
\* that ranks before every other one.
LEMMA BestIsNext ==
  ASSUME NEW r \in 1..Rungs, NEW obs, Lineup(obs, r), NEW P, Eligible(obs, P) # {}
  PROVE  LET b == NextPromotion(obs, P)
         IN /\ b \in Eligible(obs, P)
            /\ \A j \in Eligible(obs, P) \ {b} : RanksBefore(obs[b], obs[j])
<1> DEFINE D == DOMAIN obs
           R == {p \in D \X D : RanksBefore(obs[p[1]], obs[p[2]])}
           E == Eligible(obs, P)
<1>1. IsFiniteSet(D)
  <2>1. D = 1..Len(obs) /\ Len(obs) \in Nat
    BY DEF Lineup
  <2>2. QED
    BY <2>1, FS_Interval
<1>2. \A i \in D : obs[i].cand \in Int /\ obs[i].rung = r /\ Score[r][obs[i].cand] \in Int
  <2>1. \A i \in D : obs[i].cand \in Candidates /\ obs[i].rung = r
    <3>1. \A i \in D : obs[i] \in Receipt
      BY DEF Lineup
    <3>2. QED
      BY <3>1 DEF Lineup, Receipt
  <2>2. \A c \in Candidates : c \in Int /\ Score[r][c] \in Int
    BY HalvingAssumption DEF Candidates
  <2>3. QED
    BY <2>1, <2>2
<1>3. ASSUME NEW x \in D, NEW y \in D PROVE <<x, y>> \in R <=> RanksBefore(obs[x], obs[y])
  OBVIOUS
<1> HIDE DEF R
<1>4. ASSUME NEW x \in D, NEW y \in D, x # y PROVE <<x, y>> \in R \/ <<y, x>> \in R
  <2>1. obs[x].cand # obs[y].cand
    BY <1>4 DEF Lineup
  <2>2. RanksBefore(obs[x], obs[y]) \/ RanksBefore(obs[y], obs[x])
    BY <1>2, <2>1 DEF RanksBefore
  <2>3. QED
    BY <1>3, <2>2
<1>5. ASSUME NEW x \in D, NEW y \in D, NEW z \in D, <<x, y>> \in R, <<y, z>> \in R
      PROVE  <<x, z>> \in R
  <2>1. RanksBefore(obs[x], obs[y]) /\ RanksBefore(obs[y], obs[z])
    BY <1>3, <1>5
  <2>2. RanksBefore(obs[x], obs[z])
    BY <1>2, <2>1 DEF RanksBefore
  <2>3. QED
    BY <1>3, <2>2
<1>6. E \in SUBSET D
  BY DEF Eligible, Feasible
<1>7. PICK b \in E : \A y \in E \ {b} : <<b, y>> \in R
  <2>1. E # {}
    OBVIOUS
  <2>2. Orders(R, D)
    BY <1>4, <1>5 DEF Orders
  <2> HIDE DEF E, D
  <2>3. \E b \in E : Leads(b, E, R)
    BY <1>1, <1>6, <2>1, <2>2, LeastUnder
  <2>4. QED
    BY <2>3 DEF Leads
<1>8. \A j \in E \ {b} : RanksBefore(obs[b], obs[j])
  BY <1>3, <1>6, <1>7
<1>9. QED
  BY <1>7, <1>8 DEF NextPromotion
-----------------------------------------------------------------------------
(* The invariant: where every trial of the run is *)

Decided ==
  [kind : {"retry", "promotion"}, receipt : Nat, observed : Seq(Nat),
   before : Seq(Candidates), run : Nat]

RunTypeOK ==
  /\ evidence \in Seq(Receipt)
  /\ decisions \in Seq(Decided)
  /\ pc \in {"down", "waiting", "handling", "done", "failed"}
  /\ runs \in Nat
  /\ PoolShape(holding, queue)
  /\ ended \subseteq DOMAIN evidence
  /\ batch \subseteq DOMAIN evidence
  /\ observed \in [1..Rungs -> Seq(Nat)]
  /\ promoted \in [1..Rungs -> Seq(Candidates)]

Waiting == holding \cup Range(queue)

Watched == UNION {Range(observed[r]) : r \in 1..Rungs}

\* The receipts the running runner has, and the experiments it has under way
\* or behind it.
Kept == ended \cup batch \cup Watched

Live == Waiting \cup {ExpOf(i) : i \in Kept}

Started == pc \in {"waiting", "handling", "done"}

PlaceOK ==
  /\ batch # {} <=> pc = "handling"
  /\ pc = "done" => Waiting = {} /\ ended = {}
  /\ ~Started => Waiting = {} /\ Kept = {} /\ \A r \in 1..Rungs : promoted[r] = <<>>

\* What waits for a permit or holds one has no evidence yet, and no
\* experiment has two receipts.
PoolOK ==
  /\ \A e \in Waiting : ReceiptsOf(e) = {}
  /\ \A i, j \in DOMAIN evidence : ExpOf(i) = ExpOf(j) => i = j

\* A rung has observed a receipt of its own at most once, and never one that
\* is still to be handled or that is retried.
ObservedOK ==
  /\ batch \cap ended = {}
  /\ \A r \in 1..Rungs :
       /\ IsInjective(observed[r])
       /\ \A i \in Range(observed[r]) :
            /\ i \in DOMAIN evidence /\ evidence[i].rung = r
            /\ ~Retried(i)
            /\ i \notin ended \cup batch

\* One trial per candidate and rung: every candidate on the first rung, and
\* on a later one exactly those the rung before it has promoted, once each.
OnePerRung(L) == \A d, e \in L : d.cand = e.cand /\ d.rung = e.rung => d = e

OnlyPromoted(L, P) == \A e \in L : e.rung > 1 => e.cand \in Range(P[e.rung - 1])

AllTried(L, P) ==
  /\ \A c \in Candidates : \E e \in L : e.cand = c /\ e.rung = 1
  /\ \A r \in 1..(Rungs - 1) : \A c \in Range(P[r]) : \E e \in L : e.cand = c /\ e.rung = r + 1

LiveOK ==
  /\ OnePerRung(Live)
  /\ OnlyPromoted(Live, promoted)
  /\ Started => AllTried(Live, promoted)
  /\ \A r \in 1..Rungs : IsInjective(promoted[r])

TrialInv == RunTypeOK /\ PlaceOK /\ PoolOK /\ ObservedOK /\ LiveOK

LEMMA ReceiptParts ==
  ASSUME RunTypeOK, NEW i \in DOMAIN evidence
  PROVE  /\ evidence[i] \in Receipt /\ ExpOf(i) \in Experiment
         /\ ExpOf(i).cand = evidence[i].cand /\ ExpOf(i).rung = evidence[i].rung
         /\ ExpOf(i).attempt = evidence[i].attempt /\ ExpOf(i).via = evidence[i].via
<1>1. evidence[i] \in Receipt
  BY DEF RunTypeOK
<1>2. QED
  BY <1>1 DEF Receipt, ExpOf, Exp, Experiment

LEMMA ReceiptsAre ==
  ASSUME RunTypeOK, NEW e \in Experiment
  PROVE  ReceiptsOf(e) = {i \in DOMAIN evidence : ExpOf(i) = e}
<1>1. \A i \in DOMAIN evidence : ExpOf(i).cand = evidence[i].cand
  BY ReceiptParts
<1>2. QED
  BY <1>1 DEF ReceiptsOf

LEMMA LiveAreExperiments ==
  ASSUME RunTypeOK, ObservedOK
  PROVE  /\ Waiting \subseteq Experiment /\ Kept \subseteq DOMAIN evidence
         /\ Live \subseteq Experiment
<1>1. Waiting \subseteq Experiment
  <2>1. queue \in Seq(Experiment) /\ holding \subseteq Experiment
    BY DEF RunTypeOK, PoolShape
  <2>2. QED
    BY <2>1 DEF Waiting, Range
<1>2. Kept \subseteq DOMAIN evidence
  BY DEF Kept, Watched, ObservedOK, RunTypeOK
<1>3. QED
  BY <1>1, <1>2, ReceiptParts DEF Live

LEMMA FirstIsLeast ==
  ASSUME RunTypeOK, batch # {}
  PROVE  First(batch) \in batch /\ \A j \in batch : First(batch) <= j
<1>1. batch \subseteq Nat
  BY DEF RunTypeOK
<1>2. \E i \in batch : \A j \in batch : i <= j
  BY <1>1, LeastNatural
<1>3. QED
  BY <1>2 DEF First

\* Receipts of one rung that the runner has are of different candidates.
LEMMA KeptLineup ==
  ASSUME TrialInv, NEW r \in 1..Rungs, NEW s \in Seq(Nat), IsInjective(s),
         \A k \in DOMAIN s : s[k] \in Kept /\ evidence[s[k]].rung = r
  PROVE  Lineup([k \in DOMAIN s |-> evidence[s[k]]], r)
<1> DEFINE obs == [k \in DOMAIN s |-> evidence[s[k]]]
<1>1. \A k \in DOMAIN s :
        s[k] \in DOMAIN evidence /\ evidence[s[k]] \in Receipt /\ ExpOf(s[k]) \in Live
  BY LiveAreExperiments, ReceiptParts DEF TrialInv, Live
<1>2. obs \in Seq(Receipt)
  <2>1. Len(s) \in Nat /\ DOMAIN s = 1..Len(s)
    OBVIOUS
  <2>2. obs \in [1..Len(s) -> Receipt]
    BY <1>1, <2>1
  <2> HIDE DEF obs
  <2>3. QED
    BY <2>1, <2>2, SeqDef
<1>3. ASSUME NEW j \in DOMAIN s, NEW k \in DOMAIN s, obs[j].cand = obs[k].cand PROVE j = k
  <2>1. ExpOf(s[j]).cand = ExpOf(s[k]).cand /\ ExpOf(s[j]).rung = ExpOf(s[k]).rung
    BY <1>1, <1>3, ReceiptParts DEF TrialInv
  <2>2. ExpOf(s[j]) = ExpOf(s[k])
    BY <1>1, <2>1 DEF TrialInv, LiveOK, OnePerRung
  <2>3. s[j] = s[k]
    BY <1>1, <2>2 DEF TrialInv, PoolOK
  <2>4. QED
    BY <2>3 DEF IsInjective
<1>4. QED
  BY <1>2, <1>3 DEF Lineup
-----------------------------------------------------------------------------
(* A receipt is recorded *)

\* What the receipts that are there say does not change.
Grown ==
  /\ DOMAIN evidence \subseteq DOMAIN evidence'
  /\ \A i \in DOMAIN evidence : evidence'[i] = evidence[i]

LEMMA RecordGrows ==
  ASSUME RunTypeOK, NEW e \in Experiment, NEW o \in Outcomes, Record(e, o),
         NEW n, n = Len(evidence) + 1
  PROVE  /\ evidence' \in Seq(Receipt) /\ Grown
         /\ n \notin DOMAIN evidence
         /\ DOMAIN evidence' = DOMAIN evidence \cup {n}
         /\ ExpOf(n)' = e
         /\ \A i \in DOMAIN evidence : ExpOf(i)' = ExpOf(i)
<1> DEFINE rec == [cand |-> e.cand, rung |-> e.rung, attempt |-> e.attempt, via |-> e.via,
                   outcome |-> o]
<1>1. rec \in Receipt /\ evidence' = Append(evidence, rec)
  BY DEF Record, Receipt, Experiment
<1>2. Exp(rec.cand, rec.rung, rec.attempt, rec.via) = e
  BY DEF Exp, Experiment
<1>3. evidence \in Seq(Receipt) /\ n \in Nat /\ DOMAIN evidence = 1..(n - 1)
  BY DEF RunTypeOK
<1> HIDE DEF rec
<1>4. /\ evidence' \in Seq(Receipt) /\ DOMAIN evidence' = 1..n
      /\ evidence'[n] = rec /\ \A i \in 1..(n - 1) : evidence'[i] = evidence[i]
  BY <1>1, <1>3
<1>5. n \notin DOMAIN evidence /\ DOMAIN evidence' = DOMAIN evidence \cup {n}
  BY <1>3, <1>4
<1>6. ExpOf(n)' = e
  <2>1. ExpOf(n)' = Exp(evidence'[n].cand, evidence'[n].rung,
                        evidence'[n].attempt, evidence'[n].via)
    BY DEF ExpOf
  <2>2. QED
    BY <1>2, <1>4, <2>1
<1>7. ASSUME NEW i \in DOMAIN evidence PROVE ExpOf(i)' = ExpOf(i)
  BY <1>3, <1>4 DEF ExpOf
<1>8. QED
  BY <1>3, <1>4, <1>5, <1>6, <1>7 DEF Grown

LEMMA RecordStep ==
  ASSUME TrialInv, pc = "waiting", NEW e \in Waiting, NEW o \in Outcomes, Record(e, o),
         PoolShape(holding', queue'), Waiting' = Waiting \ {e}
  PROVE  TrialInv' /\ Grown
<1> USE DEF TrialInv
<1>0. e \in Experiment
  BY LiveAreExperiments
<1> PICK n : n = Len(evidence) + 1
  OBVIOUS
<1>1. /\ evidence' \in Seq(Receipt) /\ Grown
      /\ n \notin DOMAIN evidence
      /\ DOMAIN evidence' = DOMAIN evidence \cup {n}
      /\ ExpOf(n)' = e
      /\ \A i \in DOMAIN evidence : ExpOf(i)' = ExpOf(i)
  BY <1>0, RecordGrows
<1>2. /\ ended' = ended \cup {n}
      /\ UNCHANGED <<decisions, pc, runs, batch, observed, promoted>>
  BY DEF Record
<1>3. RunTypeOK'
  <2>1. PoolShape(holding, queue)'
    BY DEF PoolShape
  <2>2. QED
    BY <1>1, <1>2, <2>1 DEF RunTypeOK
<1>4. Kept \subseteq DOMAIN evidence /\ Waiting \subseteq Experiment
  BY LiveAreExperiments
<1>5. Watched' = Watched /\ Kept' = Kept \cup {n}
  BY <1>2 DEF Watched, Kept
<1>6. Live' = Live
  <2>1. {ExpOf(i) : i \in Kept}' = {ExpOf(i) : i \in Kept} \cup {e}
    <3>1. {ExpOf(i) : i \in Kept}' = {ExpOf(i)' : i \in Kept \cup {n}}
      BY <1>5
    <3>2. QED
      BY <1>1, <1>4, <3>1
  <2>2. QED
    BY <2>1 DEF Live
<1>7. PlaceOK'
  BY <1>2 DEF PlaceOK, Started
<1>8. PoolOK'
  <2>1. \A i \in DOMAIN evidence : ExpOf(i) # e
    BY <1>0, ReceiptsAre DEF PoolOK
  <2>2. ASSUME NEW d \in Waiting' PROVE ReceiptsOf(d)' = {}
    <3>1. d \in Waiting /\ d # e /\ d \in Experiment
      BY <1>4
    <3>2. \A i \in DOMAIN evidence : ExpOf(i) # d
      BY <3>1, ReceiptsAre DEF PoolOK
    <3>3. \A i \in DOMAIN evidence' : ExpOf(i)' # d
      BY <1>1, <3>1, <3>2
    <3>4. QED
      BY <3>3 DEF ReceiptsOf
  <2>3. ASSUME NEW i \in DOMAIN evidence', NEW j \in DOMAIN evidence', ExpOf(i)' = ExpOf(j)'
        PROVE  i = j
    BY <1>1, <2>1, <2>3 DEF PoolOK
  <2>4. QED
    BY <2>2, <2>3 DEF PoolOK
<1>9. ObservedOK'
  <2>1. (batch \cap ended)' = {}
    BY <1>1, <1>2 DEF ObservedOK, RunTypeOK
  <2>2. ASSUME NEW r \in 1..Rungs, NEW i \in Range(observed[r])
        PROVE  /\ i \in DOMAIN evidence' /\ evidence'[i].rung = r
               /\ ~Retried(i)' /\ i \notin (ended \cup batch)'
    BY <1>1, <1>2 DEF ObservedOK, Retried, Grown
  <2>3. QED
    BY <1>2, <2>1, <2>2 DEF ObservedOK
<1>10. LiveOK'
  BY <1>2, <1>6 DEF LiveOK, Started
<1>11. QED
  BY <1>1, <1>3, <1>7, <1>8, <1>9, <1>10

\* Whatever settles records a receipt of what waited or held a permit.
LEMMA SettleRecords ==
  ASSUME TrialInv, Settle
  PROVE  /\ pc = "waiting"
         /\ \E e \in Waiting, o \in Outcomes :
              Record(e, o) /\ PoolShape(holding', queue') /\ Waiting' = Waiting \ {e}
<1>0. PoolShape(holding, queue)
  BY DEF TrialInv, RunTypeOK
<1>1. ASSUME NEW e \in holding, Place(holding \ {e}, queue)
      PROVE  e \in Waiting /\ PoolShape(holding', queue') /\ Waiting' = Waiting \ {e}
  <2>1. PoolShape(holding \ {e}, queue)
    BY <1>0, Released
  <2>2. /\ PoolShape(holding', queue')
        /\ holding' \cup Range(queue') = (holding \ {e}) \cup Range(queue)
    BY <1>1, <2>1, Placed
  <2>3. e \in Waiting /\ Waiting' = Waiting \ {e}
    BY <1>0, <2>2 DEF Waiting, PoolShape
  <2>4. QED
    BY <2>2, <2>3
<1>2. ASSUME NEW k \in DOMAIN queue, Place(holding, RemoveAt(queue, k))
      PROVE  /\ queue[k] \in Waiting /\ PoolShape(holding', queue')
             /\ Waiting' = Waiting \ {queue[k]}
  <2>1. /\ PoolShape(holding, RemoveAt(queue, k))
        /\ Range(RemoveAt(queue, k)) = Range(queue) \ {queue[k]}
    BY <1>0, Dequeued
  <2>2. /\ PoolShape(holding', queue')
        /\ holding' \cup Range(queue') = holding \cup Range(RemoveAt(queue, k))
    BY <1>2, <2>1, Placed
  <2>3. queue[k] \in Range(queue)
    BY DEF Range
  <2>4. queue[k] \in Waiting /\ Waiting' = Waiting \ {queue[k]}
    BY <1>0, <2>1, <2>2, <2>3 DEF Waiting, PoolShape
  <2>5. QED
    BY <2>2, <2>4
<1>3. CASE \E e \in holding, o \in {"feasible", "infeasible"} : Evaluate(e, o)
  BY <1>1, <1>3 DEF Evaluate, Outcomes
<1>4. CASE \E e \in holding, o \in {"retryable", "exhausted"} : Fail(e, o)
  BY <1>1, <1>4 DEF Fail, Outcomes
<1>5. CASE \E k \in DOMAIN queue : TimeoutQueued(k)
  BY <1>2, <1>5 DEF TimeoutQueued, Outcomes
<1>6. QED
  BY <1>3, <1>4, <1>5 DEF Settle

LEMMA SettleStep ==
  ASSUME TrialInv, Settle
  PROVE  TrialInv' /\ Grown
<1>1. PICK e \in Waiting, o \in Outcomes :
        Record(e, o) /\ PoolShape(holding', queue') /\ Waiting' = Waiting \ {e}
  BY SettleRecords
<1>2. QED
  BY <1>1, SettleRecords, RecordStep

-----------------------------------------------------------------------------
(* Starts, ends, and collecting what has ended *)

LEMMA InitTrials == Init => TrialInv
<1> SUFFICES ASSUME Init PROVE TrialInv
  OBVIOUS
<1>1. Range(<<>>) = {} /\ IsInjective(<<>>) /\ \A S : <<>> \in Seq(S)
  BY DEF Range, IsInjective
<1>2. IsFiniteSet({}) /\ Cardinality({}) <= Workers
  BY FS_EmptySet, RunAssumption
<1>3. PoolShape({}, <<>>)
  BY <1>1, <1>2 DEF PoolShape
<1>4. RunTypeOK
  BY <1>1, <1>3 DEF Init, RunTypeOK
<1>5. Waiting = {} /\ Kept = {} /\ Live = {}
  BY <1>1 DEF Init, Waiting, Kept, Watched, Live
<1>6. PlaceOK /\ PoolOK /\ LiveOK
  BY <1>1, <1>5 DEF Init, PlaceOK, PoolOK, LiveOK, Started, OnePerRung, OnlyPromoted
<1>7. ObservedOK
  BY <1>1 DEF Init, ObservedOK
<1>8. QED
  BY <1>4, <1>6, <1>7 DEF TrialInv

LEMMA StopStep ==
  ASSUME TrialInv, NEW how \in {"down", "failed"}, Stop(how)
  PROVE  TrialInv' /\ Grown
<1>1. Range(<<>>) = {} /\ IsInjective(<<>>) /\ \A S : <<>> \in Seq(S)
  BY DEF Range, IsInjective
<1>2. IsFiniteSet({}) /\ Cardinality({}) <= Workers
  BY FS_EmptySet, RunAssumption
<1>3. PoolShape({}, <<>>)
  BY <1>1, <1>2 DEF PoolShape
<1> USE DEF Stop, Nothing
<1>4. RunTypeOK'
  <2>1. PoolShape(holding, queue)'
    BY <1>3 DEF PoolShape
  <2>2. QED
    BY <1>1, <2>1 DEF TrialInv, RunTypeOK
<1>5. Waiting' = {} /\ Kept' = {} /\ Live' = {}
  BY <1>1 DEF Waiting, Kept, Watched, Live
<1>6. PlaceOK' /\ LiveOK'
  BY <1>1, <1>5 DEF PlaceOK, LiveOK, Started, OnePerRung, OnlyPromoted
<1>7. PoolOK'
  BY <1>5 DEF TrialInv, PoolOK, ExpOf
<1>8. ObservedOK'
  BY <1>1 DEF ObservedOK
<1>9. QED
  BY <1>4, <1>6, <1>7, <1>8 DEF TrialInv, Grown

LEMMA CollectStep ==
  ASSUME TrialInv, Collect
  PROVE  TrialInv' /\ Grown
<1> USE DEF Collect
<1>1. batch = {} /\ Started
  BY DEF TrialInv, PlaceOK, Started
<1>2. Waiting' = Waiting /\ Kept' = Kept /\ Watched' = Watched
  BY <1>1 DEF Waiting, Kept, Watched
<1>3. Live' = Live
  BY <1>2 DEF Live, ExpOf
<1>4. RunTypeOK'
  BY DEF TrialInv, RunTypeOK, PoolShape
<1>5. PlaceOK' /\ PoolOK' /\ LiveOK'
  BY <1>1, <1>2, <1>3 DEF TrialInv, PlaceOK, PoolOK, LiveOK, Started, ReceiptsOf, ExpOf
<1>6. ObservedOK'
  BY <1>1 DEF TrialInv, ObservedOK, Retried
<1>7. QED
  BY <1>4, <1>5, <1>6 DEF TrialInv, Grown

LEMMA FinishStep ==
  ASSUME TrialInv, Finish
  PROVE  TrialInv' /\ Grown
<1> USE DEF Finish
<1>1. batch = {} /\ Waiting = {}
  BY DEF TrialInv, PlaceOK, Waiting, Range
<1>2. Waiting' = Waiting /\ Kept' = Kept /\ Watched' = Watched
  BY DEF Waiting, Kept, Watched
<1>3. Live' = Live
  BY <1>2 DEF Live, ExpOf
<1>4. RunTypeOK'
  BY DEF TrialInv, RunTypeOK, PoolShape
<1>5. PlaceOK' /\ PoolOK' /\ LiveOK'
  BY <1>1, <1>2, <1>3 DEF TrialInv, PlaceOK, PoolOK, LiveOK, Started, ReceiptsOf, ExpOf
<1>6. ObservedOK'
  BY DEF TrialInv, ObservedOK, Retried
<1>7. QED
  BY <1>4, <1>5, <1>6 DEF TrialInv, Grown

\* A start tries every candidate once: those without evidence wait, the
\* others have ended.
LEMMA StartStep ==
  ASSUME TrialInv, Start
  PROVE  TrialInv' /\ Grown
<1> DEFINE New == {c \in Candidates : ReceiptsOf(Trial(c)) = {}}
           Firsts == {Trial(c) : c \in Candidates}
<1> USE DEF Start
<1>1. Range(<<>>) = {} /\ IsInjective(<<>>)
  BY DEF Range, IsInjective
<1>2. /\ Waiting = {} /\ ended = {} /\ batch = {} /\ Watched = {}
      /\ \A r \in 1..Rungs : promoted[r] = <<>> /\ Range(observed[r]) = {}
  <2>1. ~Started
    BY DEF Started
  <2>2. QED
    BY <2>1 DEF TrialInv, PlaceOK, Kept, Watched
<1>3. /\ PoolShape(holding', queue')
      /\ Waiting' = {Trial(c) : c \in New}
  <2>1. PoolShape({}, NewTrials[Initial]) /\ Range(NewTrials[Initial]) = {Trial(c) : c \in New}
    BY NewTrialsQueued
  <2>2. /\ PoolShape(holding', queue')
        /\ holding' \cup Range(queue') = {} \cup Range(NewTrials[Initial])
    BY <2>1, Placed
  <2>3. QED
    BY <2>1, <2>2 DEF Waiting
<1>4. \A c \in Candidates : Trial(c) \in Experiment /\ Trial(c).cand = c /\ Trial(c).rung = 1
  BY HalvingAssumption, RunAssumption DEF Trial, Exp, Experiment
<1>5. ended' \subseteq DOMAIN evidence
  BY DEF ReceiptsOf
<1>6. RunTypeOK'
  BY <1>3, <1>5 DEF TrialInv, RunTypeOK, PoolShape
<1>7. Watched' = {} /\ Kept' = ended'
  BY <1>2 DEF Watched, Kept
<1>8. {ExpOf(i) : i \in ended'} = {Trial(c) : c \in Candidates \ New}
  <2>1. \A c \in Candidates : ReceiptsOf(Trial(c)) = {i \in DOMAIN evidence : ExpOf(i) = Trial(c)}
    BY <1>4, ReceiptsAre DEF TrialInv
  <2>2. QED
    BY <2>1
<1>9. Live' = Firsts
  <2>1. Live' = Waiting' \cup {ExpOf(i) : i \in ended'}
    BY <1>7 DEF Live, ExpOf
  <2>2. QED
    BY <1>3, <1>8, <2>1
<1>10. PlaceOK'
  BY <1>2 DEF PlaceOK, Started
<1>11. PoolOK'
  BY <1>3 DEF TrialInv, PoolOK, ReceiptsOf, ExpOf
<1>12. ObservedOK'
  BY <1>2 DEF TrialInv, ObservedOK
<1>13. LiveOK'
  <2>1. OnePerRung(Firsts)
    BY <1>4 DEF OnePerRung
  <2>2. OnlyPromoted(Firsts, promoted)
    BY <1>4 DEF OnlyPromoted
  <2>3. AllTried(Firsts, promoted)
    <3>1. \A r \in 1..(Rungs - 1) : Range(promoted[r]) = {}
      BY <1>1, <1>2, HalvingAssumption
    <3>2. QED
      BY <1>4, <3>1 DEF AllTried
  <2> HIDE DEF Firsts
  <2>4. QED
    BY <1>1, <1>2, <1>9, <2>1, <2>2, <2>3 DEF LiveOK
<1>14. QED
  BY <1>6, <1>10, <1>11, <1>12, <1>13 DEF TrialInv, Grown
-----------------------------------------------------------------------------
(* A receipt is handled *)

\* An experiment the runner does not have yet is scheduled: it waits, or its
\* receipt has ended.
LEMMA Scheduled ==
  ASSUME TrialInv, NEW e \in Experiment, e \notin Live, Schedule(e)
  PROVE  /\ PoolShape(holding', queue')
         /\ ended \subseteq ended' /\ ended' \subseteq DOMAIN evidence
         /\ \A j \in ended' \ ended : ExpOf(j) = e /\ j \notin Kept
         /\ \A x \in Waiting' \ Waiting : x = e /\ ReceiptsOf(e) = {}
         /\ Waiting' \cup {ExpOf(j) : j \in ended'} = Waiting \cup {ExpOf(j) : j \in ended} \cup {e}
<1>1. PoolShape(holding, queue) /\ ended \subseteq DOMAIN evidence
  BY DEF TrialInv, RunTypeOK
<1>2. ReceiptsOf(e) = {i \in DOMAIN evidence : ExpOf(i) = e}
  BY ReceiptsAre DEF TrialInv
<1>3. CASE ReceiptsOf(e) = {} /\ Place(holding, Append(queue, e)) /\ UNCHANGED ended
  <2>1. e \notin holding \cup Range(queue)
    BY DEF Live, Waiting
  <2>2. PoolShape(holding, Append(queue, e)) /\ Range(Append(queue, e)) = Range(queue) \cup {e}
    BY <1>1, <2>1, Queued
  <2>3. /\ PoolShape(holding', queue')
        /\ holding' \cup Range(queue') = holding \cup Range(Append(queue, e))
    BY <1>3, <2>2, Placed
  <2>4. Waiting' = Waiting \cup {e}
    BY <2>2, <2>3 DEF Waiting
  <2>5. QED
    BY <1>1, <1>3, <2>3, <2>4
<1>4. CASE ReceiptsOf(e) # {} /\ ended' = ended \cup ReceiptsOf(e) /\ UNCHANGED <<holding, queue>>
  <2>1. \A j \in Kept : ExpOf(j) # e
    BY DEF Live
  <2>2. Waiting' = Waiting
    BY <1>4 DEF Waiting
  <2>3. {ExpOf(j) : j \in ended'} = {ExpOf(j) : j \in ended} \cup {e}
    BY <1>2, <1>4
  <2>4. PoolShape(holding', queue')
    BY <1>1, <1>4
  <2>5. QED
    BY <1>1, <1>2, <1>4, <2>1, <2>2, <2>3, <2>4
<1>5. QED
  BY <1>3, <1>4 DEF Schedule

\* What every way of handling a receipt preserves but LiveOK: scheduled is
\* the experiment it schedules, if any.
LEMMA HandledStep ==
  ASSUME TrialInv, pc = "handling", NEW i \in batch, Handled(i),
         PoolShape(holding', queue'),
         ended \subseteq ended', ended' \subseteq DOMAIN evidence,
         \A j \in ended' \ ended : j \notin Kept,
         \A x \in Waiting' \ Waiting : ReceiptsOf(x) = {},
         decisions' \in Seq(Decided),
         promoted' \in [1..Rungs -> Seq(Candidates)],
         \/ observed' = observed
         \/ ~Retried(i) /\ observed' = [observed EXCEPT ![evidence[i].rung] = Append(@, i)]
  PROVE  RunTypeOK' /\ PlaceOK' /\ PoolOK' /\ ObservedOK' /\ Grown /\ Started /\ Started'
<1> USE DEF TrialInv
<1> DEFINE r == evidence[i].rung
<1>1. i \in DOMAIN evidence /\ i \in Nat /\ evidence[i] \in Receipt /\ r \in 1..Rungs
  <2>1. i \in DOMAIN evidence /\ DOMAIN evidence = 1..Len(evidence)
    BY DEF RunTypeOK
  <2>2. evidence[i] \in Receipt
    BY <2>1, ReceiptParts
  <2>3. QED
    BY <2>1, <2>2 DEF Receipt
<1>2. /\ evidence' = evidence /\ runs' = runs /\ batch' = batch \ {i}
      /\ pc' = IF batch' = {} THEN "waiting" ELSE "handling"
  BY DEF Handled
<1>3. observed' \in [1..Rungs -> Seq(Nat)]
  <2>1. observed \in [1..Rungs -> Seq(Nat)] /\ Append(observed[r], i) \in Seq(Nat)
    BY <1>1 DEF RunTypeOK
  <2> HIDE DEF r
  <2>2. QED
    BY <1>1, <2>1 DEF r
<1>4. RunTypeOK'
  <2>1. PoolShape(holding, queue)'
    BY DEF PoolShape
  <2>2. QED
    BY <1>2, <1>3, <2>1 DEF RunTypeOK
<1>5. Started /\ Started' /\ PlaceOK'
  BY <1>2 DEF Started, PlaceOK
<1>6. PoolOK'
  BY <1>2 DEF PoolOK, ReceiptsOf, ExpOf
<1>7. i \notin Watched /\ i \notin ended
  BY DEF ObservedOK, Watched
<1>8. (batch \cap ended)' = {}
  BY <1>2 DEF ObservedOK, Kept
<1>9. ASSUME NEW s \in 1..Rungs
      PROVE  /\ IsInjective(observed[s])'
             /\ \A j \in Range(observed[s])' :
                  /\ j \in DOMAIN evidence' /\ evidence'[j].rung = s
                  /\ ~Retried(j)' /\ j \notin (ended \cup batch)'
  <2>1. ASSUME NEW j \in Range(observed[s])
        PROVE  /\ j \in DOMAIN evidence' /\ evidence'[j].rung = s
               /\ ~Retried(j)' /\ j \notin (ended \cup batch)'
    <3>1. j \in Kept
      BY DEF Kept, Watched
    <3>2. QED
      BY <1>2, <3>1 DEF ObservedOK, Retried
  <2>2. CASE observed'[s] = observed[s]
    BY <2>1, <2>2 DEF ObservedOK, IsInjective
  <2>3. CASE ~Retried(i) /\ s = r /\ observed'[s] = Append(observed[s], i)
    <3>1. observed[s] \in Seq(Nat) /\ IsInjective(observed[s]) /\ i \notin Range(observed[s])
      BY <1>7 DEF RunTypeOK, ObservedOK, Watched
    <3>2. /\ IsInjective(Append(observed[s], i))
          /\ Range(Append(observed[s], i)) = Range(observed[s]) \cup {i}
      BY <1>1, <3>1, Appended
    <3>3. i \notin (ended \cup batch)'
      BY <1>2, <1>7 DEF Kept
    <3>4. i \in DOMAIN evidence' /\ evidence'[i].rung = s /\ ~Retried(i)'
      BY <1>1, <1>2, <2>3 DEF Retried
    <3>5. QED
      BY <2>1, <2>3, <3>2, <3>3, <3>4 DEF IsInjective
  <2>4. QED
    BY <1>1, <2>2, <2>3 DEF RunTypeOK
<1>10. ObservedOK'
  BY <1>8, <1>9 DEF ObservedOK
<1>11. QED
  BY <1>2, <1>4, <1>5, <1>6, <1>10 DEF Grown

\* A trial is replaced by its next attempt.
LEMMA RetryStep ==
  ASSUME TrialInv, pc = "handling", NEW i \in batch, Retried(i), Retry(i)
  PROVE  TrialInv' /\ Grown
<1> USE DEF TrialInv
<1> DEFINE old == ExpOf(i)
           e == [ExpOf(i) EXCEPT !.attempt = @ + 1]
           d == Decision("retry", i, <<>>, <<>>)
<1>1. /\ i \in DOMAIN evidence /\ i \in Nat /\ i \in Kept
      /\ evidence[i] \in Receipt /\ evidence[i].attempt < MaxRetries
  <2>1. i \in DOMAIN evidence /\ DOMAIN evidence = 1..Len(evidence)
    BY DEF RunTypeOK
  <2>2. QED
    BY <2>1, ReceiptParts DEF Retried, Kept
<1>2. /\ old \in Experiment /\ old \in Live
      /\ e \in Experiment /\ e.cand = old.cand /\ e.rung = old.rung /\ e # old
  <2>1. old \in Experiment /\ old.attempt = evidence[i].attempt /\ old \in Live
    BY <1>1, ReceiptParts DEF Live
  <2>2. old.attempt + 1 \in 0..MaxRetries /\ old.attempt + 1 # old.attempt
    BY <1>1, <2>1, RunAssumption DEF Experiment
  <2> HIDE DEF old
  <2>3. e = [old EXCEPT !.attempt = old.attempt + 1]
    BY DEF old
  <2>4. QED
    BY <2>1, <2>2, <2>3 DEF Experiment
<1>3. /\ Schedule(e) /\ Handled(i)
      /\ decisions' = Append(decisions, d) /\ UNCHANGED <<observed, promoted>>
  BY DEF Retry
<1> HIDE DEF e, old
<1>4. e \notin Live
  BY <1>2 DEF LiveOK, OnePerRung
<1>5. /\ PoolShape(holding', queue')
      /\ ended \subseteq ended' /\ ended' \subseteq DOMAIN evidence
      /\ \A j \in ended' \ ended : ExpOf(j) = e /\ j \notin Kept
      /\ \A x \in Waiting' \ Waiting : x = e /\ ReceiptsOf(e) = {}
      /\ Waiting' \cup {ExpOf(j) : j \in ended'} = Waiting \cup {ExpOf(j) : j \in ended} \cup {e}
  BY <1>2, <1>3, <1>4, Scheduled
<1>6. decisions' \in Seq(Decided)
  <2>1. d \in Decided
    BY <1>1 DEF Decision, Decided, RunTypeOK
  <2> HIDE DEF d
  <2>2. QED
    BY <1>3, <2>1 DEF RunTypeOK
<1>7. promoted' \in [1..Rungs -> Seq(Candidates)]
  BY <1>3 DEF RunTypeOK
<1>8. RunTypeOK' /\ PlaceOK' /\ PoolOK' /\ ObservedOK' /\ Grown /\ Started /\ Started'
  BY <1>3, <1>5, <1>6, <1>7, HandledStep
<1>9. Live' = (Live \ {old}) \cup {e}
  <2>1. Live' = Waiting' \cup {ExpOf(j) : j \in ended'}
                \cup {ExpOf(j) : j \in (batch \ {i}) \cup Watched}
    <3>1. Watched' = Watched /\ Kept' = ended' \cup (batch \ {i}) \cup Watched
      BY <1>3 DEF Watched, Kept, Handled
    <3>2. Live' = Waiting' \cup {ExpOf(j) : j \in ended' \cup (batch \ {i}) \cup Watched}
      BY <1>3, <3>1 DEF Live, ExpOf, Handled
    <3>3. QED
      BY <3>2
  <2>2. \A j \in ended \cup (batch \ {i}) \cup Watched : j \in Kept /\ j # i /\ ExpOf(j) # old
    <3>1. ASSUME NEW j \in ended \cup (batch \ {i}) \cup Watched PROVE j \in Kept /\ j # i
      BY DEF Kept, ObservedOK, Watched
    <3>2. QED
      BY <1>1, <3>1, LiveAreExperiments DEF PoolOK, old
  <2>3. old \notin Waiting
    <3>1. i \in ReceiptsOf(old)
      BY <1>1, <1>2, ReceiptsAre DEF old
    <3>2. QED
      BY <3>1 DEF PoolOK
  <2>4. Live = Waiting \cup {ExpOf(j) : j \in ended}
               \cup {ExpOf(j) : j \in (batch \ {i}) \cup Watched} \cup {old}
    BY DEF Live, Kept, old
  <2>5. QED
    BY <1>4, <1>5, <2>1, <2>2, <2>3, <2>4
<1>10. LiveOK'
  <2>1. OnePerRung((Live \ {old}) \cup {e})
    BY <1>2 DEF LiveOK, OnePerRung
  <2>2. OnlyPromoted((Live \ {old}) \cup {e}, promoted)
    BY <1>2 DEF LiveOK, OnlyPromoted
  <2>3. AllTried((Live \ {old}) \cup {e}, promoted)
    <3>1. \A x \in Live : \E y \in (Live \ {old}) \cup {e} : y.cand = x.cand /\ y.rung = x.rung
      BY <1>2
    <3>2. QED
      BY <1>8, <3>1 DEF LiveOK, AllTried
  <2>4. QED
    BY <1>3, <1>9, <2>1, <2>2, <2>3 DEF LiveOK
<1>11. QED
  BY <1>8, <1>10

\* What the rung of a receipt has observed once it has observed that one.
LEMMA AfterObserving ==
  ASSUME TrialInv, NEW i \in batch
  PROVE  LET r == evidence[i].rung
         IN /\ i \in DOMAIN evidence /\ i \in Nat /\ i \in Kept
            /\ r \in 1..Rungs
            /\ i \notin Watched
            /\ ObservedAfter(i) = Append(observed[r], i)
            /\ ObservedAfter(i) \in Seq(Nat) /\ IsInjective(ObservedAfter(i))
            /\ Range(ObservedAfter(i)) = Range(observed[r]) \cup {i}
            /\ \A k \in DOMAIN ObservedAfter(i) :
                 ObservedAfter(i)[k] \in Kept /\ evidence[ObservedAfter(i)[k]].rung = r
            /\ Lineup(SeenAfter(i), r)
<1> USE DEF TrialInv
<1> DEFINE r == evidence[i].rung
           s == ObservedAfter(i)
<1>1. i \in DOMAIN evidence /\ i \in Nat /\ i \in Kept /\ r \in 1..Rungs
  <2>1. i \in DOMAIN evidence /\ DOMAIN evidence = 1..Len(evidence)
    BY DEF RunTypeOK
  <2>2. evidence[i] \in Receipt
    BY <2>1, ReceiptParts
  <2>3. QED
    BY <2>1, <2>2 DEF Kept, Receipt
<1>2. i \notin Watched
  BY DEF ObservedOK, Watched
<1>3. i \notin Range(observed[r]) /\ observed[r] \in Seq(Nat) /\ IsInjective(observed[r])
  BY <1>1, <1>2 DEF Watched, RunTypeOK, ObservedOK
<1>4. s = Append(observed[r], i)
  BY <1>3 DEF ObservedAfter
<1> HIDE DEF s
<1>5. s \in Seq(Nat) /\ IsInjective(s) /\ Range(s) = Range(observed[r]) \cup {i}
  BY <1>1, <1>3, <1>4, Appended
<1>6. \A j \in Range(s) : j \in Kept /\ evidence[j].rung = r
  BY <1>1, <1>5 DEF Kept, Watched, ObservedOK
<1>7. \A k \in DOMAIN s : s[k] \in Kept /\ evidence[s[k]].rung = r
  BY <1>6 DEF Range
<1>8. Lineup([k \in DOMAIN s |-> evidence[s[k]]], r)
  BY <1>1, <1>5, <1>7, KeptLineup
<1>9. SeenAfter(i) = [k \in DOMAIN s |-> evidence[s[k]]]
  BY DEF SeenAfter, s
<1>10. QED
  BY <1>1, <1>2, <1>4, <1>5, <1>7, <1>8, <1>9 DEF s

LEMMA ObserveStep ==
  ASSUME TrialInv, pc = "handling", NEW i \in batch, ~Retried(i), ObserveOnly(i)
  PROVE  TrialInv' /\ Grown
<1> DEFINE r == evidence[i].rung
<1>1. /\ i \in DOMAIN evidence /\ r \in 1..Rungs
      /\ ObservedAfter(i) = Append(observed[r], i)
      /\ Range(ObservedAfter(i)) = Range(observed[r]) \cup {i}
  BY AfterObserving
<1>2. /\ observed' = [observed EXCEPT ![r] = Append(@, i)]
      /\ Handled(i)
      /\ UNCHANGED <<decisions, holding, queue, ended, promoted>>
  <2>1. observed' = [observed EXCEPT ![r] = ObservedAfter(i)]
    BY DEF ObserveOnly
  <2>2. QED
    BY <1>1, <2>1 DEF ObserveOnly
<1>3. Waiting' = Waiting
  BY <1>2 DEF Waiting
<1>4. RunTypeOK' /\ PlaceOK' /\ PoolOK' /\ ObservedOK' /\ Grown /\ Started /\ Started'
  BY <1>2, <1>3, HandledStep DEF TrialInv, RunTypeOK
<1>5. Watched' = Watched \cup {i}
  <2>1. \A s \in 1..Rungs : Range(observed'[s]) =
          IF s = r THEN Range(observed[s]) \cup {i} ELSE Range(observed[s])
    BY <1>1, <1>2 DEF TrialInv, RunTypeOK
  <2> HIDE DEF r
  <2>2. QED
    BY <1>1, <2>1 DEF Watched
<1>6. Kept' = Kept
  BY <1>2, <1>5 DEF Kept, Handled
<1>7. Live' = Live
  BY <1>2, <1>3, <1>6 DEF Live, ExpOf, Handled
<1>8. LiveOK'
  BY <1>2, <1>4, <1>7 DEF TrialInv, LiveOK
<1>9. QED
  BY <1>4, <1>8 DEF TrialInv

\* The promotion that observing a receipt makes: of an eligible trial of the
\* rung, which is not the last one.
LEMMA ThePromotion ==
  ASSUME TrialInv, NEW i \in batch, Promotes(i)
  PROVE  LET r == evidence[i].rung
             n == NextPromotion(SeenAfter(i), promoted[r])
             d == PromotionBy(i)
         IN /\ r \in 1..(Rungs - 1)
            /\ n \in Eligible(SeenAfter(i), promoted[r])
            /\ n \in DOMAIN ObservedAfter(i) /\ d.receipt = ObservedAfter(i)[n]
            /\ d.receipt \in Range(ObservedAfter(i))
            /\ d.receipt \in DOMAIN evidence /\ evidence[d.receipt].rung = r
            /\ evidence[d.receipt].cand \in Candidates
            /\ evidence[d.receipt].cand \notin Range(promoted[r])
            /\ SeenAfter(i)[n] = evidence[d.receipt]
            /\ d.kind = "promotion" /\ d.observed = ObservedAfter(i) /\ d.before = promoted[r]
            /\ d.run = runs /\ d \in Decided
<1> USE DEF TrialInv
<1> DEFINE r == evidence[i].rung
           s == ObservedAfter(i)
           n == NextPromotion(SeenAfter(i), promoted[r])
           d == PromotionBy(i)
<1>1. /\ i \in DOMAIN evidence /\ r \in 1..Rungs
      /\ s \in Seq(Nat)
      /\ \A k \in DOMAIN s : s[k] \in Kept /\ evidence[s[k]].rung = r
      /\ Lineup(SeenAfter(i), r)
  BY AfterObserving
<1>2. r \in 1..(Rungs - 1) /\ Eligible(SeenAfter(i), promoted[r]) # {}
  BY <1>1, HalvingAssumption DEF Promotes, SlotOpen
<1>3. n \in Eligible(SeenAfter(i), promoted[r])
  BY <1>1, <1>2, BestIsNext
<1>4. /\ d = [kind |-> "promotion", receipt |-> s[n], observed |-> s, before |-> promoted[r],
              run |-> runs]
  BY DEF PromotionBy, Decision
<1>5. n \in DOMAIN s /\ SeenAfter(i)[n] = evidence[s[n]]
      /\ \A k \in DOMAIN promoted[r] : SeenAfter(i)[n].cand # promoted[r][k]
  BY <1>3 DEF Eligible, Feasible, SeenAfter
<1> HIDE DEF s, n, r
<1>6. /\ s[n] \in Range(s) /\ s[n] \in DOMAIN evidence /\ s[n] \in Nat
      /\ evidence[s[n]].rung = r /\ evidence[s[n]].cand \in Candidates
  <2>1. s[n] \in Kept /\ Kept \subseteq DOMAIN evidence /\ s[n] \in Nat
    BY <1>1, <1>5, LiveAreExperiments
  <2>2. evidence[s[n]] \in Receipt
    BY <2>1, ReceiptParts
  <2>3. s[n] \in Range(s)
    BY <1>5 DEF Range
  <2>4. evidence[s[n]].rung = r
    BY <1>1, <1>5
  <2>5. QED
    BY <2>1, <2>2, <2>3, <2>4 DEF Receipt
<1>7. evidence[s[n]].cand \notin Range(promoted[r])
  BY <1>5 DEF Range
<1>8. d \in Decided
  <2>1. promoted[r] \in Seq(Candidates) /\ runs \in Nat
    BY <1>1 DEF RunTypeOK
  <2>2. QED
    BY <1>1, <1>4, <1>6, <2>1 DEF Decided
<1>9. /\ d.receipt = s[n] /\ d.kind = "promotion" /\ d.observed = s /\ d.before = promoted[r]
      /\ d.run = runs
  BY <1>4
<1> HIDE DEF d
<1>10. QED
  BY <1>2, <1>3, <1>5, <1>6, <1>7, <1>8, <1>9 DEF s, n, r, d

\* The trial that is promoted joins those of the next rung.
LEMMA PromoteStep ==
  ASSUME TrialInv, pc = "handling", NEW i \in batch, ~Retried(i), ObserveAndPromote(i)
  PROVE  TrialInv' /\ Grown
<1> USE DEF TrialInv
<1> PICK r : r = evidence[i].rung
  OBVIOUS
<1> PICK d : d = PromotionBy(i)
  OBVIOUS
<1> PICK c : c = evidence[d.receipt].cand
  OBVIOUS
<1> PICK e : e = Exp(c, r + 1, 0, Len(decisions) + 1)
  OBVIOUS
<1>0. Promotes(i)
  BY DEF ObserveAndPromote
<1>1. /\ r \in 1..(Rungs - 1) /\ c \in Candidates /\ c \notin Range(promoted[r]) /\ d \in Decided
  BY <1>0, ThePromotion
<1>2. /\ i \in DOMAIN evidence /\ r \in 1..Rungs
      /\ ObservedAfter(i) = Append(observed[r], i)
      /\ Range(ObservedAfter(i)) = Range(observed[r]) \cup {i}
  BY AfterObserving
<1>3. /\ observed' = [observed EXCEPT ![evidence[i].rung] = Append(@, i)]
      /\ promoted' = [promoted EXCEPT ![r] = Append(@, c)]
      /\ decisions' = Append(decisions, d)
      /\ Schedule(e)
      /\ Handled(i)
  <2>1. observed' = [observed EXCEPT ![r] = ObservedAfter(i)]
    BY DEF ObserveAndPromote
  <2>2. QED
    BY <1>2, <2>1 DEF ObserveAndPromote
<1>4. e \in Experiment /\ e.cand = c /\ e.rung = r + 1
  <2>1. r + 1 \in 1..Rungs
    BY <1>1, HalvingAssumption
  <2>2. 0 \in 0..MaxRetries
    BY RunAssumption
  <2>3. Len(decisions) + 1 \in Nat
    BY DEF RunTypeOK
  <2>4. QED
    BY <1>1, <2>1, <2>2, <2>3 DEF Exp, Experiment
<1>5. r + 1 > 1 /\ (r + 1) - 1 = r /\ r + 1 \in Nat
  BY <1>1, HalvingAssumption
<1>6. \A x \in Live : ~(x.cand = c /\ x.rung = r + 1)
  BY <1>1, <1>5 DEF LiveOK, OnlyPromoted
<1>7. e \notin Live
  BY <1>4, <1>6
<1>8. /\ PoolShape(holding', queue')
      /\ ended \subseteq ended' /\ ended' \subseteq DOMAIN evidence
      /\ \A j \in ended' \ ended : ExpOf(j) = e /\ j \notin Kept
      /\ \A x \in Waiting' \ Waiting : x = e /\ ReceiptsOf(e) = {}
      /\ Waiting' \cup {ExpOf(j) : j \in ended'} = Waiting \cup {ExpOf(j) : j \in ended} \cup {e}
  BY <1>3, <1>4, <1>7, Scheduled
<1>9. decisions' \in Seq(Decided)
  BY <1>1, <1>3 DEF RunTypeOK
<1>10. promoted[r] \in Seq(Candidates) /\ IsInjective(promoted[r])
  BY <1>2 DEF RunTypeOK, LiveOK
<1>11. /\ Append(promoted[r], c) \in Seq(Candidates) /\ IsInjective(Append(promoted[r], c))
       /\ Range(Append(promoted[r], c)) = Range(promoted[r]) \cup {c}
  BY <1>1, <1>10, Appended
<1>12. promoted' \in [1..Rungs -> Seq(Candidates)]
  BY <1>2, <1>3, <1>11 DEF RunTypeOK
<1>13. RunTypeOK' /\ PlaceOK' /\ PoolOK' /\ ObservedOK' /\ Grown /\ Started /\ Started'
  BY <1>3, <1>8, <1>9, <1>12, HandledStep
<1>14. Watched' = Watched \cup {i}
  <2>1. \A s \in 1..Rungs : Range(observed'[s]) =
          IF s = r THEN Range(observed[s]) \cup {i} ELSE Range(observed[s])
    BY <1>2, <1>3 DEF RunTypeOK
  <2>2. QED
    BY <1>2, <2>1 DEF Watched
<1>15. Live' = Live \cup {e}
  <2>1. Kept' = ended' \cup batch \cup Watched
    BY <1>3, <1>14 DEF Kept, Handled
  <2>2. Live' = Waiting' \cup {ExpOf(j) : j \in ended' \cup batch \cup Watched}
    BY <1>3, <2>1 DEF Live, ExpOf, Handled
  <2>3. Live' = Waiting' \cup {ExpOf(j) : j \in ended'} \cup {ExpOf(j) : j \in batch \cup Watched}
    BY <2>2
  <2>4. Live = Waiting \cup {ExpOf(j) : j \in ended} \cup {ExpOf(j) : j \in batch \cup Watched}
    BY DEF Live, Kept
  <2>5. QED
    BY <1>8, <2>3, <2>4
<1>16. \A s \in 1..Rungs : promoted'[s] = IF s = r THEN Append(promoted[s], c) ELSE promoted[s]
  BY <1>3 DEF RunTypeOK
<1>17. \A s \in 1..Rungs : Range(promoted'[s]) =
         IF s = r THEN Range(promoted[s]) \cup {c} ELSE Range(promoted[s])
  BY <1>11, <1>16
<1>18. LiveOK'
  <2>1. OnePerRung(Live \cup {e})
    BY <1>4, <1>6 DEF LiveOK, OnePerRung
  <2>2. OnlyPromoted(Live \cup {e}, promoted')
    <3> SUFFICES ASSUME NEW x \in Live \cup {e}, x.rung > 1
        PROVE  x.cand \in Range(promoted'[x.rung - 1])
      BY DEF OnlyPromoted
    <3>1. CASE x = e
      BY <1>2, <1>4, <1>5, <1>17, <3>1
    <3>2. CASE x \in Live
      <4>1. x \in Experiment
        BY <3>2, LiveAreExperiments
      <4>2. x.rung - 1 \in 1..Rungs
        BY <4>1, HalvingAssumption DEF Experiment
      <4>3. QED
        BY <1>17, <3>2, <4>2 DEF LiveOK, OnlyPromoted
    <3>3. QED
      BY <3>1, <3>2
  <2>3. AllTried(Live \cup {e}, promoted')
    <3>1. \A s \in 1..(Rungs - 1) : s \in 1..Rungs
      BY HalvingAssumption
    <3>2. AllTried(Live, promoted)
      BY <1>13 DEF LiveOK
    <3>3. ASSUME NEW s \in 1..(Rungs - 1), NEW k \in Range(promoted'[s])
          PROVE  \E x \in Live \cup {e} : x.cand = k /\ x.rung = s + 1
      <4>1. CASE k \in Range(promoted[s])
        BY <3>2, <4>1 DEF AllTried
      <4>2. CASE s = r /\ k = c
        BY <1>4, <4>2
      <4>3. QED
        BY <1>17, <3>1, <4>1, <4>2
    <3>4. \A k \in Candidates : \E x \in Live \cup {e} : x.cand = k /\ x.rung = 1
      BY <3>2 DEF AllTried
    <3>5. QED
      BY <3>3, <3>4 DEF AllTried
  <2>4. \A s \in 1..Rungs : IsInjective(promoted'[s])
    BY <1>11, <1>16 DEF LiveOK
  <2>5. (\A s \in 1..Rungs : IsInjective(promoted[s]))'
    BY <2>4 DEF IsInjective
  <2>6. OnePerRung(Live)' /\ OnlyPromoted(Live, promoted)' /\ AllTried(Live, promoted)'
    BY <1>15, <2>1, <2>2, <2>3 DEF OnePerRung, OnlyPromoted, AllTried
  <2>7. QED
    BY <2>5, <2>6 DEF LiveOK
<1>19. QED
  BY <1>13, <1>18

-----------------------------------------------------------------------------

\* What handling a receipt comes to.
LEMMA HandleCases ==
  ASSUME TrialInv, Handle
  PROVE  /\ pc = "handling"
         /\ \E i \in batch :
              /\ \A j \in batch : i <= j
              /\ \/ Retried(i) /\ Retry(i)
                 \/ ~Retried(i) /\ ObserveOnly(i)
                 \/ ~Retried(i) /\ ObserveAndPromote(i)
                 \/ Redecided(i)
<1>1. batch # {} /\ pc = "handling"
  BY DEF TrialInv, PlaceOK, Handle
<1>2. First(batch) \in batch /\ \A j \in batch : First(batch) <= j
  BY <1>1, FirstIsLeast DEF TrialInv
<1>3. QED
  BY <1>1, <1>2 DEF Handle

LEMMA TrialStep ==
  ASSUME TrialInv, Next
  PROVE  TrialInv' /\ Grown
<1>1. CASE Start
  BY <1>1, StartStep
<1>2. CASE Crash
  BY <1>2, StopStep DEF Crash
<1>3. CASE Settle
  BY <1>3, SettleStep
<1>4. CASE Collect
  BY <1>4, CollectStep
<1>5. CASE Handle
  <2>1. PICK i \in batch : \/ Retried(i) /\ Retry(i)
                           \/ ~Retried(i) /\ ObserveOnly(i)
                           \/ ~Retried(i) /\ ObserveAndPromote(i)
                           \/ Redecided(i)
    BY <1>5, HandleCases
  <2>2. pc = "handling"
    BY <1>5, HandleCases
  <2>3. CASE Redecided(i)
    BY <2>3, StopStep DEF Redecided
  <2>4. QED
    BY <2>1, <2>2, <2>3, RetryStep, ObserveStep, PromoteStep
<1>6. CASE Finish
  BY <1>6, FinishStep
<1>7. QED
  BY <1>1, <1>2, <1>3, <1>4, <1>5, <1>6 DEF Next

LEMMA TrialStutter ==
  ASSUME TrialInv, UNCHANGED vars
  PROVE  TrialInv' /\ Grown
<1> USE DEF TrialInv, vars
<1>1. Waiting' = Waiting /\ Kept' = Kept
  BY DEF Waiting, Kept, Watched
<1>2. Live' = Live
  BY <1>1 DEF Live, ExpOf
<1>3. RunTypeOK' /\ PlaceOK' /\ PoolOK'
  BY <1>1 DEF RunTypeOK, PlaceOK, PoolOK, PoolShape, Started, ReceiptsOf, ExpOf
<1>4. ObservedOK' /\ LiveOK'
  BY <1>2 DEF ObservedOK, LiveOK, Started, Retried
<1>5. QED
  BY <1>3, <1>4 DEF Grown

\* Every trial of the run is in exactly one place: waiting for a permit or
\* holding one, ended, collected or observed; each candidate has one on the
\* first rung and, on a later rung, one if the rung before it promoted it.
THEOREM TrialInvariant == Spec => []TrialInv
<1>1. Init => TrialInv
  BY InitTrials
<1>2. TrialInv /\ [Next]_vars => TrialInv'
  BY TrialStep, TrialStutter
<1>3. QED
  BY <1>1, <1>2, PTL DEF Spec

-----------------------------------------------------------------------------
(* A run that ends has settled every trial *)

LEMMA RangeOfInjective ==
  ASSUME NEW S, NEW s \in Seq(S), IsInjective(s)
  PROVE  IsFiniteSet(Range(s)) /\ Cardinality(Range(s)) = Len(s)
<1>1. Len(s) \in Nat /\ DOMAIN s = 1..Len(s) /\ s = [k \in 1..Len(s) |-> s[k]]
  OBVIOUS
<1>2. s \in Surjection(1..Len(s), Range(s)) /\ s \in Injection(1..Len(s), Range(s))
  <2>1. s \in [1..Len(s) -> Range(s)]
    BY <1>1 DEF Range
  <2>2. \A t \in Range(s) : \E k \in 1..Len(s) : s[k] = t
    BY <1>1 DEF Range
  <2>3. QED
    BY <2>1, <2>2 DEF Surjection, Injection
<1>3. IsFiniteSet(1..Len(s)) /\ Cardinality(1..Len(s)) = Len(s)
  <2>1. ASSUME NEW n \in Nat PROVE IsFiniteSet(1..n) /\ Cardinality(1..n) = n
    BY FS_Interval
  <2>2. Len(s) \in Nat
    BY <1>1
  <2>3. QED
    BY <2>1, <2>2
<1>4. QED
  BY <1>2, <1>3, FS_Surjection

LEMMA ObservedLineup ==
  ASSUME TrialInv, NEW r \in 1..Rungs
  PROVE  /\ observed[r] \in Seq(Nat) /\ IsInjective(observed[r])
         /\ \A k \in DOMAIN observed[r] :
              observed[r][k] \in Kept /\ evidence[observed[r][k]].rung = r
         /\ Lineup(Seen(r), r)
<1>1. observed[r] \in Seq(Nat) /\ IsInjective(observed[r])
  BY DEF TrialInv, RunTypeOK, ObservedOK
<1>2. \A k \in DOMAIN observed[r] : observed[r][k] \in Range(observed[r])
  BY DEF Range
<1>3. \A k \in DOMAIN observed[r] : observed[r][k] \in Kept /\ evidence[observed[r][k]].rung = r
  BY <1>2 DEF TrialInv, ObservedOK, Kept, Watched
<1>4. Lineup(Seen(r), r)
  BY <1>1, <1>3, KeptLineup DEF Seen
<1>5. QED
  BY <1>1, <1>3, <1>4

\* The candidates of receipts of a rung that the runner has, each once.
LEMMA KeptCandidates ==
  ASSUME TrialInv, NEW r \in 1..Rungs, NEW s \in Seq(Nat), IsInjective(s),
         \A k \in DOMAIN s : s[k] \in Kept /\ evidence[s[k]].rung = r
  PROVE  LET cs == [k \in DOMAIN s |-> evidence[s[k]].cand]
         IN /\ cs \in Seq(Candidates) /\ IsInjective(cs) /\ Len(cs) = Len(s)
            /\ Range(cs) \subseteq (IF r = 1 THEN Candidates ELSE Range(promoted[r - 1]))
<1> DEFINE cs == [k \in DOMAIN s |-> evidence[s[k]].cand]
           obs == [k \in DOMAIN s |-> evidence[s[k]]]
<1>1. Lineup(obs, r)
  BY KeptLineup
<1>2. Len(s) \in Nat /\ DOMAIN s = 1..Len(s)
  BY <1>1
<1>3. ASSUME NEW k \in DOMAIN s
      PROVE  /\ evidence[s[k]].cand \in Candidates /\ ExpOf(s[k]) \in Live
             /\ ExpOf(s[k]).cand = evidence[s[k]].cand /\ ExpOf(s[k]).rung = r
  <2>1. s[k] \in DOMAIN evidence /\ ExpOf(s[k]) \in Live
    BY LiveAreExperiments DEF TrialInv, Live
  <2>2. /\ evidence[s[k]] \in Receipt /\ ExpOf(s[k]).cand = evidence[s[k]].cand
        /\ ExpOf(s[k]).rung = evidence[s[k]].rung
    BY <2>1, ReceiptParts DEF TrialInv
  <2>3. QED
    BY <2>1, <2>2 DEF Receipt
<1>4. cs \in Seq(Candidates) /\ Len(cs) = Len(s)
  <2>1. cs \in [1..Len(s) -> Candidates] /\ DOMAIN cs = 1..Len(s)
    BY <1>2, <1>3
  <2> HIDE DEF cs
  <2>2. cs \in Seq(Candidates)
    BY <1>2, <2>1, SeqDef
  <2>3. QED
    BY <1>2, <2>1, <2>2
<1>5. IsInjective(cs)
  <2> SUFFICES ASSUME NEW j \in DOMAIN s, NEW k \in DOMAIN s,
                      evidence[s[j]].cand = evidence[s[k]].cand
      PROVE  j = k
    BY DEF IsInjective
  <2>1. obs[j].cand = obs[k].cand /\ j \in DOMAIN obs /\ k \in DOMAIN obs
    OBVIOUS
  <2>2. QED
    BY <1>1, <2>1 DEF Lineup
<1>6. ASSUME NEW k \in DOMAIN s
      PROVE  evidence[s[k]].cand \in (IF r = 1 THEN Candidates ELSE Range(promoted[r - 1]))
  <2>1. r # 1 => r > 1
    BY HalvingAssumption
  <2>2. r # 1 => ExpOf(s[k]).cand \in Range(promoted[r - 1])
    BY <1>3, <2>1 DEF TrialInv, LiveOK, OnlyPromoted
  <2>3. QED
    BY <1>3, <2>2
<1>7. Range(cs) \subseteq (IF r = 1 THEN Candidates ELSE Range(promoted[r - 1]))
  BY <1>6 DEF Range
<1>8. QED
  BY <1>4, <1>5, <1>7

LEMMA AllSettled ==
  ASSUME TrialInv
  PROVE  EveryTrialIsSettled
<1> SUFFICES ASSUME pc = "done", NEW r \in 1..Rungs
    PROVE  /\ Range([k \in DOMAIN observed[r] |-> evidence[observed[r][k]].cand]) =
                (IF r = 1 THEN Candidates ELSE Range(promoted[r - 1]))
           /\ Len(observed[r]) = (IF r = 1 THEN Initial ELSE Len(promoted[r - 1]))
           /\ \A k \in DOMAIN observed[r] :
                evidence[observed[r][k]].outcome = "retryable"
                  => evidence[observed[r][k]].attempt = MaxRetries
  BY DEF EveryTrialIsSettled
<1> DEFINE s == observed[r]
           cs == [k \in DOMAIN s |-> evidence[s[k]].cand]
           All == IF r = 1 THEN Candidates ELSE Range(promoted[r - 1])
<1>1. cs \in Seq(Candidates) /\ IsInjective(cs) /\ Len(cs) = Len(s) /\ Range(cs) \subseteq All
  BY ObservedLineup, KeptCandidates
<1>2. Started /\ Live = {ExpOf(i) : i \in Watched}
  <2>1. Waiting = {} /\ ended = {} /\ batch = {}
    BY DEF TrialInv, PlaceOK
  <2>2. QED
    BY <2>1 DEF Started, Live, Kept
<1>3. ASSUME NEW x \in Live, x.rung = r PROVE \E k \in DOMAIN s : x.cand = evidence[s[k]].cand
  <2>1. PICK i \in Watched : x = ExpOf(i)
    BY <1>2
  <2>2. PICK q \in 1..Rungs : i \in Range(observed[q])
    BY DEF Watched
  <2>3. i \in DOMAIN evidence /\ evidence[i].rung = q
    BY <2>2 DEF TrialInv, ObservedOK
  <2>4. x.rung = q /\ x.cand = evidence[i].cand
    BY <2>1, <2>3, ReceiptParts DEF TrialInv
  <2>5. PICK k \in DOMAIN observed[q] : observed[q][k] = i
    BY <2>2 DEF Range
  <2>6. QED
    BY <1>3, <2>4, <2>5
<1>4. ASSUME NEW c \in All PROVE c \in Range(cs)
  <2>1. \E x \in Live : x.cand = c /\ x.rung = r
    <3>1. AllTried(Live, promoted)
      BY <1>2 DEF TrialInv, LiveOK
    <3>2. CASE r = 1
      BY <3>1, <3>2 DEF AllTried
    <3>3. CASE r # 1
      <4>1. r - 1 \in 1..(Rungs - 1) /\ (r - 1) + 1 = r
        BY <3>3, HalvingAssumption
      <4>2. c \in Range(promoted[r - 1])
        BY <3>3
      <4>3. \E x \in Live : x.cand = c /\ x.rung = (r - 1) + 1
        BY <3>1, <4>1, <4>2 DEF AllTried
      <4>4. QED
        BY <4>1, <4>3
    <3>4. QED
      BY <3>2, <3>3
  <2>2. PICK k \in DOMAIN s : c = evidence[s[k]].cand
    BY <1>3, <2>1
  <2>3. QED
    BY <2>2 DEF Range
<1>5. Range(cs) = All
  BY <1>1, <1>4
<1> HIDE DEF cs
<1>6. Len(s) = (IF r = 1 THEN Initial ELSE Len(promoted[r - 1]))
  <2>1. Cardinality(All) = Len(s)
    BY <1>1, <1>5, RangeOfInjective
  <2>2. CASE r = 1
    <3>1. Cardinality(1..Initial) = Initial
      BY HalvingAssumption, FS_Interval
    <3>2. QED
      BY <2>1, <2>2, <3>1 DEF Candidates
  <2>3. CASE r # 1
    <3>1. r - 1 \in 1..Rungs
      BY <2>3, HalvingAssumption
    <3>2. promoted[r - 1] \in Seq(Candidates) /\ IsInjective(promoted[r - 1])
      BY <3>1 DEF TrialInv, RunTypeOK, LiveOK
    <3>3. Cardinality(Range(promoted[r - 1])) = Len(promoted[r - 1])
      BY <3>2, RangeOfInjective
    <3>4. QED
      BY <2>1, <2>3, <3>3
  <2>4. QED
    BY <2>2, <2>3
<1>7. ASSUME NEW k \in DOMAIN s, evidence[s[k]].outcome = "retryable"
      PROVE  evidence[s[k]].attempt = MaxRetries
  <2>1. s[k] \in Range(s)
    BY DEF Range
  <2>2. s[k] \in DOMAIN evidence /\ ~Retried(s[k])
    BY <2>1 DEF TrialInv, ObservedOK
  <2>3. evidence[s[k]].attempt \in 0..MaxRetries
    BY <2>2, ReceiptParts DEF TrialInv, Receipt
  <2>4. QED
    BY <1>7, <2>2, <2>3, RunAssumption DEF Retried
<1>8. QED
  BY <1>5, <1>6, <1>7 DEF cs

\* A run that completes has observed every candidate once on the first rung
\* and every promoted one once on the rung it was promoted to, and has given
\* none up while a retry was left (run and handle of runtime/asha.py).
THEOREM EveryTrialIsAlwaysSettled == Spec => []EveryTrialIsSettled
  BY TrialInvariant, AllSettled, PTL

-----------------------------------------------------------------------------
(* How many trials a rung has promoted *)

PaceInv == \A r \in 1..(Rungs - 1) : Len(promoted[r]) = Allowed(r, Seen(r))

LEMMA QuotientOfNext ==
  ASSUME NEW a \in Nat
  PROVE  LET q == a \div Eta
             p == (a + 1) \div Eta
         IN q \in Nat /\ (p = q \/ p = q + 1) /\ ((a + 1) % Eta = 0 => p = q + 1)
<1> DEFINE q == a \div Eta
           p == (a + 1) \div Eta
<1>1. Eta \in Nat /\ Eta > 0 /\ Eta >= 2 /\ a + 1 \in Nat
  BY HalvingAssumption
<1>2. q \in Nat /\ Eta * q <= a /\ a < Eta * q + Eta
  BY <1>1, QuotientBounds
<1>3. Eta * q \in Nat /\ Eta * (q + 1) = Eta * q + Eta /\ q + 1 \in Nat
  BY <1>1, <1>2
<1>4. CASE a + 1 < Eta * q + Eta
  <2>1. p = q
    <3> HIDE DEF q
    <3>1. QED
      BY <1>1, <1>2, <1>3, <1>4, QuotientIs
  <2>2. (a + 1) % Eta # 0
    <3>1. (a + 1) = Eta * p + ((a + 1) % Eta)
      BY <1>1
    <3>2. a + 1 = Eta * q + ((a + 1) % Eta)
      BY <2>1, <3>1
    <3> HIDE DEF p, q
    <3>3. SUFFICES ASSUME (a + 1) % Eta = 0 PROVE FALSE
      OBVIOUS
    <3>4. a + 1 = Eta * q
      BY <1>3, <3>2, <3>3
    <3>5. QED
      BY <1>2, <1>3, <3>4
  <2>3. QED
    BY <1>2, <2>1, <2>2
<1>5. CASE ~(a + 1 < Eta * q + Eta)
  <2>1. a + 1 = Eta * q + Eta
    BY <1>1, <1>2, <1>3, <1>5
  <2>2. p = q + 1
    <3> HIDE DEF q
    <3>1. Eta * (q + 1) <= a + 1 /\ a + 1 < Eta * (q + 1) + Eta
      BY <1>1, <1>3, <2>1
    <3>2. QED
      BY <1>1, <1>3, <3>1, QuotientIs
  <2>3. QED
    BY <1>2, <2>2
<1>6. QED
  BY <1>4, <1>5

\* The more is divided, the larger the quotient; and it is not larger than
\* what is divided.
LEMMA QuotientGrows ==
  ASSUME NEW a \in Nat, NEW b \in Nat, a <= b
  PROVE  /\ a \div Eta \in Nat /\ b \div Eta \in Nat
         /\ a \div Eta <= b \div Eta
         /\ a \div Eta <= a /\ (a > 0 => a \div Eta < a)
<1> DEFINE p == a \div Eta
           q == b \div Eta
<1>1. Eta \in Nat /\ Eta > 0 /\ Eta >= 2
  BY HalvingAssumption
<1>2. p \in Nat /\ Eta * p <= a /\ q \in Nat /\ b < Eta * q + Eta
  BY <1>1, QuotientBounds
<1> HIDE DEF p, q
<1>3. Eta * p \in Nat /\ Eta * q \in Nat
  BY <1>1, <1>2
<1>4. p <= q
  <2> SUFFICES ASSUME q + 1 <= p PROVE FALSE
    BY <1>2
  <2>1. PICK z \in Nat : p = q + 1 + z
    <3>1. p - (q + 1) \in Nat /\ p = q + 1 + (p - (q + 1))
      BY <1>2
    <3>2. QED
      BY <3>1
  <2>2. Eta * p = Eta * q + Eta + Eta * z /\ Eta * z \in Nat
    BY <1>1, <1>2, <2>1
  <2>3. QED
    BY <1>1, <1>2, <1>3, <2>2
<1>5. p + p <= a
  <2>1. PICK z \in Nat : Eta = 2 + z
    <3>1. Eta - 2 \in Nat /\ Eta = 2 + (Eta - 2)
      BY <1>1
    <3>2. QED
      BY <3>1
  <2>2. Eta * p = p + p + z * p /\ z * p \in Nat
    BY <1>2, <2>1
  <2>3. QED
    BY <1>2, <1>3, <2>2
<1>6. QED
  BY <1>2, <1>4, <1>5 DEF p, q

LEMMA FeasibleCount ==
  ASSUME NEW r, NEW obs, Lineup(obs, r)
  PROVE  /\ Feasible(obs) \subseteq DOMAIN obs
         /\ IsFiniteSet(Feasible(obs)) /\ Cardinality(Feasible(obs)) \in Nat
         /\ Len(obs) \in Nat /\ Cardinality(Feasible(obs)) <= Len(obs)
<1>1. Len(obs) \in Nat /\ DOMAIN obs = 1..Len(obs)
  BY DEF Lineup
<1>2. IsFiniteSet(1..Len(obs)) /\ Cardinality(1..Len(obs)) = Len(obs)
  <2>1. ASSUME NEW n \in Nat PROVE IsFiniteSet(1..n) /\ Cardinality(1..n) = n
    BY FS_Interval
  <2>2. QED
    BY <1>1, <2>1
<1>3. Feasible(obs) \in SUBSET (1..Len(obs))
  BY <1>1 DEF Feasible
<1>4. QED
  BY <1>1, <1>2, <1>3, FS_Subset, FS_CardinalityType

\* While a feasible trial is left over, one is eligible.
LEMMA NoneEligible ==
  ASSUME NEW r, NEW obs, Lineup(obs, r), NEW P \in Seq(Candidates), IsInjective(P),
         Eligible(obs, P) = {}
  PROVE  Cardinality(Feasible(obs)) <= Len(P)
<1> DEFINE f == [i \in Feasible(obs) |-> obs[i].cand]
<1>1. \A i \in Feasible(obs) : obs[i].cand \in Range(P)
  BY DEF Eligible, Range
<1>2. f \in Injection(Feasible(obs), Range(P))
  <2>1. f \in [Feasible(obs) -> Range(P)]
    BY <1>1
  <2>2. IsInjective(f)
    BY DEF IsInjective, Lineup, Feasible
  <2>3. QED
    BY <2>1, <2>2 DEF Injection
<1>3. IsFiniteSet(Range(P)) /\ Cardinality(Range(P)) = Len(P)
  BY RangeOfInjective
<1> HIDE DEF f
<1>4. QED
  BY <1>2, <1>3, FS_Injection

LEMMA AllowedIs ==
  ASSUME NEW r \in 1..(Rungs - 1), NEW obs, Lineup(obs, r)
  PROVE  LET n == Cardinality(Feasible(obs))
         IN /\ n \in Nat /\ n \div Eta \in Nat /\ Capacity[r] \in Nat
            /\ Allowed(r, obs) = Min2(n \div Eta, Capacity[r])
            /\ Allowed(r, obs) \in Nat
            /\ Allowed(r, obs) <= n \div Eta /\ Allowed(r, obs) <= n
            /\ Allowed(r, obs) <= Capacity[r]
<1> DEFINE n == Cardinality(Feasible(obs))
<1>1. n \in Nat
  BY FeasibleCount
<1>2. Capacity[r] \in Nat
  BY CapacityOfRung, HalvingAssumption
<1> HIDE DEF n
<1>3. n \div Eta \in Nat /\ n \div Eta <= n
  BY <1>1, QuotientGrows
<1>4. Allowed(r, obs) = Min2(n \div Eta, Capacity[r])
  BY DEF Allowed, n
<1>5. QED
  BY <1>1, <1>2, <1>3, <1>4 DEF Min2, n

LEMMA SeenKept ==
  ASSUME TrialInv, Grown, NEW r \in 1..Rungs, observed'[r] = observed[r]
  PROVE  Seen(r)' = Seen(r)
<1>1. \A k \in DOMAIN observed[r] : observed[r][k] \in DOMAIN evidence
  BY ObservedLineup, LiveAreExperiments DEF TrialInv
<1>2. QED
  BY <1>1 DEF Seen, Grown

LEMMA SeenAppended ==
  ASSUME TrialInv, NEW i \in batch
  PROVE  LET r == evidence[i].rung
             n == Len(observed[r]) + 1
             obs == SeenAfter(i)
         IN /\ DOMAIN Seen(r) \subseteq DOMAIN obs /\ n \notin DOMAIN Seen(r) /\ n \in DOMAIN obs
            /\ \A k \in DOMAIN Seen(r) : obs[k] = Seen(r)[k]
            /\ obs[n] = evidence[i]
            /\ Feasible(obs) = IF evidence[i].outcome = "feasible"
                               THEN Feasible(Seen(r)) \cup {n} ELSE Feasible(Seen(r))
<1> DEFINE r == evidence[i].rung
           s == observed[r]
           m == Len(s)
           obs == SeenAfter(i)
<1>1. s \in Seq(Nat) /\ i \in Nat /\ ObservedAfter(i) = Append(s, i)
  BY AfterObserving DEF TrialInv, RunTypeOK
<1>2. /\ m \in Nat /\ DOMAIN s = 1..m /\ DOMAIN Append(s, i) = 1..(m + 1)
      /\ Append(s, i)[m + 1] = i /\ \A k \in 1..m : Append(s, i)[k] = s[k]
  BY <1>1
<1>3. DOMAIN obs = 1..(m + 1) /\ \A k \in 1..(m + 1) : obs[k] = evidence[Append(s, i)[k]]
  BY <1>1, <1>2 DEF SeenAfter
<1>4. DOMAIN Seen(r) = 1..m /\ \A k \in 1..m : Seen(r)[k] = evidence[s[k]]
  BY <1>2 DEF Seen
<1> HIDE DEF obs, m, s
<1>5. 1..(m + 1) = (1..m) \cup {m + 1} /\ m + 1 \notin 1..m
  BY <1>2
<1>6. obs[m + 1] = evidence[i] /\ \A k \in 1..m : obs[k] = Seen(r)[k]
  BY <1>2, <1>3, <1>4, <1>5
<1>7. Feasible(obs) = IF evidence[i].outcome = "feasible"
                      THEN Feasible(Seen(r)) \cup {m + 1} ELSE Feasible(Seen(r))
  BY <1>3, <1>4, <1>5, <1>6 DEF Feasible
<1>8. QED
  BY <1>3, <1>4, <1>5, <1>6, <1>7 DEF obs, m, s

\* One observation adds at most one to what may have been promoted.
LEMMA AllowedAfter ==
  ASSUME TrialInv, NEW i \in batch, evidence[i].rung < Rungs
  PROVE  LET r == evidence[i].rung
             n == Cardinality(Feasible(Seen(r)))
             m == Cardinality(Feasible(SeenAfter(i)))
         IN /\ r \in 1..(Rungs - 1) /\ r \in 1..Rungs
            /\ Lineup(Seen(r), r) /\ Lineup(SeenAfter(i), r)
            /\ n \in Nat /\ m = IF evidence[i].outcome = "feasible" THEN n + 1 ELSE n
            /\ Allowed(r, Seen(r)) <= Allowed(r, SeenAfter(i))
            /\ Allowed(r, SeenAfter(i)) <= Allowed(r, Seen(r)) + 1
<1> DEFINE r == evidence[i].rung
           n == Cardinality(Feasible(Seen(r)))
           m == Cardinality(Feasible(SeenAfter(i)))
<1>1. r \in 1..Rungs /\ r \in 1..(Rungs - 1) /\ Lineup(SeenAfter(i), r)
  <2>1. r \in 1..Rungs /\ Lineup(SeenAfter(i), r)
    BY AfterObserving
  <2>2. QED
    BY <2>1, HalvingAssumption
<1>2. Lineup(Seen(r), r)
  BY <1>1, ObservedLineup
<1>3. m = IF evidence[i].outcome = "feasible" THEN n + 1 ELSE n
  <2>1. IsFiniteSet(Feasible(Seen(r))) /\ Feasible(Seen(r)) \subseteq DOMAIN Seen(r)
    BY <1>2, FeasibleCount
  <2>2. CASE evidence[i].outcome = "feasible"
    <3>1. PICK k : k \notin Feasible(Seen(r)) /\ Feasible(SeenAfter(i)) = Feasible(Seen(r)) \cup {k}
      BY <2>1, <2>2, SeenAppended
    <3>2. QED
      BY <2>1, <2>2, <3>1, FS_AddElement
  <2>3. CASE evidence[i].outcome # "feasible"
    BY <2>3, SeenAppended
  <2>4. QED
    BY <2>2, <2>3
<1>4. /\ n \in Nat /\ Capacity[r] \in Nat /\ n \div Eta \in Nat
      /\ Allowed(r, Seen(r)) = Min2(n \div Eta, Capacity[r])
  BY <1>1, <1>2, AllowedIs
<1>5. Allowed(r, SeenAfter(i)) = Min2(m \div Eta, Capacity[r]) /\ m \div Eta \in Nat
  BY <1>1, AllowedIs
<1> HIDE DEF n, m
<1>6. m \div Eta = n \div Eta \/ m \div Eta = n \div Eta + 1
  BY <1>3, <1>4, QuotientOfNext
<1>7. /\ Allowed(r, Seen(r)) <= Allowed(r, SeenAfter(i))
      /\ Allowed(r, SeenAfter(i)) <= Allowed(r, Seen(r)) + 1
  BY <1>4, <1>5, <1>6 DEF Min2
<1>8. QED
  BY <1>1, <1>2, <1>3, <1>4, <1>7 DEF n, m

\* A step either leaves what a rung has observed and promoted as it is, or
\* forgets all of it, or is an observation.
LEMMA RungCases ==
  ASSUME TrialInv, Next
  PROVE  \/ UNCHANGED <<observed, promoted>>
         \/ \A r \in 1..Rungs : observed'[r] = <<>> /\ promoted'[r] = <<>>
         \/ \E i \in batch : ObserveOnly(i) \/ ObserveAndPromote(i)
<1>1. CASE Start \/ Collect \/ Finish
  BY <1>1 DEF Start, Collect, Finish
<1>2. CASE Crash
  BY <1>2 DEF Crash, Stop, Nothing
<1>3. CASE Settle
  BY <1>3 DEF Settle, Evaluate, Fail, TimeoutQueued, Record
<1>4. CASE Handle
  <2>1. PICK i \in batch : \/ Retry(i) \/ ObserveOnly(i) \/ ObserveAndPromote(i) \/ Redecided(i)
    BY <1>4, HandleCases
  <2>2. CASE Retry(i)
    BY <2>2 DEF Retry
  <2>3. CASE Redecided(i)
    BY <2>3 DEF Redecided, Stop, Nothing
  <2>4. QED
    BY <2>1, <2>2, <2>3
<1>5. QED
  BY <1>1, <1>2, <1>3, <1>4 DEF Next

\* What an observation changes on its own rung and on the others.
LEMMA ObservationEffect ==
  ASSUME TrialInv, NEW i \in batch, ObserveOnly(i) \/ ObserveAndPromote(i), NEW r \in 1..Rungs
  PROVE  /\ r # evidence[i].rung => observed'[r] = observed[r] /\ promoted'[r] = promoted[r]
         /\ r = evidence[i].rung =>
              /\ Seen(r)' = SeenAfter(i)
              /\ ObserveOnly(i) => ~Promotes(i) /\ promoted'[r] = promoted[r]
              /\ ObserveAndPromote(i) =>
                   /\ Promotes(i)
                   /\ promoted'[r] = Append(promoted[r], evidence[PromotionBy(i).receipt].cand)
<1>1. observed' = [observed EXCEPT ![evidence[i].rung] = ObservedAfter(i)] /\ evidence' = evidence
  BY DEF ObserveOnly, ObserveAndPromote, Handled
<1>2. \/ ObserveOnly(i) /\ ~Promotes(i) /\ promoted' = promoted
      \/ /\ ObserveAndPromote(i) /\ Promotes(i)
         /\ promoted' = [promoted EXCEPT ![evidence[i].rung] =
                           Append(@, evidence[PromotionBy(i).receipt].cand)]
  BY DEF ObserveOnly, ObserveAndPromote
<1>3. observed \in [1..Rungs -> Seq(Nat)] /\ promoted \in [1..Rungs -> Seq(Candidates)]
  BY DEF TrialInv, RunTypeOK
<1>4. r # evidence[i].rung => observed'[r] = observed[r] /\ promoted'[r] = promoted[r]
  BY <1>1, <1>2, <1>3
<1>5. ASSUME r = evidence[i].rung PROVE Seen(r)' = SeenAfter(i)
  <2>1. observed'[r] = ObservedAfter(i)
    BY <1>1, <1>3, <1>5
  <2>2. QED
    BY <1>1, <2>1 DEF Seen, SeenAfter
<1>6. ASSUME r = evidence[i].rung, ObserveOnly(i)
      PROVE  ~Promotes(i) /\ promoted'[r] = promoted[r]
  BY <1>6 DEF ObserveOnly
<1>7. ASSUME r = evidence[i].rung, ObserveAndPromote(i)
      PROVE  /\ Promotes(i)
             /\ promoted'[r] = Append(promoted[r], evidence[PromotionBy(i).receipt].cand)
  <2>1. Promotes(i) /\ promoted' = [promoted EXCEPT ![r] =
                           Append(@, evidence[PromotionBy(i).receipt].cand)]
    BY <1>7 DEF ObserveAndPromote
  <2>2. QED
    BY <1>3, <2>1
<1>8. QED
  BY <1>4, <1>5, <1>6, <1>7

LEMMA NothingSeen ==
  ASSUME NEW r \in 1..(Rungs - 1)
  PROVE  /\ Cardinality(Feasible(<<>>)) = 0
         /\ Allowed(r, <<>>) = 0
<1>1. Feasible(<<>>) = {}
  BY DEF Feasible
<1>2. Cardinality(Feasible(<<>>)) = 0
  BY <1>1, FS_EmptySet
<1>3. Lineup(<<>>, r)
  BY DEF Lineup
<1>4. Allowed(r, <<>>) \in Nat /\ Allowed(r, <<>>) <= 0
  BY <1>2, <1>3, AllowedIs
<1>5. QED
  BY <1>2, <1>4

LEMMA PaceStep ==
  ASSUME TrialInv, PaceInv, Next
  PROVE  PaceInv'
<1> SUFFICES ASSUME NEW r \in 1..(Rungs - 1)
    PROVE  Len(promoted'[r]) = Allowed(r, Seen(r)')
  BY DEF PaceInv, Allowed
<1>0. r \in 1..Rungs /\ Len(promoted[r]) = Allowed(r, Seen(r))
  BY HalvingAssumption DEF PaceInv
<1>1. CASE observed'[r] = observed[r] /\ promoted'[r] = promoted[r]
  BY <1>0, <1>1, TrialStep, SeenKept
<1>2. CASE observed'[r] = <<>> /\ promoted'[r] = <<>>
  <2>1. Seen(r)' = <<>>
    BY <1>2 DEF Seen
  <2>2. QED
    BY <1>2, <2>1, NothingSeen
<1>3. ASSUME NEW i \in batch, ObserveOnly(i) \/ ObserveAndPromote(i), r = evidence[i].rung
      PROVE  Len(promoted'[r]) = Allowed(r, Seen(r)')
  <2>1. Seen(r)' = SeenAfter(i)
    BY <1>0, <1>3, ObservationEffect
  <2>2. r < Rungs /\ promoted[r] \in Seq(Candidates) /\ IsInjective(promoted[r])
    BY <1>0, HalvingAssumption DEF TrialInv, RunTypeOK, LiveOK
  <2>3. /\ Lineup(SeenAfter(i), r)
        /\ Allowed(r, Seen(r)) <= Allowed(r, SeenAfter(i))
        /\ Allowed(r, SeenAfter(i)) <= Allowed(r, Seen(r)) + 1
    BY <1>3, <2>2, AllowedAfter
  <2>4. /\ Allowed(r, Seen(r)) \in Nat /\ Allowed(r, SeenAfter(i)) \in Nat
        /\ Allowed(r, SeenAfter(i)) <= Cardinality(Feasible(SeenAfter(i)))
        /\ Cardinality(Feasible(SeenAfter(i))) \in Nat
    BY <1>0, <2>3, AllowedIs, ObservedLineup
  <2>5. CASE ObserveOnly(i)
    <3>1. ~Promotes(i) /\ promoted'[r] = promoted[r]
      BY <1>0, <1>3, <2>5, ObservationEffect
    <3>2. \/ ~(Len(promoted[r]) < Allowed(r, SeenAfter(i)))
          \/ Eligible(SeenAfter(i), promoted[r]) = {}
      BY <1>3, <2>2, <3>1 DEF Promotes, SlotOpen
    <3>3. Eligible(SeenAfter(i), promoted[r]) = {} =>
            Cardinality(Feasible(SeenAfter(i))) <= Len(promoted[r])
      BY <2>2, <2>3, NoneEligible
    <3>4. QED
      BY <1>0, <2>1, <2>3, <2>4, <3>1, <3>2, <3>3
  <2>6. CASE ObserveAndPromote(i)
    <3> PICK c : c = evidence[PromotionBy(i).receipt].cand
      OBVIOUS
    <3>1. Promotes(i) /\ promoted'[r] = Append(promoted[r], c)
      BY <1>0, <1>3, <2>6, ObservationEffect
    <3>2. Len(promoted[r]) < Allowed(r, SeenAfter(i))
      BY <1>3, <3>1 DEF Promotes, SlotOpen
    <3>3. Len(promoted'[r]) = Len(promoted[r]) + 1
      BY <2>2, <3>1
    <3>4. QED
      BY <1>0, <2>1, <2>3, <2>4, <3>2, <3>3
  <2>7. QED
    BY <1>3, <2>5, <2>6
<1>4. QED
  BY <1>0, <1>1, <1>2, <1>3, RungCases, ObservationEffect

LEMMA PaceInit == Init => PaceInv
<1> SUFFICES ASSUME Init, NEW r \in 1..(Rungs - 1) PROVE Len(promoted[r]) = Allowed(r, Seen(r))
  BY DEF PaceInv
<1>1. r \in 1..Rungs
  BY HalvingAssumption
<1>2. promoted[r] = <<>> /\ Seen(r) = <<>>
  BY <1>1 DEF Init, Seen
<1>3. QED
  BY <1>2, NothingSeen

LEMMA PaceStutter ==
  ASSUME TrialInv, PaceInv, UNCHANGED vars
  PROVE  PaceInv'
<1> SUFFICES ASSUME NEW r \in 1..(Rungs - 1)
    PROVE  Len(promoted'[r]) = Allowed(r, Seen(r)')
  BY DEF PaceInv, Allowed
<1>1. r \in 1..Rungs /\ Len(promoted[r]) = Allowed(r, Seen(r))
  BY HalvingAssumption DEF PaceInv
<1>2. Seen(r)' = Seen(r) /\ promoted' = promoted
  BY <1>1, TrialStutter, SeenKept DEF vars
<1>3. QED
  BY <1>1, <1>2

THEOREM PaceInvariant == Spec => []PaceInv
<1>1. TrialInv /\ PaceInv /\ [Next]_vars => PaceInv'
  BY PaceStep, PaceStutter
<1>2. QED
  BY <1>1, PaceInit, TrialInvariant, PTL DEF Spec

\* In whatever order evaluations end, time out, are retried and are
\* collected, a rung has promoted exactly one in eta of its feasible
\* observations, up to its capacity (observe of operators/asha.py).
THEOREM PromotionsAlwaysKeepPace == Spec => []PromotionsKeepPace
<1>1. TrialInv /\ PaceInv => PromotionsKeepPace
  <2> SUFFICES ASSUME TrialInv, PaceInv, NEW r \in 1..(Rungs - 1)
      PROVE  Len(promoted[r]) =
               Min2(Cardinality({k \in DOMAIN observed[r] :
                                   evidence[observed[r][k]].outcome = "feasible"}) \div Eta,
                    Initial \div Power[r])
    BY DEF PromotionsKeepPace
  <2>1. {k \in DOMAIN observed[r] : evidence[observed[r][k]].outcome = "feasible"}
          = Feasible(Seen(r))
    BY DEF Feasible, Seen
  <2>2. Capacity[r] = Initial \div Power[r]
    BY HalvingAssumption DEF Capacity
  <2>3. Len(promoted[r]) = Min2(Cardinality(Feasible(Seen(r))) \div Eta, Capacity[r])
    BY DEF PaceInv, Allowed
  <2>4. QED
    BY <2>1, <2>2, <2>3
<1>2. QED
  BY <1>1, TrialInvariant, PaceInvariant, PTL

-----------------------------------------------------------------------------
(* Which trials a rung has promoted *)

\* The best of the feasible observations is among the promoted.
LeaderIn(obs, P) ==
  \E b \in Feasible(obs) :
    /\ obs[b].cand \in Range(P)
    /\ \A j \in Feasible(obs) \ {b} : RanksBefore(obs[b], obs[j])

FullGroups(obs) ==
  LET n == Cardinality(Feasible(obs)) IN n > 0 /\ n % Eta = 0

LeadInv == \A r \in 1..(Rungs - 1) : FullGroups(Seen(r)) => LeaderIn(Seen(r), promoted[r])

\* A rung never observes more trials than the rung before it has room for.
LEMMA RungIsBounded ==
  ASSUME TrialInv, PaceInv, NEW i \in batch, evidence[i].rung < Rungs
  PROVE  Cardinality(Feasible(SeenAfter(i))) \div Eta <= Capacity[evidence[i].rung]
<1> DEFINE r == evidence[i].rung
           s == ObservedAfter(i)
           cs == [k \in DOMAIN s |-> evidence[s[k]].cand]
           All == IF r = 1 THEN Candidates ELSE Range(promoted[r - 1])
           m == Cardinality(Feasible(SeenAfter(i)))
           prev == IF r = 1 THEN Initial ELSE Capacity[r - 1]
<1>1. /\ r \in 1..Rungs /\ s \in Seq(Nat) /\ IsInjective(s)
      /\ \A k \in DOMAIN s : s[k] \in Kept /\ evidence[s[k]].rung = r
      /\ Lineup(SeenAfter(i), r)
  BY AfterObserving
<1>2. cs \in Seq(Candidates) /\ IsInjective(cs) /\ Len(cs) = Len(s) /\ Range(cs) \subseteq All
  <2> HIDE DEF s, r
  <2>1. QED
    BY <1>1, KeptCandidates DEF r
<1>3. Len(SeenAfter(i)) = Len(s)
  <2>1. Len(s) \in Nat /\ DOMAIN s = 1..Len(s) /\ SeenAfter(i) \in Seq(Receipt)
    BY <1>1 DEF Lineup
  <2>2. DOMAIN SeenAfter(i) = DOMAIN s
    BY DEF SeenAfter
  <2>3. Len(SeenAfter(i)) \in Nat /\ DOMAIN SeenAfter(i) = 1..Len(SeenAfter(i))
    BY <2>1
  <2>4. \A a, b \in Nat : 1..a = 1..b => a = b
    <3> SUFFICES ASSUME NEW a \in Nat, NEW b \in Nat, 1..a = 1..b, a < b PROVE FALSE
      OBVIOUS
    <3>1. b \in 1..b /\ b \notin 1..a
      OBVIOUS
    <3>2. QED
      BY <3>1
  <2>5. QED
    BY <2>1, <2>2, <2>3, <2>4
<1>4. m \in Nat /\ m <= Len(s)
  BY <1>1, <1>3, FeasibleCount
<1> HIDE DEF cs, m, s
<1>5. IsFiniteSet(Range(cs)) /\ Cardinality(Range(cs)) = Len(s)
  BY <1>2, RangeOfInjective
<1>6. IsFiniteSet(All) /\ Cardinality(All) <= prev /\ prev \in Nat
  <2>1. CASE r = 1
    <3>1. IsFiniteSet(1..Initial) /\ Cardinality(1..Initial) = Initial /\ Initial \in Nat
      BY HalvingAssumption, FS_Interval
    <3>2. QED
      BY <2>1, <3>1 DEF Candidates
  <2>2. CASE r # 1
    <3>1. r - 1 \in 1..Rungs /\ r - 1 \in 1..(Rungs - 1)
      BY <1>1, <2>2, HalvingAssumption
    <3> DEFINE P == promoted[r - 1]
    <3>2. P \in Seq(Candidates) /\ IsInjective(P) /\ Lineup(Seen(r - 1), r - 1)
      BY <3>1, ObservedLineup DEF TrialInv, RunTypeOK, LiveOK
    <3>3. Len(P) = Allowed(r - 1, Seen(r - 1))
      BY <3>1 DEF PaceInv
    <3>4. Allowed(r - 1, Seen(r - 1)) <= Capacity[r - 1] /\ Capacity[r - 1] \in Nat
      BY <3>1, <3>2, AllowedIs
    <3> HIDE DEF P
    <3>5. IsFiniteSet(Range(P)) /\ Cardinality(Range(P)) = Len(P)
      BY <3>2, RangeOfInjective
    <3>6. QED
      BY <2>2, <3>3, <3>4, <3>5 DEF P
  <2>3. QED
    BY <2>1, <2>2
<1>7. Cardinality(Range(cs)) <= Cardinality(All) /\ Cardinality(All) \in Nat
  BY <1>2, <1>6, FS_Subset, FS_CardinalityType
<1>8. Capacity[r] = prev \div Eta
  <2>1. r # 1 => r \in 2..Rungs
    BY <1>1, HalvingAssumption
  <2>2. QED
    BY <2>1, CapacityOfRung
<1> HIDE DEF prev, All
<1>9. m <= prev
  <2>1. Len(s) \in Nat
    BY <1>1 DEF s
  <2>2. QED
    BY <1>4, <1>5, <1>6, <1>7, <2>1
<1>10. m \div Eta <= prev \div Eta
  BY <1>4, <1>6, <1>9, QuotientGrows
<1>11. QED
  BY <1>8, <1>10 DEF m, r

\* A full group of feasible observations lets a trial be promoted.
LEMMA FullGroupPromotes ==
  ASSUME TrialInv, PaceInv, NEW i \in batch, evidence[i].rung < Rungs,
         evidence[i].outcome = "feasible", FullGroups(SeenAfter(i))
  PROVE  Promotes(i)
<1> DEFINE r == evidence[i].rung
           n == Cardinality(Feasible(Seen(r)))
           m == Cardinality(Feasible(SeenAfter(i)))
           P == promoted[r]
<1>1. /\ r \in 1..(Rungs - 1) /\ r \in 1..Rungs
      /\ Lineup(Seen(r), r) /\ Lineup(SeenAfter(i), r)
      /\ n \in Nat /\ m = n + 1
  BY AllowedAfter
<1>2. P \in Seq(Candidates) /\ IsInjective(P) /\ Len(P) = Allowed(r, Seen(r))
  BY <1>1 DEF TrialInv, RunTypeOK, LiveOK, PaceInv
<1>3. Allowed(r, Seen(r)) <= n \div Eta /\ Allowed(r, Seen(r)) \in Nat /\ n \div Eta \in Nat
      /\ n \div Eta <= n
  BY <1>1, AllowedIs, QuotientGrows
<1>4. /\ Allowed(r, SeenAfter(i)) = Min2(m \div Eta, Capacity[r])
      /\ m \div Eta \in Nat /\ Capacity[r] \in Nat
  BY <1>1, AllowedIs
<1>5. m \div Eta <= Capacity[r]
  BY RungIsBounded
<1>6. Allowed(r, SeenAfter(i)) = m \div Eta
  BY <1>4, <1>5 DEF Min2
<1>7. m % Eta = 0
  BY DEF FullGroups
<1> HIDE DEF n, m, P
<1>8. m \div Eta = n \div Eta + 1
  BY <1>1, <1>7, QuotientOfNext
<1>9. Len(P) < Allowed(r, SeenAfter(i))
  BY <1>2, <1>3, <1>6, <1>8
<1>10. Eligible(SeenAfter(i), P) # {}
  <2> SUFFICES ASSUME Eligible(SeenAfter(i), P) = {} PROVE FALSE
    OBVIOUS
  <2>1. m <= Len(P)
    BY <1>1, <1>2, NoneEligible DEF m
  <2>2. QED
    BY <1>1, <1>2, <1>3, <2>1
<1>11. QED
  BY <1>1, <1>9, <1>10 DEF Promotes, SlotOpen, P

\* The trial that is promoted is the best one, or the best one was before.
LEMMA PromotedLeads ==
  ASSUME NEW r \in 1..Rungs, NEW obs, Lineup(obs, r), NEW P \in Seq(Candidates),
         Eligible(obs, P) # {}
  PROVE  LET c == obs[NextPromotion(obs, P)].cand
         IN LeaderIn(obs, Append(P, c))
<1> DEFINE b == NextPromotion(obs, P)
           c == obs[b].cand
           l == NextPromotion(obs, <<>>)
<1>1. /\ b \in Eligible(obs, P)
      /\ \A j \in Eligible(obs, P) \ {b} : RanksBefore(obs[b], obs[j])
  BY BestIsNext
<1>2. Eligible(obs, <<>>) = Feasible(obs)
  BY DEF Eligible
<1>3. b \in Feasible(obs)
  BY <1>1 DEF Eligible
<1>4. l \in Feasible(obs) /\ \A j \in Feasible(obs) \ {l} : RanksBefore(obs[l], obs[j])
  BY <1>2, <1>3, BestIsNext
<1>5. \A k \in Feasible(obs) : obs[k].rung = r /\ obs[k].cand \in Candidates
  <2>1. \A k \in Feasible(obs) : k \in DOMAIN obs
    BY DEF Feasible
  <2>2. \A k \in DOMAIN obs : obs[k] \in Receipt
    BY DEF Lineup
  <2>3. QED
    BY <2>1, <2>2 DEF Lineup, Receipt
<1> HIDE DEF b, l
<1>6. Range(P) \subseteq Range(Append(P, c)) /\ c \in Range(Append(P, c))
  <2>1. /\ Len(P) \in Nat /\ DOMAIN P = 1..Len(P) /\ DOMAIN Append(P, c) = 1..(Len(P) + 1)
        /\ Append(P, c)[Len(P) + 1] = c /\ \A k \in 1..Len(P) : Append(P, c)[k] = P[k]
    <3>1. c \in Candidates
      BY <1>3, <1>5
    <3> HIDE DEF c
    <3>2. QED
      BY <3>1
  <2> HIDE DEF c
  <2>2. \A k \in DOMAIN P : k \in DOMAIN Append(P, c) /\ Append(P, c)[k] = P[k]
    BY <2>1
  <2>3. Len(P) + 1 \in DOMAIN Append(P, c)
    BY <2>1
  <2>4. QED
    BY <2>1, <2>2, <2>3 DEF Range
<1> DEFINE after == Append(P, c)
<1> HIDE DEF after
<1>7. c = obs[b].cand /\ Range(P) \subseteq Range(after) /\ c \in Range(after)
  BY <1>6 DEF after
<1> HIDE DEF c
<1> SUFFICES LeaderIn(obs, after)
  BY DEF after, c, b
<1>8. CASE obs[l].cand \in Range(P)
  BY <1>4, <1>7, <1>8 DEF LeaderIn
<1>9. CASE obs[l].cand \notin Range(P)
  <2>1. l \in Eligible(obs, P)
    BY <1>4, <1>9 DEF Eligible, Range
  <2>2. l = b
    <3> SUFFICES ASSUME l # b PROVE FALSE
      OBVIOUS
    <3>1. RanksBefore(obs[b], obs[l]) /\ RanksBefore(obs[l], obs[b])
      BY <1>1, <1>3, <1>4, <2>1
    <3>2. /\ obs[b].rung = r /\ obs[l].rung = r
          /\ obs[b].cand \in Candidates /\ obs[l].cand \in Candidates
      BY <1>3, <1>4, <1>5
    <3>3. \A x \in Candidates : x \in Int /\ Score[r][x] \in Int
      BY HalvingAssumption DEF Candidates
    <3>4. QED
      BY <3>1, <3>2, <3>3 DEF RanksBefore
  <2>3. QED
    BY <1>4, <1>7, <2>2 DEF LeaderIn
<1>10. QED
  BY <1>8, <1>9

LEMMA LeadStep ==
  ASSUME TrialInv, PaceInv, LeadInv, Next
  PROVE  LeadInv'
<1> SUFFICES ASSUME NEW r \in 1..(Rungs - 1), FullGroups(Seen(r)')
    PROVE  LeaderIn(Seen(r)', promoted'[r])
  BY DEF LeadInv, FullGroups, LeaderIn, Feasible
<1>0. r \in 1..Rungs /\ (FullGroups(Seen(r)) => LeaderIn(Seen(r), promoted[r]))
  BY HalvingAssumption DEF LeadInv
<1>1. CASE observed'[r] = observed[r] /\ promoted'[r] = promoted[r]
  BY <1>0, <1>1, TrialStep, SeenKept
<1>2. CASE observed'[r] = <<>> /\ promoted'[r] = <<>>
  <2>1. Seen(r)' = <<>>
    BY <1>2 DEF Seen
  <2>2. QED
    BY <2>1, NothingSeen DEF FullGroups
<1>3. ASSUME NEW i \in batch, ObserveOnly(i) \/ ObserveAndPromote(i), r = evidence[i].rung
      PROVE  LeaderIn(Seen(r)', promoted'[r])
  <2>1. Seen(r)' = SeenAfter(i) /\ FullGroups(SeenAfter(i))
    BY <1>0, <1>3, ObservationEffect
  <2>2. r < Rungs /\ promoted[r] \in Seq(Candidates)
    BY <1>0, HalvingAssumption DEF TrialInv, RunTypeOK
  <2>3. Lineup(SeenAfter(i), r)
    BY <1>3, <2>2, AllowedAfter
  <2>4. CASE Promotes(i)
    <3>1. ObserveAndPromote(i)
      BY <1>3, <2>4 DEF ObserveOnly
    <3> DEFINE c == evidence[PromotionBy(i).receipt].cand
    <3>2. promoted'[r] = Append(promoted[r], c)
      BY <1>0, <1>3, <3>1, ObservationEffect
    <3>3. c = SeenAfter(i)[NextPromotion(SeenAfter(i), promoted[r])].cand
      BY <1>3, <2>4, ThePromotion
    <3>4. Eligible(SeenAfter(i), promoted[r]) # {}
      BY <1>3, <2>4 DEF Promotes, SlotOpen
    <3> HIDE DEF c
    <3>5. LeaderIn(SeenAfter(i), Append(promoted[r], c))
      BY <1>0, <2>2, <2>3, <3>3, <3>4, PromotedLeads
    <3>6. QED
      BY <2>1, <3>2, <3>5
  <2>5. CASE ~Promotes(i)
    <3>1. evidence[i].outcome # "feasible"
      BY <1>3, <2>1, <2>2, <2>5, FullGroupPromotes
    <3>2. promoted'[r] = promoted[r]
      BY <1>0, <1>3, <2>5, ObservationEffect
    <3>3. /\ Feasible(SeenAfter(i)) = Feasible(Seen(r))
          /\ \A k \in DOMAIN Seen(r) : SeenAfter(i)[k] = Seen(r)[k]
      BY <1>3, <3>1, SeenAppended
    <3>4. \A k \in Feasible(Seen(r)) : SeenAfter(i)[k] = Seen(r)[k]
      BY <3>3 DEF Feasible
    <3>5. LeaderIn(Seen(r), promoted[r])
      BY <1>0, <2>1, <3>3 DEF FullGroups
    <3>6. QED
      BY <2>1, <3>2, <3>3, <3>4, <3>5 DEF LeaderIn
  <2>6. QED
    BY <2>4, <2>5
<1>4. QED
  BY <1>0, <1>1, <1>2, <1>3, RungCases, ObservationEffect

LEMMA LeadInit == Init => LeadInv
<1> SUFFICES ASSUME Init, NEW r \in 1..(Rungs - 1) PROVE ~FullGroups(Seen(r))
  BY DEF LeadInv
<1>1. r \in 1..Rungs
  BY HalvingAssumption
<1>2. Seen(r) = <<>>
  BY <1>1 DEF Init, Seen
<1>3. QED
  BY <1>2, NothingSeen DEF FullGroups

LEMMA LeadStutter ==
  ASSUME TrialInv, LeadInv, UNCHANGED vars
  PROVE  LeadInv'
<1> SUFFICES ASSUME NEW r \in 1..(Rungs - 1), FullGroups(Seen(r)')
    PROVE  LeaderIn(Seen(r)', promoted'[r])
  BY DEF LeadInv, FullGroups, LeaderIn, Feasible
<1>1. r \in 1..Rungs /\ (FullGroups(Seen(r)) => LeaderIn(Seen(r), promoted[r]))
  BY HalvingAssumption DEF LeadInv
<1>2. Seen(r)' = Seen(r) /\ promoted' = promoted
  BY <1>1, TrialStutter, SeenKept DEF vars
<1>3. QED
  BY <1>1, <1>2

THEOREM LeadInvariant == Spec => []LeadInv
<1>1. TrialInv /\ PaceInv /\ LeadInv /\ [Next]_vars => LeadInv'
  BY LeadStep, LeadStutter
<1>2. QED
  BY <1>1, LeadInit, TrialInvariant, PaceInvariant, PTL DEF Spec

\* Whatever the order of the observations, the best feasible trial of a rung
\* whose feasible trials fill whole groups of eta is among the promoted
\* (observe and _rank_items of operators/asha.py).
THEOREM LeaderIsAlwaysPromoted == Spec => []LeaderIsPromoted
<1>1. TrialInv /\ LeadInv => LeaderIsPromoted
  <2> SUFFICES ASSUME TrialInv, LeadInv, NEW r \in 1..(Rungs - 1),
                      Cardinality(Feasible(Seen(r))) > 0,
                      Cardinality(Feasible(Seen(r))) % Eta = 0
      PROVE  \E k \in DOMAIN promoted[r] :
               \A i \in Feasible(Seen(r)) :
                 \/ Seen(r)[i].cand = promoted[r][k]
                 \/ \E j \in Feasible(Seen(r)) :
                      Seen(r)[j].cand = promoted[r][k] /\ RanksBefore(Seen(r)[j], Seen(r)[i])
    BY DEF LeaderIsPromoted
  <2>1. LeaderIn(Seen(r), promoted[r])
    BY DEF LeadInv, FullGroups
  <2>2. PICK b \in Feasible(Seen(r)) :
          /\ Seen(r)[b].cand \in Range(promoted[r])
          /\ \A j \in Feasible(Seen(r)) \ {b} : RanksBefore(Seen(r)[b], Seen(r)[j])
    BY <2>1 DEF LeaderIn
  <2>3. PICK k \in DOMAIN promoted[r] : Seen(r)[b].cand = promoted[r][k]
    BY <2>2 DEF Range
  <2>4. QED
    BY <2>2, <2>3
<1>2. QED
  BY <1>1, TrialInvariant, LeadInvariant, PTL

-----------------------------------------------------------------------------
(* The decisions on disk *)

LEMMA DecisionCases ==
  ASSUME TrialInv, Next
  PROVE  \/ decisions' = decisions
         \/ /\ pc = "handling"
            /\ \E i \in batch :
                 /\ \A j \in batch : i <= j
                 /\ \/ Retried(i) /\ Retry(i)
                    \/ ~Retried(i) /\ ObserveAndPromote(i)
<1>1. CASE Start \/ Collect \/ Finish
  BY <1>1 DEF Start, Collect, Finish
<1>2. CASE Crash
  BY <1>2 DEF Crash, Stop
<1>3. CASE Settle
  BY <1>3 DEF Settle, Evaluate, Fail, TimeoutQueued, Record
<1>4. CASE Handle
  <2>1. pc = "handling"
    BY <1>4, HandleCases
  <2>2. PICK i \in batch : /\ \A j \in batch : i <= j
                           /\ \/ Retried(i) /\ Retry(i)
                              \/ ~Retried(i) /\ ObserveOnly(i)
                              \/ ~Retried(i) /\ ObserveAndPromote(i)
                              \/ Redecided(i)
    BY <1>4, HandleCases
  <2>3. CASE ObserveOnly(i) \/ Redecided(i)
    BY <2>3 DEF ObserveOnly, Redecided, Stop
  <2>4. QED
    BY <2>1, <2>2, <2>3
<1>5. QED
  BY <1>1, <1>2, <1>3, <1>4 DEF Next

\* The observations a decision was made from.
Basis(d) == [n \in DOMAIN d.observed |-> evidence[d.observed[n]]]

Based(d) ==
  /\ \A n \in DOMAIN d.observed : d.observed[n] \in DOMAIN evidence
  /\ d.receipt \in Range(d.observed)
  /\ Replays(evidence[d.receipt].rung, evidence[d.receipt].cand, Basis(d), d.before)

ReplayInv == \A k \in DOMAIN decisions : decisions[k].kind = "promotion" => Based(decisions[k])

LEMMA StillBased ==
  ASSUME Grown, NEW d, Based(d)
  PROVE  Based(d)'
<1>1. Basis(d)' = Basis(d)
  BY DEF Basis, Based, Grown
<1>2. d.receipt \in DOMAIN evidence
  BY DEF Based, Range
<1>3. evidence'[d.receipt] = evidence[d.receipt]
  BY <1>2 DEF Grown
<1>4. \A n \in DOMAIN d.observed : d.observed[n] \in DOMAIN evidence'
  BY DEF Based, Grown
<1>5. Replays(evidence'[d.receipt].rung, evidence'[d.receipt].cand, Basis(d)', d.before)
  BY <1>1, <1>3 DEF Based
<1>6. QED
  BY <1>4, <1>5 DEF Based

\* The record of a promotion replays when it is written.
LEMMA PromotionIsBased ==
  ASSUME TrialInv, NEW i \in batch, Promotes(i), NEW d, d = PromotionBy(i)
  PROVE  Based(d)
<1> DEFINE r == evidence[i].rung
           s == ObservedAfter(i)
           obs == SeenAfter(i)
           n == NextPromotion(obs, promoted[r])
<1>1. /\ d.receipt \in Range(s) /\ evidence[d.receipt].rung = r
      /\ obs[n] = evidence[d.receipt] /\ d.observed = s /\ d.before = promoted[r]
  BY ThePromotion
<1>2. Lineup(obs, r) /\ \A k \in DOMAIN s : s[k] \in Kept
  BY AfterObserving
<1>3. Kept \subseteq DOMAIN evidence
  BY LiveAreExperiments DEF TrialInv
<1>4. Len(promoted[r]) < Allowed(r, obs) /\ Eligible(obs, promoted[r]) # {}
  BY DEF Promotes, SlotOpen
<1>5. Basis(d) = obs
  BY <1>1 DEF Basis, SeenAfter
<1> HIDE DEF obs, s, r
<1>6. Replays(evidence[d.receipt].rung, evidence[d.receipt].cand, obs, d.before)
  BY <1>1, <1>2, <1>4 DEF Replays, Lineup
<1>7. QED
  BY <1>1, <1>2, <1>3, <1>5, <1>6 DEF Based

LEMMA ReplayStep ==
  ASSUME TrialInv, ReplayInv, Next
  PROVE  ReplayInv'
<1>0. Grown
  BY TrialStep
<1>1. CASE decisions' = decisions
  <2>1. ASSUME NEW k \in DOMAIN decisions', decisions'[k].kind = "promotion"
        PROVE  Based(decisions[k])'
    <3> PICK d : d = decisions[k]
      OBVIOUS
    <3>1. Based(d)
      BY <1>1, <2>1 DEF ReplayInv
    <3>2. Based(d)' /\ decisions'[k] = d
      BY <1>0, <1>1, <3>1, StillBased
    <3>3. QED
      BY <3>2 DEF Based, Basis
  <2>2. QED
    BY <2>1 DEF ReplayInv
<1>2. ASSUME NEW d, decisions' = Append(decisions, d), d.kind = "promotion" => Based(d)
      PROVE  ReplayInv'
  <2>1. /\ Len(decisions) \in Nat /\ DOMAIN decisions = 1..Len(decisions)
        /\ DOMAIN decisions' = 1..(Len(decisions) + 1)
        /\ decisions'[Len(decisions) + 1] = d
        /\ \A k \in 1..Len(decisions) : decisions'[k] = decisions[k]
    <3>1. decisions \in Seq(Decided)
      BY DEF TrialInv, RunTypeOK
    <3>2. QED
      BY <1>2, <3>1
  <2>2. ASSUME NEW k \in DOMAIN decisions', decisions'[k].kind = "promotion"
        PROVE  Based(decisions[k])'
    <3> PICK x : x = decisions'[k]
      OBVIOUS
    <3>1. Based(x)
      <4>1. CASE k = Len(decisions) + 1
        BY <1>2, <2>1, <2>2, <4>1
      <4>2. CASE k \in DOMAIN decisions
        BY <2>1, <2>2, <4>2 DEF ReplayInv
      <4>3. QED
        BY <2>1, <4>1, <4>2
    <3>2. Based(x)'
      BY <1>0, <3>1, StillBased
    <3>3. QED
      BY <3>2 DEF Based, Basis
  <2>3. QED
    BY <2>2 DEF ReplayInv
<1>3. ASSUME NEW i \in batch, Retry(i) PROVE ReplayInv'
  <2> PICK d : d = Decision("retry", i, <<>>, <<>>)
    OBVIOUS
  <2>1. decisions' = Append(decisions, d) /\ d.kind = "retry"
    BY <1>3 DEF Retry, Decision
  <2>2. QED
    BY <1>2, <2>1
<1>4. ASSUME NEW i \in batch, ObserveAndPromote(i) PROVE ReplayInv'
  <2> PICK d : d = PromotionBy(i)
    OBVIOUS
  <2>1. decisions' = Append(decisions, d) /\ Promotes(i)
    BY <1>4 DEF ObserveAndPromote
  <2>2. Based(d)
    BY <2>1, PromotionIsBased
  <2>3. QED
    BY <1>2, <2>1, <2>2
<1>5. QED
  BY <1>1, <1>3, <1>4, DecisionCases

LEMMA ReplayStutter ==
  ASSUME TrialInv, ReplayInv, UNCHANGED vars
  PROVE  ReplayInv'
<1>1. decisions' = decisions /\ evidence' = evidence
  BY DEF vars
<1>2. QED
  BY <1>1 DEF ReplayInv, Based, Basis

\* Every promotion on disk replays from the receipts it names, also after
\* the operator that made it is gone (replay_promotion of operators/asha.py).
THEOREM PromotionsAlwaysReplay == Spec => []PromotionsReplay
<1>1. Init => ReplayInv
  BY DEF Init, ReplayInv
<1>2. TrialInv /\ ReplayInv /\ [Next]_vars => ReplayInv'
  BY ReplayStep, ReplayStutter
<1>3. ReplayInv => PromotionsReplay
  BY DEF ReplayInv, Based, Basis, PromotionsReplay
<1>4. QED
  BY <1>1, <1>2, <1>3, TrialInvariant, PTL DEF Spec

-----------------------------------------------------------------------------
(* All decisions were made by one start of the run *)

Firsts == {Trial(c) : c \in Candidates}

\* The receipts of first attempts on the first rung.
Heads == {i \in DOMAIN evidence : ExpOf(i) \in Firsts}

Prefix(n) == [k \in 1..n |-> k]

PrefixSeen(n) == [k \in 1..n |-> evidence[k]]

\* A start that handles the receipts from the first one on decides nothing
\* at receipt i.
Quiet(i) == ~Retried(i) /\ ~SlotOpen(1, PrefixSeen(i), <<>>)

Content(d) == <<d.kind, d.receipt, d.observed, d.before>>

\* The first decision of a start that decides nothing before receipt n.
FirstOf(n) ==
  IF Retried(n) THEN <<"retry", n, <<>>, <<>>>>
  ELSE <<"promotion", NextPromotion(PrefixSeen(n), <<>>), Prefix(n), <<>>>>

DecidedAt(n) ==
  /\ n \in DOMAIN evidence
  /\ 1..n \subseteq Heads
  /\ \A i \in 1..(n - 1) : Quiet(i)
  /\ ~Quiet(n)
  /\ Content(decisions[1]) = FirstOf(n)

\* The present start has decided nothing.
Undecided == decisions = <<>> \/ decisions[1].run # runs

\* It has observed the receipts up to m, and all others that are there and
\* of first attempts are still to be handled, in order.
ReplayedTo(m) ==
  /\ observed[1] = Prefix(m)
  /\ 1..m \subseteq Heads
  /\ \A i \in 1..m : Quiet(i)
  /\ ended \cup batch = Heads \ (1..m)
  /\ \A i \in batch, j \in ended : i < j

\* While one start has decided nothing it retraces what any other start did
\* before its first decision.  So it arrives at that very decision, which is
\* on disk, and stops; or nothing is on disk yet.
OneRunInv ==
  /\ \A k \in DOMAIN decisions : decisions[k].run = decisions[1].run
  /\ decisions # <<>> => decisions[1].run <= runs
  /\ decisions = <<>> => Heads = DOMAIN evidence
  /\ decisions # <<>> => \E n \in Nat : DecidedAt(n)
  /\ Undecided /\ Started =>
       /\ Waiting \subseteq Firsts
       /\ promoted[1] = <<>>
       /\ \E m \in Nat : ReplayedTo(m)

LEMMA PrefixStays ==
  ASSUME RunTypeOK, Grown, NEW n \in DOMAIN evidence
  PROVE  /\ PrefixSeen(n)' = PrefixSeen(n)
         /\ Retried(n)' <=> Retried(n)
         /\ Quiet(n)' <=> Quiet(n)
         /\ FirstOf(n)' = FirstOf(n)
<1>1. n \in Nat /\ \A k \in 1..n : k \in DOMAIN evidence
  <2>1. DOMAIN evidence = 1..Len(evidence) /\ Len(evidence) \in Nat
    BY DEF RunTypeOK
  <2>2. QED
    BY <2>1
<1>2. PrefixSeen(n)' = PrefixSeen(n)
  BY <1>1 DEF PrefixSeen, Grown
<1>3. Retried(n)' <=> Retried(n)
  BY DEF Retried, Grown
<1>4. Quiet(n)' <=> Quiet(n)
  BY <1>2, <1>3 DEF Quiet, SlotOpen, Allowed
<1>5. FirstOf(n)' = FirstOf(n)
  BY <1>2, <1>3 DEF FirstOf, Prefix
<1>6. QED
  BY <1>2, <1>3, <1>4, <1>5

LEMMA HeadsStay ==
  ASSUME Grown
  PROVE  Heads \subseteq Heads' /\ \A i \in DOMAIN evidence : i \in Heads' => i \in Heads
<1>1. \A i \in DOMAIN evidence : ExpOf(i)' = ExpOf(i) /\ i \in DOMAIN evidence'
  BY DEF ExpOf, Grown
<1>2. Firsts' = Firsts
  BY DEF Firsts, Trial, Exp
<1>3. QED
  BY <1>1, <1>2 DEF Heads

LEMMA DecisionStays ==
  ASSUME RunTypeOK, Grown, NEW n, DecidedAt(n), decisions'[1] = decisions[1]
  PROVE  DecidedAt(n)'
<1>1. n \in DOMAIN evidence /\ n \in Nat /\ \A k \in 1..n : k \in DOMAIN evidence
  <2>1. DOMAIN evidence = 1..Len(evidence) /\ Len(evidence) \in Nat
    BY DEF RunTypeOK
  <2>2. QED
    BY <2>1 DEF DecidedAt
<1>2. \A i \in 1..(n - 1) : i \in 1..n
  BY <1>1
<1>3. \A i \in 1..(n - 1) : Quiet(i)'
  BY <1>1, <1>2, PrefixStays DEF DecidedAt
<1>4. ~Quiet(n)' /\ FirstOf(n)' = FirstOf(n)
  BY <1>1, PrefixStays DEF DecidedAt
<1>5. n \in DOMAIN evidence' /\ 1..n \subseteq Heads'
  BY <1>1, HeadsStay DEF DecidedAt, Grown
<1>6. QED
  BY <1>3, <1>4, <1>5 DEF DecidedAt, Content

\* The next receipt an undecided start handles is the next one there is.
LEMMA NextInOrder ==
  ASSUME TrialInv, OneRunInv, Undecided, Started, NEW m \in Nat, ReplayedTo(m),
         NEW i \in batch, \A j \in batch : i <= j
  PROVE  /\ i = m + 1 /\ i \in DOMAIN evidence /\ 1..i \subseteq Heads
         /\ decisions # <<>> => \E n \in Nat : DecidedAt(n) /\ i <= n
<1>1. DOMAIN evidence = 1..Len(evidence) /\ Len(evidence) \in Nat
  BY DEF TrialInv, RunTypeOK
<1>2. i \in Heads /\ i \notin 1..m
  BY DEF ReplayedTo
<1>3. i \in DOMAIN evidence /\ i \in Nat /\ m + 1 <= i
  BY <1>1, <1>2 DEF Heads
<1>4. ASSUME decisions # <<>> PROVE \E n \in Nat : DecidedAt(n) /\ m + 1 <= n /\ m + 1 \in Heads
  <2>1. PICK n \in Nat : DecidedAt(n)
    BY <1>4 DEF OneRunInv
  <2>2. n \in 1..Len(evidence) /\ n \notin 1..m /\ 1..n \subseteq Heads
    BY <1>1, <2>1 DEF DecidedAt, ReplayedTo
  <2>3. m + 1 <= n /\ m + 1 \in 1..n
    BY <1>1, <2>2
  <2>4. QED
    BY <2>1, <2>2, <2>3
<1>5. m + 1 \in Heads
  <2>1. CASE decisions = <<>>
    <3>1. m + 1 \in DOMAIN evidence
      BY <1>1, <1>3
    <3>2. QED
      BY <2>1, <3>1 DEF OneRunInv
  <2>2. QED
    BY <1>4, <2>1
<1>6. m + 1 \in ended \cup batch
  <2>1. m + 1 \notin 1..m
    OBVIOUS
  <2>2. QED
    BY <1>5, <2>1 DEF ReplayedTo
<1>7. i = m + 1
  <2>1. m + 1 \in ended => i < m + 1
    BY DEF ReplayedTo
  <2>2. m + 1 \in batch => i <= m + 1
    OBVIOUS
  <2>3. QED
    BY <1>3, <1>6, <2>1, <2>2
<1>8. 1..i \subseteq Heads
  <2>1. 1..i = (1..m) \cup {i}
    BY <1>7
  <2>2. QED
    BY <1>2, <2>1 DEF ReplayedTo
<1>9. QED
  BY <1>3, <1>4, <1>7, <1>8

\* So what it does about it depends on the receipts so far only.
LEMMA RetracedObservation ==
  ASSUME TrialInv, NEW m \in Nat, ReplayedTo(m), NEW i \in batch, i = m + 1,
         promoted[1] = <<>>
  PROVE  /\ evidence[i].rung = 1
         /\ ObservedAfter(i) = Prefix(i) /\ SeenAfter(i) = PrefixSeen(i)
         /\ Promotes(i) <=> SlotOpen(1, PrefixSeen(i), <<>>)
         /\ ~Retried(i) /\ Promotes(i) => Content(PromotionBy(i)) = FirstOf(i)
<1>1. i \in DOMAIN evidence /\ evidence[i].rung = 1
  <2>1. i \in Heads
    BY DEF ReplayedTo
  <2>2. i \in DOMAIN evidence /\ ExpOf(i).rung = 1
    BY <2>1 DEF Heads, Firsts, Trial, Exp
  <2>3. QED
    BY <2>2, ReceiptParts DEF TrialInv
<1>2. ObservedAfter(i) = Append(Prefix(m), i)
  BY <1>1, AfterObserving DEF ReplayedTo
<1>3. Append(Prefix(m), i) = Prefix(i)
  <2>1. Prefix(m) \in [1..m -> Nat] /\ \A k \in 1..m : Prefix(m)[k] = k
    BY DEF Prefix
  <2>2. Prefix(m) \in Seq(Nat) /\ Len(Prefix(m)) = m
    BY <2>1, SeqDef
  <2> HIDE DEF Prefix
  <2>3. /\ Append(Prefix(m), i) = [k \in 1..(m + 1) |-> IF k = m + 1 THEN i ELSE Prefix(m)[k]]
    BY <2>2
  <2>4. \A k \in 1..(m + 1) : (IF k = m + 1 THEN i ELSE Prefix(m)[k]) = k
    BY <2>1
  <2>5. QED
    BY <2>3, <2>4 DEF Prefix
<1>4. ObservedAfter(i) = Prefix(i)
  BY <1>2, <1>3
<1>5. SeenAfter(i) = PrefixSeen(i)
  BY <1>4 DEF SeenAfter, PrefixSeen, Prefix
<1>6. Promotes(i) <=> SlotOpen(1, PrefixSeen(i), <<>>)
  BY <1>1, <1>5, HalvingAssumption DEF Promotes
<1>7. ASSUME ~Retried(i), Promotes(i) PROVE Content(PromotionBy(i)) = FirstOf(i)
  <2> PICK n : n = NextPromotion(PrefixSeen(i), <<>>)
    OBVIOUS
  <2> PICK d : d = PromotionBy(i)
    OBVIOUS
  <2>1. /\ n \in DOMAIN Prefix(i) /\ d.receipt = Prefix(i)[n]
        /\ d.kind = "promotion" /\ d.observed = Prefix(i) /\ d.before = <<>>
    BY <1>1, <1>4, <1>5, <1>7, ThePromotion
  <2>2. d.receipt = n
    BY <2>1 DEF Prefix
  <2>3. QED
    BY <1>7, <2>1, <2>2 DEF Content, FirstOf
<1>8. QED
  BY <1>1, <1>4, <1>5, <1>6, <1>7

\* A decision of an undecided start is the first one on disk.
LEMMA NothingDecided ==
  ASSUME OneRunInv, NEW i \in Nat, ~Quiet(i),
         decisions # <<>> => \E n \in Nat : DecidedAt(n) /\ i <= n,
         i >= 1, decisions \in Seq(Decided),
         NEW d, Content(d) = FirstOf(i), ~AlreadyDecided(d)
  PROVE  decisions = <<>>
<1> SUFFICES ASSUME decisions # <<>> PROVE FALSE
  OBVIOUS
<1>1. PICK n \in Nat : DecidedAt(n) /\ i <= n
  OBVIOUS
<1>2. i = n
  BY <1>1 DEF DecidedAt
<1>3. Content(decisions[1]) = Content(d) /\ 1 \in DOMAIN decisions
  BY <1>1, <1>2 DEF DecidedAt
<1>4. QED
  BY <1>3 DEF Content, AlreadyDecided

LEMMA RetraceKept ==
  ASSUME TrialInv, Grown, NEW m \in Nat, ReplayedTo(m),
         observed'[1] = observed[1],
         ended' \cup batch' = (ended \cup batch) \cup (Heads' \ Heads),
         \A i \in batch', j \in ended' : i < j
  PROVE  ReplayedTo(m)'
<1>1. \A i \in 1..m : i \in DOMAIN evidence
  BY DEF ReplayedTo, Heads
<1>2. \A i \in 1..m : Quiet(i)'
  BY <1>1, PrefixStays DEF ReplayedTo, TrialInv
<1>3. Heads \subseteq Heads'
  BY HeadsStay
<1>4. 1..m \subseteq Heads' /\ ended' \cup batch' = Heads' \ (1..m)
  BY <1>3 DEF ReplayedTo
<1>5. observed'[1] = Prefix(m)
  BY DEF ReplayedTo
<1>6. QED
  BY <1>2, <1>4, <1>5 DEF ReplayedTo, Prefix

\* What is on disk stays: the parts of the invariant about decisions.
LEMMA DiskKept ==
  ASSUME TrialInv, OneRunInv, Grown, decisions' = decisions, runs' \in Nat, runs <= runs',
         decisions = <<>> => Heads' = DOMAIN evidence',
         Undecided' /\ Started' =>
           /\ Waiting' \subseteq Firsts
           /\ promoted'[1] = <<>>
           /\ \E m \in Nat : ReplayedTo(m)'
  PROVE  OneRunInv'
<1>1. decisions # <<>> => \E n \in Nat : DecidedAt(n)'
  BY DecisionStays DEF TrialInv, OneRunInv
<1>2. decisions # <<>> => decisions[1].run <= runs'
  <2> SUFFICES ASSUME decisions # <<>> PROVE decisions[1].run <= runs'
    OBVIOUS
  <2>1. decisions \in Seq(Decided) /\ runs \in Nat
    BY DEF TrialInv, RunTypeOK
  <2>2. decisions[1] \in Decided
    BY <2>1
  <2>3. decisions[1].run \in Nat
    BY <2>2 DEF Decided
  <2>4. QED
    BY <2>1, <2>3 DEF OneRunInv
<1>3. Firsts' = Firsts
  BY DEF Firsts, Trial, Exp
<1>4. QED
  BY <1>1, <1>2, <1>3 DEF OneRunInv

LEMMA OneRunRecord ==
  ASSUME TrialInv, OneRunInv, Settle
  PROVE  OneRunInv'
<1>0. Grown
  BY SettleStep
<1>1. PICK e \in Waiting, o \in Outcomes : Record(e, o) /\ Waiting' = Waiting \ {e}
  BY SettleRecords
<1>2. Started /\ batch = {}
  BY SettleRecords DEF Started, TrialInv, PlaceOK
<1> PICK n : n = Len(evidence) + 1
  OBVIOUS
<1>3. e \in Experiment
  BY LiveAreExperiments DEF TrialInv
<1>4. n \notin DOMAIN evidence /\ DOMAIN evidence' = DOMAIN evidence \cup {n} /\ ExpOf(n)' = e
  BY <1>1, <1>3, RecordGrows DEF TrialInv
<1>5. /\ ended' = ended \cup {n}
      /\ UNCHANGED <<decisions, pc, runs, batch, observed, promoted>>
  BY <1>1 DEF Record
<1>6. ASSUME Undecided PROVE Heads' = Heads \cup {n} /\ n \notin Heads
  <2>1. e \in Firsts /\ Firsts' = Firsts
    BY <1>2, <1>6 DEF OneRunInv, Firsts, Trial, Exp
  <2>2. n \in Heads'
    BY <1>4, <2>1 DEF Heads
  <2>3. QED
    BY <1>0, <1>4, <2>2, HeadsStay DEF Heads
<1>7. decisions = <<>> => Heads' = DOMAIN evidence'
  BY <1>4, <1>6 DEF OneRunInv, Undecided
<1>8. ASSUME Undecided
      PROVE  /\ Waiting' \subseteq Firsts
             /\ promoted'[1] = <<>>
             /\ \E m \in Nat : ReplayedTo(m)'
  <2>1. PICK m \in Nat : ReplayedTo(m)
    BY <1>2, <1>8 DEF OneRunInv
  <2>2. ended' \cup batch' = (ended \cup batch) \cup (Heads' \ Heads)
    BY <1>5, <1>6, <1>8
  <2>3. ReplayedTo(m)'
    BY <1>0, <1>2, <1>5, <2>1, <2>2, RetraceKept
  <2>4. QED
    BY <1>1, <1>2, <1>5, <1>8, <2>3 DEF OneRunInv
<1>9. Undecided' <=> Undecided
  BY <1>5 DEF Undecided
<1>10. runs' \in Nat /\ runs <= runs'
  BY <1>5 DEF TrialInv, RunTypeOK
<1>11. QED
  BY <1>0, <1>5, <1>7, <1>8, <1>9, <1>10, DiskKept

LEMMA OneRunStart ==
  ASSUME TrialInv, OneRunInv, Start
  PROVE  OneRunInv'
<1>0. Grown
  BY StartStep
<1> USE DEF Start
<1>1. runs \in Nat /\ runs' = runs + 1
  BY DEF TrialInv, RunTypeOK
<1>2. Heads' = Heads
  BY DEF Heads, ExpOf, Firsts, Trial, Exp
<1>3. ~Started
  BY DEF Started
<1>4. promoted[1] = <<>> /\ batch = {} /\ observed[1] = <<>>
  <2>1. 1 \in 1..Rungs /\ Watched = {} /\ observed \in [1..Rungs -> Seq(Nat)]
    BY <1>3, HalvingAssumption DEF TrialInv, PlaceOK, Kept, RunTypeOK
  <2>2. observed[1] \in Seq(Nat) /\ Range(observed[1]) = {}
    BY <2>1 DEF Watched
  <2>3. \A q \in Seq(Nat) : Range(q) = {} => q = <<>>
    <3> SUFFICES ASSUME NEW q \in Seq(Nat), q # <<>> PROVE Range(q) # {}
      OBVIOUS
    <3>1. 1 \in DOMAIN q
      OBVIOUS
    <3>2. QED
      BY <3>1 DEF Range
  <2>4. QED
    BY <1>3, <2>1, <2>2, <2>3 DEF TrialInv, PlaceOK, Kept
<1>5. Waiting' \subseteq Firsts
  <2>1. /\ PoolShape({}, NewTrials[Initial])
        /\ Range(NewTrials[Initial]) =
             {Trial(c) : c \in {c \in Candidates : ReceiptsOf(Trial(c)) = {}}}
    BY NewTrialsQueued
  <2>2. Range(NewTrials[Initial]) \subseteq Firsts
    BY <2>1 DEF Firsts
  <2>3. holding' \cup Range(queue') = {} \cup Range(NewTrials[Initial])
    BY <2>1, Placed
  <2>4. QED
    BY <2>2, <2>3 DEF Waiting
<1>6. ended' = Heads
  <2>1. \A c \in Candidates : Trial(c) \in Experiment
    BY HalvingAssumption, RunAssumption DEF Trial, Exp, Experiment
  <2>2. \A c \in Candidates : ReceiptsOf(Trial(c)) = {i \in DOMAIN evidence : ExpOf(i) = Trial(c)}
    BY <2>1, ReceiptsAre DEF TrialInv
  <2>3. QED
    BY <2>2 DEF Heads, Firsts
<1>7. ReplayedTo(0)'
  <2>1. Prefix(0) = <<>>
    BY DEF Prefix
  <2>2. 1..0 = {}
    OBVIOUS
  <2>3. observed'[1] = Prefix(0)' /\ batch' = {}
    BY <1>4, <2>1 DEF Prefix
  <2>4. QED
    BY <1>2, <1>6, <2>2, <2>3 DEF ReplayedTo
<1>8. QED
  BY <1>0, <1>1, <1>2, <1>4, <1>5, <1>7, DiskKept DEF OneRunInv

LEMMA OneRunQuiet ==
  ASSUME TrialInv, OneRunInv, Grown,
         evidence' = evidence, decisions' = decisions, runs' = runs,
         \/ ~Started'
         \/ /\ UNCHANGED <<holding, queue, observed, promoted>>
            /\ Started
            /\ ended' \cup batch' = ended \cup batch
            /\ \A m \in Nat : ReplayedTo(m) => \A i \in batch', j \in ended' : i < j
  PROVE  OneRunInv'
<1>1. Heads' = Heads
  BY DEF Heads, ExpOf, Firsts, Trial, Exp
<1>2. runs' \in Nat /\ runs <= runs'
  BY DEF TrialInv, RunTypeOK
<1>3. decisions = <<>> => Heads' = DOMAIN evidence'
  BY <1>1 DEF OneRunInv
<1>4. Undecided' <=> Undecided
  BY DEF Undecided
<1>5. ASSUME Undecided, Started'
      PROVE  /\ Waiting' \subseteq Firsts
             /\ promoted'[1] = <<>>
             /\ \E m \in Nat : ReplayedTo(m)'
  <2>1. Started /\ UNCHANGED <<holding, queue, observed, promoted>>
    BY <1>5
  <2>2. PICK m \in Nat : ReplayedTo(m)
    BY <1>5, <2>1 DEF OneRunInv
  <2>3. /\ ended' \cup batch' = (ended \cup batch) \cup (Heads' \ Heads)
        /\ \A i \in batch', j \in ended' : i < j
    BY <1>1, <1>5, <2>2
  <2>4. ReplayedTo(m)'
    BY <2>1, <2>2, <2>3, RetraceKept
  <2>5. Waiting' = Waiting
    BY <2>1 DEF Waiting
  <2>6. QED
    BY <1>5, <2>1, <2>4, <2>5 DEF OneRunInv
<1>6. QED
  BY <1>2, <1>3, <1>4, <1>5, DiskKept

\* A decision that is added: the first one of its start only where none is
\* on disk, and then the one that a retrace arrives at.
LEMMA OneRunDecision ==
  ASSUME TrialInv, OneRunInv, Grown, runs' = runs, NEW d, d.run = runs,
         decisions' = Append(decisions, d), decisions' \in Seq(Decided),
         decisions # <<>> => ~Undecided,
         NEW n \in Nat,
         decisions = <<>> =>
           /\ n \in DOMAIN evidence /\ 1..n \subseteq Heads
           /\ \A i \in 1..(n - 1) : Quiet(i)
           /\ ~Quiet(n)
           /\ Content(d) = FirstOf(n)
  PROVE  OneRunInv'
<1>1. /\ decisions' # <<>> /\ 1 \in DOMAIN decisions'
      /\ decisions = <<>> => decisions'[1] = d
      /\ decisions # <<>> => decisions'[1] = decisions[1]
      /\ \A k \in DOMAIN decisions' :
           \/ decisions'[k] = d
           \/ k \in DOMAIN decisions /\ decisions'[k] = decisions[k]
  <2>1. decisions \in Seq(Decided)
    BY DEF TrialInv, RunTypeOK
  <2>2. QED
    BY <2>1
<1>2. \A k \in DOMAIN decisions : decisions[k].run = runs
  <2> SUFFICES ASSUME NEW k \in DOMAIN decisions PROVE decisions[k].run = runs
    OBVIOUS
  <2>1. decisions # <<>>
    OBVIOUS
  <2>2. decisions[1].run = runs
    BY <2>1 DEF Undecided
  <2>3. QED
    BY <2>2 DEF OneRunInv
<1>3. \A k \in DOMAIN decisions' : decisions'[k].run = runs
  BY <1>1, <1>2
<1>4. runs \in Nat
  BY DEF TrialInv, RunTypeOK
<1>5. \E m \in Nat : DecidedAt(m)'
  <2>1. CASE decisions = <<>>
    <3>1. \A k \in 1..n : k \in DOMAIN evidence
      BY <2>1 DEF Heads
    <3>2. \A k \in 1..(n - 1) : k \in 1..n
      OBVIOUS
    <3>3. \A k \in 1..(n - 1) : Quiet(k)'
      BY <2>1, <3>1, <3>2, PrefixStays DEF TrialInv
    <3>4. ~Quiet(n)' /\ FirstOf(n)' = FirstOf(n)
      BY <2>1, PrefixStays DEF TrialInv
    <3>5. n \in DOMAIN evidence' /\ 1..n \subseteq Heads'
      BY <2>1, HeadsStay DEF Grown
    <3>6. DecidedAt(n)'
      BY <1>1, <2>1, <3>3, <3>4, <3>5 DEF DecidedAt, Content
    <3>7. QED
      BY <3>6
  <2>2. CASE decisions # <<>>
    <3>1. PICK m \in Nat : DecidedAt(m)
      BY <2>2 DEF OneRunInv
    <3>2. DecidedAt(m)'
      BY <1>1, <2>2, <3>1, DecisionStays DEF TrialInv
    <3>3. QED
      BY <3>2
  <2>3. QED
    BY <2>1, <2>2
<1>6. ~Undecided'
  BY <1>1, <1>3 DEF Undecided
<1>7. QED
  BY <1>1, <1>3, <1>4, <1>5, <1>6 DEF OneRunInv

LEMMA OneRunHandle ==
  ASSUME TrialInv, OneRunInv, Handle
  PROVE  OneRunInv'
<1>0. Grown /\ TrialInv'
  BY TrialStep DEF Next
<1>1. pc = "handling" /\ Started
  BY HandleCases DEF Started
<1>2. PICK i \in batch : /\ \A j \in batch : i <= j
                         /\ \/ Retried(i) /\ Retry(i)
                            \/ ~Retried(i) /\ ObserveOnly(i)
                            \/ ~Retried(i) /\ ObserveAndPromote(i)
                            \/ Redecided(i)
  BY HandleCases
<1>3. i \in DOMAIN evidence /\ i \in Nat /\ i >= 1 /\ i \notin ended
  <2>1. /\ DOMAIN evidence = 1..Len(evidence)
        /\ batch \subseteq DOMAIN evidence /\ batch \cap ended = {}
    BY DEF TrialInv, RunTypeOK, ObservedOK
  <2>2. QED
    BY <2>1
<1>4. ASSUME Undecided, NEW m \in Nat, ReplayedTo(m)
      PROVE  /\ i = m + 1 /\ 1..i \subseteq Heads
             /\ \A k \in 1..(i - 1) : Quiet(k)
             /\ promoted[1] = <<>>
             /\ decisions # <<>> => \E n \in Nat : DecidedAt(n) /\ i <= n
  <2>1. /\ i = m + 1 /\ 1..i \subseteq Heads
        /\ decisions # <<>> => \E n \in Nat : DecidedAt(n) /\ i <= n
    BY <1>1, <1>2, <1>4, NextInOrder
  <2>2. i - 1 = m
    BY <2>1
  <2>3. \A k \in 1..(i - 1) : Quiet(k)
    BY <1>4, <2>2 DEF ReplayedTo
  <2>4. QED
    BY <1>1, <1>4, <2>1, <2>3 DEF OneRunInv
<1>5. Undecided => \E m \in Nat : ReplayedTo(m)
  BY <1>1 DEF OneRunInv
<1>6. CASE Redecided(i)
  <2>1. UNCHANGED <<evidence, decisions, runs>> /\ ~Started'
    BY <1>6 DEF Redecided, Stop, Started
  <2>2. QED
    BY <1>0, <2>1, OneRunQuiet
<1>7. ASSUME NEW d, decisions' = Append(decisions, d), d.run = runs, runs' = runs,
             ~AlreadyDecided(d),
             Undecided => ~Quiet(i) /\ Content(d) = FirstOf(i)
      PROVE  OneRunInv'
  <2>1. decisions' \in Seq(Decided) /\ decisions \in Seq(Decided)
    BY <1>0 DEF TrialInv, RunTypeOK
  <2>2. ASSUME Undecided
        PROVE  decisions = <<>> /\ 1..i \subseteq Heads /\ \A k \in 1..(i - 1) : Quiet(k)
    <3>1. PICK m \in Nat : ReplayedTo(m)
      BY <1>5, <2>2
    <3>2. /\ 1..i \subseteq Heads /\ \A k \in 1..(i - 1) : Quiet(k)
          /\ decisions # <<>> => \E n \in Nat : DecidedAt(n) /\ i <= n
      BY <1>4, <2>2, <3>1
    <3>3. decisions = <<>>
      BY <1>3, <1>7, <2>1, <2>2, <3>2, NothingDecided
    <3>4. QED
      BY <3>2, <3>3
  <2>3. decisions = <<>> => Undecided
    BY DEF Undecided
  <2>4. QED
    BY <1>0, <1>3, <1>7, <2>1, <2>2, <2>3, OneRunDecision
<1>8. CASE Retried(i) /\ Retry(i)
  <2> PICK d : d = Decision("retry", i, <<>>, <<>>)
    OBVIOUS
  <2>1. /\ decisions' = Append(decisions, d) /\ ~AlreadyDecided(d) /\ runs' = runs
        /\ d.run = runs
    BY <1>8 DEF Retry, Handled, Decision
  <2>2. ~Quiet(i) /\ Content(d) = FirstOf(i)
    BY <1>8 DEF Quiet, Content, FirstOf, Decision
  <2>3. QED
    BY <1>7, <2>1, <2>2
<1>9. CASE ~Retried(i) /\ ObserveAndPromote(i)
  <2> PICK d : d = PromotionBy(i)
    OBVIOUS
  <2>1. /\ decisions' = Append(decisions, d) /\ ~AlreadyDecided(d) /\ Promotes(i) /\ runs' = runs
        /\ d.run = runs
    BY <1>9 DEF ObserveAndPromote, Handled, PromotionBy, Decision
  <2>2. ASSUME Undecided PROVE ~Quiet(i) /\ Content(d) = FirstOf(i)
    <3>1. PICK m \in Nat : ReplayedTo(m)
      BY <1>5, <2>2
    <3>2. i = m + 1 /\ promoted[1] = <<>>
      BY <1>4, <2>2, <3>1
    <3>3. QED
      BY <1>9, <2>1, <3>1, <3>2, RetracedObservation DEF Quiet
  <2>3. QED
    BY <1>7, <2>1, <2>2
<1>10. CASE ~Retried(i) /\ ObserveOnly(i)
  <2>1. /\ UNCHANGED <<evidence, runs, decisions, holding, queue, ended, promoted>>
        /\ batch' = batch \ {i} /\ ~Promotes(i)
        /\ observed' = [observed EXCEPT ![evidence[i].rung] = ObservedAfter(i)]
    BY <1>10 DEF ObserveOnly, Handled
  <2>2. Heads' = Heads /\ (Undecided' <=> Undecided) /\ Waiting' = Waiting
    BY <2>1 DEF Heads, ExpOf, Firsts, Trial, Exp, Undecided, Waiting
  <2>3. ASSUME Undecided
        PROVE  /\ Waiting' \subseteq Firsts
               /\ promoted'[1] = <<>>
               /\ \E n \in Nat : ReplayedTo(n)'
    <3>1. PICK m \in Nat : ReplayedTo(m)
      BY <1>5, <2>3
    <3>2. i = m + 1 /\ 1..i \subseteq Heads /\ promoted[1] = <<>> /\ \A k \in 1..(i - 1) : Quiet(k)
      BY <1>4, <2>3, <3>1
    <3>3. /\ evidence[i].rung = 1 /\ ObservedAfter(i) = Prefix(i)
          /\ ~SlotOpen(1, PrefixSeen(i), <<>>)
      BY <2>1, <3>1, <3>2, RetracedObservation
    <3>4. observed'[1] = Prefix(i)
      <4>1. 1 \in DOMAIN observed
        BY HalvingAssumption DEF TrialInv, RunTypeOK
      <4>2. QED
        BY <2>1, <3>3, <4>1
    <3>5. \A k \in 1..i : Quiet(k)'
      <4>1. Quiet(i)
        BY <1>10, <3>3 DEF Quiet
      <4>2. \A k \in 1..i : k = i \/ k \in 1..(i - 1)
        BY <1>3
      <4>3. \A k \in 1..i : k \in DOMAIN evidence /\ Quiet(k)
        BY <3>2, <4>1, <4>2 DEF Heads
      <4>4. QED
        BY <1>0, <4>3, PrefixStays DEF TrialInv
    <3>6. ended' \cup batch' = Heads' \ (1..i)
      <4>1. 1..i = (1..m) \cup {i}
        BY <3>2
      <4>2. QED
        BY <1>3, <2>1, <2>2, <3>1, <4>1 DEF ReplayedTo
    <3>7. \A k \in batch', j \in ended' : k < j
      BY <2>1, <3>1 DEF ReplayedTo
    <3>8. ReplayedTo(i)'
      BY <2>2, <3>2, <3>4, <3>5, <3>6, <3>7 DEF ReplayedTo, Prefix
    <3>9. QED
      BY <1>1, <1>3, <2>1, <2>2, <2>3, <3>2, <3>8 DEF OneRunInv
  <2>4. decisions = <<>> => Heads' = DOMAIN evidence'
    BY <2>1, <2>2 DEF OneRunInv
  <2>5. runs' \in Nat /\ runs <= runs'
    BY <2>1 DEF TrialInv, RunTypeOK
  <2>6. QED
    BY <1>0, <2>1, <2>2, <2>3, <2>4, <2>5, DiskKept
<1>11. QED
  BY <1>2, <1>6, <1>8, <1>9, <1>10

LEMMA OneRunStep ==
  ASSUME TrialInv, OneRunInv, Next
  PROVE  OneRunInv'
<1>0. Grown
  BY TrialStep
<1>1. CASE Crash
  <2>1. UNCHANGED <<evidence, decisions, runs>> /\ ~Started'
    BY <1>1 DEF Crash, Stop, Started
  <2>2. QED
    BY <1>0, <2>1, OneRunQuiet
<1>2. CASE Collect
  <2>1. batch = {} /\ Started /\ ended' = {} /\ batch' = ended
    BY <1>2 DEF Collect, TrialInv, PlaceOK, Started
  <2>2. UNCHANGED <<evidence, decisions, runs, holding, queue, observed, promoted>>
    BY <1>2 DEF Collect
  <2>3. QED
    BY <1>0, <2>1, <2>2, OneRunQuiet
<1>3. CASE Finish
  <2>1. /\ Started
        /\ UNCHANGED <<evidence, decisions, runs, holding, queue, ended, batch, observed, promoted>>
    BY <1>3 DEF Finish, Started
  <2>2. \A m \in Nat : ReplayedTo(m) => \A i \in batch', j \in ended' : i < j
    BY <2>1 DEF ReplayedTo
  <2>3. QED
    BY <1>0, <2>1, <2>2, OneRunQuiet
<1>4. QED
  BY <1>1, <1>2, <1>3, OneRunStart, OneRunRecord, OneRunHandle DEF Next

LEMMA OneRunStutter ==
  ASSUME TrialInv, OneRunInv, UNCHANGED vars
  PROVE  OneRunInv'
<1>1. /\ UNCHANGED <<evidence, decisions, pc, runs, holding, queue, ended, batch,
                    observed, promoted>>
      /\ Grown
  BY DEF vars, Grown
<1>2. (Started' <=> Started) /\ ended' \cup batch' = ended \cup batch
  BY <1>1 DEF Started
<1>3. \A m \in Nat : ReplayedTo(m) => \A i \in batch', j \in ended' : i < j
  BY <1>1 DEF ReplayedTo
<1>4. QED
  BY <1>1, <1>2, <1>3, OneRunQuiet

LEMMA OneRunInit == Init => OneRunInv
<1> SUFFICES ASSUME Init PROVE OneRunInv
  OBVIOUS
<1>1. evidence = <<>> /\ decisions = <<>> /\ ~Started
  BY DEF Init, Started
<1>2. DOMAIN evidence = {} /\ DOMAIN decisions = {} /\ Heads = {}
  BY <1>1 DEF Heads
<1>3. QED
  BY <1>1, <1>2 DEF OneRunInv

\* A start that has decided nothing retraces what any other start did before
\* its first decision (the inductive invariant of OneRunAlwaysDecides).
THEOREM OneRunInvariant == Spec => []OneRunInv
<1>1. TrialInv /\ OneRunInv /\ [Next]_vars => OneRunInv'
  BY OneRunStep, OneRunStutter
<1>2. QED
  BY <1>1, OneRunInit, TrialInvariant, PTL DEF Spec

\* However often a run is started, its decision records were all made by one
\* start: write_record of a create-once file raises on a repeated decision
\* before a second start could add one of its own.
THEOREM OneRunAlwaysDecides == Spec => []OneRunDecides
<1>1. OneRunInv => OneRunDecides
  BY DEF OneRunInv, OneRunDecides
<1>2. QED
  BY <1>1, OneRunInvariant, PTL
=============================================================================
