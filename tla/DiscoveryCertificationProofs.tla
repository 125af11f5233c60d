--------------------- MODULE DiscoveryCertificationProofs ---------------------
(***************************************************************************)
(* Proofs about DiscoveryCertification for any sessions, seeds, pools and  *)
(* verdicts.  Evidence only grows, so what a stage evaluates is a function *)
(* of the evidence of the stages before it: every session that reaches the *)
(* stage over a seed and a pool has the same candidates there, whatever    *)
(* the sessions over other pools add, and once their G2 evidence is        *)
(* complete the winner of the pool is fixed.                               *)
(***************************************************************************)
EXTENDS DiscoveryCertification, SumTheorems

-----------------------------------------------------------------------------
(* Racing never drops the leader: the leader under the winner rule is on the *)
(* Pareto front, and the first on it.                                        *)

LEMMA OrderedMetrics ==
  /\ Len(MetricOrder) \in Nat /\ DOMAIN MetricOrder = 1 .. Len(MetricOrder)
  /\ \A i \in DOMAIN MetricOrder : MetricOrder[i] \in Objectives /\ MetricOrder[i] \in Metrics
  BY RacingAssumption

\* The winner rule agrees with dominance.
LEMMA DominatesImpliesBefore ==
  ASSUME NEW s \in Scores, NEW t \in Scores, Dominates(s, t)
  PROVE  Before(s, t)
<1> DEFINE Better == {i \in DOMAIN MetricOrder : s[MetricOrder[i]] < t[MetricOrder[i]]}
<1>1. Better # {} /\ Better \in SUBSET Nat
  <2>1. PICK m \in Objectives : s[m] < t[m]
    BY DEF Dominates
  <2>2. PICK i \in DOMAIN MetricOrder : MetricOrder[i] = m
    BY RacingAssumption
  <2>3. i \in Better
    BY <2>1, <2>2
  <2>4. QED
    BY <2>3, OrderedMetrics
<1>2. PICK i \in Better : \A j \in Better : i <= j
  BY <1>1, LeastNatural
<1>3. \A j \in 1 .. i - 1 : s[MetricOrder[j]] = t[MetricOrder[j]]
  <2> SUFFICES ASSUME NEW j \in 1 .. i - 1 PROVE s[MetricOrder[j]] = t[MetricOrder[j]]
    OBVIOUS
  <2>1. j \in DOMAIN MetricOrder /\ i \in Nat /\ j < i
    BY OrderedMetrics
  <2>2. j \notin Better
    BY <1>2, <2>1, OrderedMetrics
  <2>3. MetricOrder[j] \in Objectives /\ MetricOrder[j] \in Metrics
    BY <2>1, OrderedMetrics
  <2>4. s[MetricOrder[j]] \in Int /\ t[MetricOrder[j]] \in Int
    BY <2>3 DEF Scores
  <2>5. s[MetricOrder[j]] <= t[MetricOrder[j]]
    BY <2>3 DEF Dominates
  <2>6. QED
    BY <2>1, <2>2, <2>4, <2>5
<1>4. QED
  BY <1>2, <1>3 DEF Before

LEMMA BeforeIsAsymmetric ==
  ASSUME NEW s \in Scores, NEW t \in Scores, Before(s, t)
  PROVE  ~Before(t, s)
<1> SUFFICES ASSUME Before(t, s) PROVE FALSE
  OBVIOUS
<1>1. PICK i \in DOMAIN MetricOrder :
        /\ s[MetricOrder[i]] < t[MetricOrder[i]]
        /\ \A j \in 1 .. i - 1 : s[MetricOrder[j]] = t[MetricOrder[j]]
  BY DEF Before
<1>2. PICK k \in DOMAIN MetricOrder :
        /\ t[MetricOrder[k]] < s[MetricOrder[k]]
        /\ \A j \in 1 .. k - 1 : t[MetricOrder[j]] = s[MetricOrder[j]]
  BY <1>1 DEF Before
<1>3. /\ i \in Nat /\ k \in Nat /\ i >= 1 /\ k >= 1
      /\ s[MetricOrder[i]] \in Int /\ t[MetricOrder[i]] \in Int
      /\ s[MetricOrder[k]] \in Int /\ t[MetricOrder[k]] \in Int
  BY OrderedMetrics DEF Scores
<1>4. i < k => i \in 1 .. k - 1
  BY <1>3
<1>5. k < i => k \in 1 .. i - 1
  BY <1>3
<1>6. CASE i < k
  BY <1>1, <1>2, <1>3, <1>4, <1>6
<1>7. CASE k < i
  BY <1>1, <1>2, <1>3, <1>5, <1>7
<1>8. CASE i = k
  BY <1>1, <1>2, <1>3, <1>8
<1>9. QED
  BY <1>3, <1>6, <1>7, <1>8

\* SafeRacing.promote keeps the candidate the winner rule would pick on this
\* evidence, whenever there is a place at all: no trade-off between objectives
\* and no limit on the places can eliminate it.
THEOREM LeaderSurvivesRacing ==
  ASSUME NEW F \in SUBSET Candidates, NEW score \in [Candidates -> Scores],
         NEW target \in Nat \ {0}, NEW c \in F,
         \A d \in F \ {c} : Precedes(c, d, score)
  PROVE  c \in Promote(F, target, score)
<1>1. \A d \in F : ~Precedes(d, c, score)
  <2> SUFFICES ASSUME NEW d \in F, Precedes(d, c, score) PROVE FALSE
    OBVIOUS
  <2>1. Id[c] \in Nat /\ Id[d] \in Nat
    BY RacingAssumption
  <2>2. CASE d = c
    BY <2>1, <2>2, BeforeIsAsymmetric DEF Precedes
  <2>3. CASE d # c
    <3>1. Precedes(c, d, score)
      BY <2>3
    <3>2. QED
      BY <2>1, <3>1, BeforeIsAsymmetric DEF Precedes
  <2>4. QED
    BY <2>2, <2>3
<1>2. c \in ParetoFront(F, score)
  <2> SUFFICES ASSUME NEW d \in F, Dominates(score[d], score[c]) PROVE FALSE
    BY DEF ParetoFront
  <2>1. Before(score[d], score[c])
    BY DominatesImpliesBefore
  <2>2. QED
    BY <1>1, <2>1 DEF Precedes
<1>3. c \in First(ParetoFront(F, score), target, score)
  <2>1. {d \in ParetoFront(F, score) : Precedes(d, c, score)} = {}
    BY <1>1 DEF ParetoFront
  <2>2. Cardinality({d \in ParetoFront(F, score) : Precedes(d, c, score)}) < target
    BY <2>1, FS_EmptySet
  <2>3. QED
    BY <1>2, <2>2 DEF First
<1>4. QED
  BY <1>3 DEF Promote

LEMMA BeforeIsTransitive ==
  ASSUME NEW s \in Scores, NEW t \in Scores, NEW u \in Scores, Before(s, t), Before(t, u)
  PROVE  Before(s, u)
<1>1. PICK i \in DOMAIN MetricOrder :
        /\ s[MetricOrder[i]] < t[MetricOrder[i]]
        /\ \A j \in 1 .. i - 1 : s[MetricOrder[j]] = t[MetricOrder[j]]
  BY DEF Before
<1>2. PICK k \in DOMAIN MetricOrder :
        /\ t[MetricOrder[k]] < u[MetricOrder[k]]
        /\ \A j \in 1 .. k - 1 : t[MetricOrder[j]] = u[MetricOrder[j]]
  BY <1>1 DEF Before
<1>3. i \in Nat /\ k \in Nat /\ i >= 1 /\ k >= 1
  BY OrderedMetrics
<1>4. \A j \in DOMAIN MetricOrder :
        s[MetricOrder[j]] \in Int /\ t[MetricOrder[j]] \in Int /\ u[MetricOrder[j]] \in Int
  BY OrderedMetrics DEF Scores
<1>5. CASE i < k
  <2>1. t[MetricOrder[i]] = u[MetricOrder[i]]
    BY <1>2, <1>3, <1>5
  <2>2. \A j \in 1 .. i - 1 : t[MetricOrder[j]] = u[MetricOrder[j]]
    BY <1>2, <1>3, <1>5
  <2>3. QED
    BY <1>1, <2>1, <2>2 DEF Before
<1>6. CASE k < i
  <2>1. s[MetricOrder[k]] = t[MetricOrder[k]]
    BY <1>1, <1>3, <1>6
  <2>2. \A j \in 1 .. k - 1 : s[MetricOrder[j]] = t[MetricOrder[j]]
    BY <1>1, <1>3, <1>6
  <2>3. QED
    BY <1>2, <2>1, <2>2 DEF Before
<1>7. CASE i = k
  <2>1. s[MetricOrder[i]] < u[MetricOrder[i]]
    BY <1>1, <1>2, <1>4, <1>7
  <2>2. QED
    BY <1>1, <1>2, <1>7, <2>1 DEF Before
<1>8. QED
  BY <1>3, <1>5, <1>6, <1>7

\* Candidates the metrics do not separate agree on all of them.
LEMMA TiedScoresAgree ==
  ASSUME NEW s \in Scores, NEW t \in Scores, ~Before(s, t), ~Before(t, s)
  PROVE  \A i \in DOMAIN MetricOrder : s[MetricOrder[i]] = t[MetricOrder[i]]
<1> DEFINE Differ == {i \in DOMAIN MetricOrder : s[MetricOrder[i]] # t[MetricOrder[i]]}
<1> SUFFICES ASSUME Differ # {} PROVE FALSE
  OBVIOUS
<1>1. Differ \in SUBSET Nat
  BY OrderedMetrics
<1>2. PICK i \in Differ : \A j \in Differ : i <= j
  BY <1>1, LeastNatural
<1>3. \A j \in 1 .. i - 1 : s[MetricOrder[j]] = t[MetricOrder[j]]
  <2> SUFFICES ASSUME NEW j \in 1 .. i - 1 PROVE j \notin Differ /\ j \in DOMAIN MetricOrder
    OBVIOUS
  <2>1. j \in Nat /\ i \in Nat /\ j < i
    BY OrderedMetrics
  <2>2. QED
    BY <1>2, <2>1, OrderedMetrics
<1>4. s[MetricOrder[i]] \in Int /\ t[MetricOrder[i]] \in Int
  BY OrderedMetrics DEF Scores
<1>5. s[MetricOrder[i]] < t[MetricOrder[i]] \/ t[MetricOrder[i]] < s[MetricOrder[i]]
  BY <1>4
<1>6. QED
  BY <1>3, <1>5 DEF Before

LEMMA TiesAreInterchangeable ==
  ASSUME NEW s \in Scores, NEW t \in Scores, NEW u \in Scores,
         \A i \in DOMAIN MetricOrder : s[MetricOrder[i]] = t[MetricOrder[i]]
  PROVE  (Before(s, u) <=> Before(t, u)) /\ (Before(u, s) <=> Before(u, t))
<1>1. \A i \in DOMAIN MetricOrder : 1 .. i - 1 \subseteq DOMAIN MetricOrder
  BY OrderedMetrics
<1>2. QED
  BY <1>1 DEF Before

\* The winner rule orders the candidates totally.
LEMMA PrecedesIsTotalOrder ==
  ASSUME NEW score \in [Candidates -> Scores],
         NEW c \in Candidates, NEW d \in Candidates, NEW e \in Candidates
  PROVE  /\ ~Precedes(c, c, score)
         /\ Precedes(c, d, score) => ~Precedes(d, c, score)
         /\ c # d => Precedes(c, d, score) \/ Precedes(d, c, score)
         /\ Precedes(c, d, score) /\ Precedes(d, e, score) => Precedes(c, e, score)
<1>1. /\ score[c] \in Scores /\ score[d] \in Scores /\ score[e] \in Scores
      /\ Id[c] \in Nat /\ Id[d] \in Nat /\ Id[e] \in Nat
      /\ Id[c] = Id[d] => c = d
  BY RacingAssumption
<1>2. ~Precedes(c, c, score)
  BY <1>1, BeforeIsAsymmetric DEF Precedes
<1>3. Precedes(c, d, score) => ~Precedes(d, c, score)
  BY <1>1, BeforeIsAsymmetric DEF Precedes
<1>4. c # d => Precedes(c, d, score) \/ Precedes(d, c, score)
  BY <1>1 DEF Precedes
<1>5. ASSUME Precedes(c, d, score), Precedes(d, e, score) PROVE Precedes(c, e, score)
  <2>1. CASE Before(score[c], score[d]) /\ Before(score[d], score[e])
    BY <1>1, <2>1, BeforeIsTransitive DEF Precedes
  <2>2. CASE Before(score[c], score[d]) /\ ~Before(score[d], score[e])
    <3>1. ~Before(score[e], score[d])
      BY <1>5, <2>2 DEF Precedes
    <3>2. Before(score[c], score[e])
      BY <1>1, <2>2, <3>1, TiedScoresAgree, TiesAreInterchangeable
    <3>3. QED
      BY <3>2 DEF Precedes
  <2>3. CASE ~Before(score[c], score[d])
    <3>1. ~Before(score[d], score[c]) /\ Id[c] < Id[d]
      BY <1>5, <2>3 DEF Precedes
    <3>2. /\ Before(score[c], score[e]) <=> Before(score[d], score[e])
          /\ Before(score[e], score[c]) <=> Before(score[e], score[d])
      BY <1>1, <2>3, <3>1, TiedScoresAgree, TiesAreInterchangeable
    <3>3. QED
      BY <1>1, <1>5, <3>1, <3>2 DEF Precedes
  <2>4. QED
    BY <2>1, <2>2, <2>3
<1>6. QED
  BY <1>2, <1>3, <1>4, <1>5

\* select_winner has an answer on any nonempty evidence, and it is the leader.
THEOREM WinnerLeads ==
  ASSUME NEW F \in SUBSET Candidates, IsFiniteSet(F), F # {},
         NEW score \in [Candidates -> Scores]
  PROVE  /\ SelectWinner(F, score) \in F
         /\ \A d \in F \ {SelectWinner(F, score)} : Precedes(SelectWinner(F, score), d, score)
<1> DEFINE Ahead(c) == {d \in F : Precedes(d, c, score)}
           Places == {Cardinality(Ahead(c)) : c \in F}
<1>1. \A c \in F : IsFiniteSet(Ahead(c)) /\ Cardinality(Ahead(c)) \in Nat
  BY FS_Subset, FS_CardinalityType
<1>2. PICK n \in Places : \A m \in Places : n <= m
  <2>1. Places \in SUBSET Nat /\ Places # {}
    BY <1>1
  <2> HIDE DEF Places
  <2>2. QED
    BY <2>1, LeastNatural
<1>3. PICK c \in F : n = Cardinality(Ahead(c))
  OBVIOUS
<1>4. Ahead(c) = {}
  <2> SUFFICES ASSUME NEW d \in Ahead(c) PROVE FALSE
    OBVIOUS
  <2>1. Precedes(d, c, score) /\ d \in F
    OBVIOUS
  <2>2. Ahead(d) \subseteq Ahead(c) /\ d \notin Ahead(d)
    BY <2>1, PrecedesIsTotalOrder
  <2>3. Cardinality(Ahead(d)) <= Cardinality(Ahead(c)) /\ Ahead(d) # Ahead(c)
    BY <1>1, <2>2, FS_Subset
  <2>4. Cardinality(Ahead(c)) # Cardinality(Ahead(d))
    BY <1>1, <2>2, <2>3, FS_Subset
  <2>5. Cardinality(Ahead(c)) <= Cardinality(Ahead(d))
    BY <1>2, <1>3, <2>1
  <2>6. QED
    BY <1>1, <2>1, <2>3, <2>4, <2>5
<1>5. \A d \in F \ {c} : Precedes(c, d, score)
  BY <1>4, PrecedesIsTotalOrder
<1>6. QED
  BY <1>5 DEF SelectWinner

-----------------------------------------------------------------------------
(* What a stage evaluates *)

FeasibleIn(ev, S, f, s) == {c \in S : ev[c, f, s].gate = "feasible"}
ScoresIn(ev, f, s) == [c \in Candidates |-> ev[c, f, s].score]
Complete(ev, S, f, s) == \A c \in S : ev[c, f, s] # NoEvidence

\* The candidates each stage of a race over the pool P evaluates, and when it
\* has come that far.
Active1(ev, P, s) == FeasibleIn(ev, P, "G0", s)

Active2(ev, P, s) ==
  Promote(FeasibleIn(ev, Active1(ev, P, s), "G1", s),
          Target("G1", Cardinality(Active1(ev, P, s))), ScoresIn(ev, "G1", s))

StageSet(ev, f, P, s) ==
  IF f = "G0" THEN P ELSE IF f = "G1" THEN Active1(ev, P, s) ELSE Active2(ev, P, s)

Reached(ev, f, P, s) ==
  /\ f # "G0" => Complete(ev, P, "G0", s)
  /\ f = "G2" => Complete(ev, Active1(ev, P, s), "G1", s)

Chosen(ev, c, P, s) ==
  /\ c \in Candidates /\ s \in Seeds /\ P \in Pools[s]
  /\ Reached(ev, "G2", P, s)
  /\ Complete(ev, Active2(ev, P, s), "G2", s)
  /\ FeasibleIn(ev, Active2(ev, P, s), "G2", s) # {}
  /\ c = SelectWinner(FeasibleIn(ev, Active2(ev, P, s), "G2", s), ScoresIn(ev, "G2", s))

EvidenceOK(ev) == ev \in [Experiments -> Verdict \cup {NoEvidence}]

\* Evidence is created once: what there is stays as it is.
Grows(ev, ev2) == \A x \in Experiments : ev[x] # NoEvidence => ev2[x] = ev[x]

\* Only what G0 found feasible goes on, in every pool.
OnlySurvivorsGoOn(ev) ==
  \A c \in Candidates, s \in Seeds :
    ev[c, "G1", s] # NoEvidence => ev[c, "G0", s].gate = "feasible"

\* What the locals of a discovery session stand for.
DiscoveryTask(t, ev, fz, dec) ==
  /\ t.pc = "evaluate" /\ t.stage \in Stages =>
       /\ t.seed \in Seeds /\ t.pool \in Pools[t.seed]
       /\ Reached(ev, t.stage, t.pool, t.seed)
       /\ t.active = StageSet(ev, t.stage, t.pool, t.seed) /\ t.left \subseteq t.active
       /\ Complete(ev, t.active \ t.left, t.stage, t.seed)
  /\ t.pc \in {"freeze", "decide", "deciding"} => Chosen(ev, t.winner, t.pool, t.seed)
  /\ t.pc \in {"decide", "deciding"} => t.winner \in fz
  /\ t.pc = "deciding" => dec = Torn

\* What the locals of a certification session stand for.
CertificationTask(t, ev, fz, dec) ==
  (t.pc = "evaluate" /\ t.stage = "G7") \/ t.pc = "certifying" =>
    /\ dec.state = "written" /\ t.winner = dec.candidate /\ t.winner \in fz
    /\ t.seed \in Seeds /\ t.left \subseteq {t.winner}
    /\ t.left = {} => ev[t.winner, "G7", t.seed] # NoEvidence
    /\ t.pc = "certifying" => t.left = {}

TasksInv ==
  \A w \in Sessions :
    /\ DiscoveryTask(task[w], evidence, frozen, decision)
    /\ CertificationTask(task[w], evidence, frozen, decision)

OneDecider == \A v, w \in Sessions : At(v, "deciding") /\ At(w, "deciding") => v = w

DecisionInv ==
  decision.state = "written" =>
    /\ Chosen(evidence, decision.candidate, decision.pool, decision.seed)
    /\ decision.candidate \in frozen

RaceInv == /\ OnlySurvivorsGoOn(evidence) /\ TasksInv /\ OneDecider /\ DecisionInv
           /\ BlindAfterDecision /\ CertificatesAreOfTheWinner

Inv == DiscoveryTypeOK /\ RaceInv

-----------------------------------------------------------------------------
(* The ranking looks at nothing but the candidates it ranks *)

LEMMA RankingIsLocal ==
  ASSUME NEW F, NEW score, NEW other, \A c \in F : score[c] = other[c], NEW target
  PROVE  /\ Promote(F, target, score) = Promote(F, target, other)
         /\ SelectWinner(F, score) = SelectWinner(F, other)
<1>1. \A c, d \in F : Precedes(c, d, score) <=> Precedes(c, d, other)
  BY DEF Precedes
<1>2. ParetoFront(F, score) = ParetoFront(F, other)
  BY DEF ParetoFront
<1>3. ASSUME NEW S \in SUBSET F, NEW n PROVE First(S, n, score) = First(S, n, other)
  <2>1. \A c \in S : {d \in S : Precedes(d, c, score)} = {d \in S : Precedes(d, c, other)}
    BY <1>1
  <2>2. QED
    BY <2>1 DEF First
<1>4. Promote(F, target, score) = Promote(F, target, other)
  <2> DEFINE front == ParetoFront(F, score)
             chosen == First(front, target, score)
  <2>1. front \in SUBSET F /\ F \ chosen \in SUBSET F
    BY DEF ParetoFront
  <2>2. chosen = First(front, target, other)
    BY <1>3, <2>1
  <2>3. First(F \ chosen, target - Cardinality(chosen), score)
          = First(F \ chosen, target - Cardinality(chosen), other)
    BY <1>3, <2>1
  <2>4. QED
    BY <1>2, <2>2, <2>3 DEF Promote
<1>5. \A c \in F : (\A d \in F \ {c} : Precedes(c, d, score)) <=>
                   (\A d \in F \ {c} : Precedes(c, d, other))
  BY <1>1
<1>6. SelectWinner(F, score) = SelectWinner(F, other)
  BY <1>5 DEF SelectWinner
<1>7. QED
  BY <1>4, <1>6

LEMMA PromoteFromF ==
  ASSUME NEW F, NEW score, NEW target
  PROVE  Promote(F, target, score) \subseteq F
<1>1. \A S, n : First(S, n, score) \subseteq S
  BY DEF First
<1>2. ParetoFront(F, score) \subseteq F
  BY DEF ParetoFront
<1> DEFINE chosen == First(ParetoFront(F, score), target, score)
<1>3. chosen \subseteq F
  BY <1>1, <1>2
<1>4. First(F \ chosen, target - Cardinality(chosen), score) \subseteq F
  BY <1>1
<1> HIDE DEF chosen
<1>5. QED
  BY <1>3, <1>4 DEF Promote, chosen

LEMMA StageSets ==
  ASSUME NEW ev, NEW s \in Seeds, NEW P \in Pools[s]
  PROVE  /\ P \subseteq Candidates /\ IsFiniteSet(P)
         /\ Active1(ev, P, s) \subseteq P /\ Active2(ev, P, s) \subseteq Active1(ev, P, s)
         /\ IsFiniteSet(Active1(ev, P, s)) /\ IsFiniteSet(Active2(ev, P, s))
<1>1. P \subseteq Candidates /\ IsFiniteSet(P)
  BY DiscoveryAssumption
<1>2. Active1(ev, P, s) \subseteq P
  BY DEF Active1, FeasibleIn
<1>3. FeasibleIn(ev, Active1(ev, P, s), "G1", s) \subseteq Active1(ev, P, s)
  BY DEF FeasibleIn
<1>4. Active2(ev, P, s) \subseteq Active1(ev, P, s)
  BY <1>3, PromoteFromF DEF Active2
<1>5. QED
  BY <1>1, <1>2, <1>4, FS_Subset

-----------------------------------------------------------------------------
(* What growing evidence leaves fixed *)

LEMMA CompleteIsStable ==
  ASSUME NEW ev, NEW ev2, Grows(ev, ev2), NEW S \in SUBSET Candidates,
         NEW f \in Fidelities, NEW s \in Seeds, Complete(ev, S, f, s)
  PROVE  /\ Complete(ev2, S, f, s)
         /\ FeasibleIn(ev2, S, f, s) = FeasibleIn(ev, S, f, s)
         /\ \A c \in S : ScoresIn(ev2, f, s)[c] = ScoresIn(ev, f, s)[c]
<1>1. \A c \in S : <<c, f, s>> \in Experiments
  BY DEF Experiments
<1>2. \A c \in S : ev2[c, f, s] = ev[c, f, s]
  BY <1>1 DEF Grows, Complete
<1>3. QED
  BY <1>2 DEF Complete, FeasibleIn, ScoresIn

LEMMA ReachedIsStable ==
  ASSUME NEW ev, NEW ev2, Grows(ev, ev2), NEW f \in Stages, NEW s \in Seeds,
         NEW P \in Pools[s], Reached(ev, f, P, s)
  PROVE  Reached(ev2, f, P, s) /\ StageSet(ev2, f, P, s) = StageSet(ev, f, P, s)
<1>0. "G0" \in Fidelities /\ "G1" \in Fidelities
  BY DEF Fidelities, Stages
<1>1. CASE f = "G0"
  BY <1>1 DEF Reached, StageSet
<1>2. ASSUME f # "G0"
      PROVE  Complete(ev2, P, "G0", s) /\ Active1(ev2, P, s) = Active1(ev, P, s)
  <2>1. Complete(ev, P, "G0", s)
    BY <1>2 DEF Reached
  <2>2. QED
    BY <1>0, <2>1, StageSets, CompleteIsStable DEF Active1
<1>3. CASE f = "G1"
  BY <1>2, <1>3 DEF Reached, StageSet
<1>4. CASE f = "G2"
  <2> DEFINE A == Active1(ev, P, s)
             F == FeasibleIn(ev, A, "G1", s)
  <2>1. Active1(ev2, P, s) = A /\ Complete(ev2, P, "G0", s)
    BY <1>2, <1>4
  <2>2. Complete(ev, A, "G1", s) /\ A \in SUBSET Candidates
    BY <1>4, StageSets DEF Reached
  <2>3. /\ Complete(ev2, A, "G1", s)
        /\ FeasibleIn(ev2, A, "G1", s) = F
        /\ \A c \in A : ScoresIn(ev2, "G1", s)[c] = ScoresIn(ev, "G1", s)[c]
    BY <1>0, <2>2, CompleteIsStable
  <2>4. F \subseteq A
    BY DEF FeasibleIn
  <2>5. Promote(F, Target("G1", Cardinality(A)), ScoresIn(ev2, "G1", s))
          = Promote(F, Target("G1", Cardinality(A)), ScoresIn(ev, "G1", s))
    BY <2>3, <2>4, RankingIsLocal
  <2>6. Active2(ev2, P, s) = Active2(ev, P, s)
    BY <2>1, <2>3, <2>5 DEF Active2
  <2>7. QED
    BY <1>4, <2>1, <2>3, <2>6 DEF Reached, StageSet
<1>5. QED
  BY <1>1, <1>3, <1>4 DEF Stages

LEMMA ChosenIsStable ==
  ASSUME NEW ev, NEW ev2, Grows(ev, ev2), NEW c, NEW P, NEW s, Chosen(ev, c, P, s)
  PROVE  Chosen(ev2, c, P, s)
<1> DEFINE A == Active2(ev, P, s)
           F == FeasibleIn(ev, A, "G2", s)
<1>1. s \in Seeds /\ P \in Pools[s] /\ "G2" \in Stages /\ "G2" \in Fidelities
  BY DEF Chosen, Stages, Fidelities
<1>2. Reached(ev2, "G2", P, s) /\ Active2(ev2, P, s) = A
  BY <1>1, ReachedIsStable DEF Chosen, StageSet
<1>3. A \in SUBSET Candidates
  BY <1>1, StageSets
<1>4. /\ Complete(ev2, A, "G2", s)
      /\ FeasibleIn(ev2, A, "G2", s) = F
      /\ \A d \in A : ScoresIn(ev2, "G2", s)[d] = ScoresIn(ev, "G2", s)[d]
  BY <1>1, <1>3, CompleteIsStable DEF Chosen
<1>5. F \subseteq A
  BY DEF FeasibleIn
<1>6. SelectWinner(F, ScoresIn(ev2, "G2", s)) = SelectWinner(F, ScoresIn(ev, "G2", s))
  BY <1>4, <1>5, RankingIsLocal
<1>7. QED
  BY <1>2, <1>4, <1>6 DEF Chosen
-----------------------------------------------------------------------------
(* One step of one session *)

LEMMA VerdictsAreEvidence ==
  /\ \A v \in Verdict : v # NoEvidence
  /\ NoEvidence.gate # "feasible"
  /\ \A v \in Verdict \cup {NoEvidence} : v.score \in Scores
BY DEF Verdict, NoEvidence, NoScore, Scores

LEMMA FilesHoldReceipts ==
  /\ \A file \in Files : file.state = "written" =>
       file.candidate \in Candidates /\ file.seed \in Seeds
  /\ Absent.state # "written" /\ Torn.state # "written" /\ Absent # Torn
  /\ \A c, s, P : /\ Written(c, s, P).state = "written" /\ Written(c, s, P).candidate = c
                  /\ Written(c, s, P).seed = s /\ Written(c, s, P).pool = P
  /\ Absent \in Files /\ Torn \in Files
  /\ \A c \in Candidates, s \in Seeds, P \in SUBSET Candidates : Written(c, s, P) \in Files
<1>1. /\ Absent.state # "written" /\ Torn.state # "written" /\ Absent # Torn
      /\ \A c, s, P : /\ Written(c, s, P).state = "written" /\ Written(c, s, P).candidate = c
                      /\ Written(c, s, P).seed = s /\ Written(c, s, P).pool = P
  BY DEF Absent, Torn, Written
<1>2. /\ Absent \in Files /\ Torn \in Files
      /\ \A c \in Candidates, s \in Seeds, P \in SUBSET Candidates : Written(c, s, P) \in Files
  BY DEF Files
<1>3. ASSUME NEW file \in Files, file.state = "written"
      PROVE  file.candidate \in Candidates /\ file.seed \in Seeds
  BY <1>1, <1>3 DEF Files
<1>4. QED
  BY <1>1, <1>2, <1>3

LEMMA IdleIsFree ==
  ASSUME NEW ev, NEW fz, NEW dec
  PROVE  /\ Idle \in Locals /\ Idle.pc = "idle"
         /\ DiscoveryTask(Idle, ev, fz, dec) /\ CertificationTask(Idle, ev, fz, dec)
BY DEF Idle, Locals, Fidelities, Stages, DiscoveryTask, CertificationTask

LEMMA DiscoveryTaskIsStable ==
  ASSUME NEW ev, NEW ev2, Grows(ev, ev2), NEW fz, NEW fz2, fz \subseteq fz2,
         NEW dec, NEW dec2, NEW t, t.pc = "deciding" /\ dec = Torn => dec2 = Torn,
         DiscoveryTask(t, ev, fz, dec)
  PROVE  DiscoveryTask(t, ev2, fz2, dec2)
<1>1. ASSUME t.pc = "evaluate", t.stage \in Stages
      PROVE  /\ t.seed \in Seeds /\ t.pool \in Pools[t.seed]
             /\ Reached(ev2, t.stage, t.pool, t.seed)
             /\ t.active = StageSet(ev2, t.stage, t.pool, t.seed) /\ t.left \subseteq t.active
             /\ Complete(ev2, t.active \ t.left, t.stage, t.seed)
  <2>1. /\ t.seed \in Seeds /\ t.pool \in Pools[t.seed]
        /\ Reached(ev, t.stage, t.pool, t.seed)
        /\ t.active = StageSet(ev, t.stage, t.pool, t.seed) /\ t.left \subseteq t.active
        /\ Complete(ev, t.active \ t.left, t.stage, t.seed)
    BY <1>1 DEF DiscoveryTask
  <2>2. t.active \subseteq Candidates
    BY <2>1, StageSets DEF StageSet
  <2>3. t.stage \in Fidelities
    BY <1>1 DEF Fidelities
  <2>4. QED
    BY <1>1, <2>1, <2>2, <2>3, ReachedIsStable, CompleteIsStable
<1>2. t.pc \in {"freeze", "decide", "deciding"} => Chosen(ev2, t.winner, t.pool, t.seed)
  BY ChosenIsStable DEF DiscoveryTask
<1>3. QED
  BY <1>1, <1>2 DEF DiscoveryTask

LEMMA CertificationTaskIsStable ==
  ASSUME NEW ev, NEW ev2, Grows(ev, ev2), NEW fz \in SUBSET Candidates,
         NEW fz2, fz \subseteq fz2,
         NEW dec, NEW dec2, dec.state = "written" => dec2 = dec, NEW t,
         CertificationTask(t, ev, fz, dec)
  PROVE  CertificationTask(t, ev2, fz2, dec2)
<1> SUFFICES ASSUME (t.pc = "evaluate" /\ t.stage = "G7") \/ t.pc = "certifying"
             PROVE  /\ dec2.state = "written" /\ t.winner = dec2.candidate /\ t.winner \in fz2
                    /\ t.seed \in Seeds /\ t.left \subseteq {t.winner}
                    /\ t.left = {} => ev2[t.winner, "G7", t.seed] # NoEvidence
                    /\ t.pc = "certifying" => t.left = {}
  BY DEF CertificationTask
<1>1. /\ dec.state = "written" /\ t.winner = dec.candidate /\ t.winner \in fz
      /\ t.seed \in Seeds /\ t.left \subseteq {t.winner}
      /\ t.left = {} => ev[t.winner, "G7", t.seed] # NoEvidence
      /\ t.pc = "certifying" => t.left = {}
  BY DEF CertificationTask
<1>2. <<t.winner, "G7", t.seed>> \in Experiments
  BY <1>1 DEF Experiments, Fidelities
<1>3. t.left = {} => ev2[t.winner, "G7", t.seed] # NoEvidence
  BY <1>1, <1>2 DEF Grows
<1>4. QED
  BY <1>1, <1>3

\* What the other sessions know survives a step of w that only adds evidence and
\* frozen candidates and never rewrites a decision.
LEMMA TasksStep ==
  ASSUME DiscoveryTypeOK, TasksInv, NEW w \in Sessions, NEW t \in Locals,
         task' = [task EXCEPT ![w] = t],
         DiscoveryTask(t, evidence', frozen', decision'),
         CertificationTask(t, evidence', frozen', decision'),
         Grows(evidence, evidence'), frozen \subseteq frozen',
         decision.state = "written" => decision' = decision,
         \A v \in Sessions \ {w} : At(v, "deciding") /\ decision = Torn => decision' = Torn
  PROVE  TasksInv' /\ task' \in [Sessions -> Locals]
<1>1. task \in [Sessions -> Locals] /\ frozen \in SUBSET Candidates
  BY DEF DiscoveryTypeOK
<1>2. task' \in [Sessions -> Locals] /\ task'[w] = t
  BY <1>1
<1>3. ASSUME NEW v \in Sessions \ {w}
      PROVE  /\ DiscoveryTask(task'[v], evidence', frozen', decision')
             /\ CertificationTask(task'[v], evidence', frozen', decision')
  <2>1. task'[v] = task[v]
    BY <1>1
  <2>2. /\ DiscoveryTask(task[v], evidence, frozen, decision)
        /\ CertificationTask(task[v], evidence, frozen, decision)
    BY DEF TasksInv
  <2>3. task[v].pc = "deciding" /\ decision = Torn => decision' = Torn
    BY DEF At
  <2>4. DiscoveryTask(task[v], evidence', frozen', decision')
    BY <2>2, <2>3, DiscoveryTaskIsStable
  <2>5. CertificationTask(task[v], evidence', frozen', decision')
    BY <1>1, <2>2, CertificationTaskIsStable
  <2>6. QED
    BY <2>1, <2>4, <2>5
<1>4. QED
  BY <1>2, <1>3 DEF TasksInv

\* A step of w that leaves the evidence and the decision alone.
LEMMA FrameStep ==
  ASSUME Inv, NEW w \in Sessions, NEW t \in Locals, t.pc # "deciding",
         task' = [task EXCEPT ![w] = t],
         DiscoveryTask(t, evidence, frozen', decision),
         CertificationTask(t, evidence, frozen', decision),
         evidence' = evidence, decision' = decision, runs' \in 0 .. MaxRuns,
         frozen \subseteq frozen', frozen' \subseteq Candidates,
         certificates' \in [Candidates -> Files], CertificatesAreOfTheWinner'
  PROVE  Inv'
<1>1. Grows(evidence, evidence')
  BY DEF Grows
<1>2. TasksInv' /\ task' \in [Sessions -> Locals]
  <2>1. /\ DiscoveryTask(t, evidence', frozen', decision')
        /\ CertificationTask(t, evidence', frozen', decision')
    OBVIOUS
  <2>2. QED
    BY <1>1, <2>1, TasksStep DEF Inv, RaceInv
<1>3. DiscoveryTypeOK'
  BY <1>2 DEF Inv, DiscoveryTypeOK
<1>4. OnlySurvivorsGoOn(evidence)' /\ DecisionInv' /\ BlindAfterDecision'
  BY DEF Inv, RaceInv, DecisionInv, BlindAfterDecision
<1>5. OneDecider'
  <2>1. task \in [Sessions -> Locals] /\ OneDecider
    BY DEF Inv, RaceInv, DiscoveryTypeOK
  <2>2. \A v \in Sessions : task'[v].pc = "deciding" => task[v].pc = "deciding"
    BY <2>1
  <2>3. QED
    BY <2>1, <2>2 DEF OneDecider, At
<1>6. QED
  BY <1>2, <1>3, <1>4, <1>5 DEF Inv, RaceInv

\* The same, when no certificate changes either.
LEMMA QuietStep ==
  ASSUME Inv, NEW w \in Sessions, NEW t \in Locals, t.pc # "deciding",
         task' = [task EXCEPT ![w] = t],
         DiscoveryTask(t, evidence, frozen', decision),
         CertificationTask(t, evidence, frozen', decision),
         evidence' = evidence, decision' = decision, runs' \in 0 .. MaxRuns,
         frozen \subseteq frozen', frozen' \subseteq Candidates,
         certificates' = certificates
  PROVE  Inv'
<1>1. CertificatesAreOfTheWinner' /\ certificates' \in [Candidates -> Files]
  BY DEF Inv, RaceInv, CertificatesAreOfTheWinner, DiscoveryTypeOK
<1>2. QED
  BY <1>1, FrameStep

LEMMA EndStep ==
  ASSUME Inv, NEW w \in Sessions, End(w),
         UNCHANGED <<evidence, frozen, decision, certificates, runs>>
  PROVE  Inv'
<1>1. task' = [task EXCEPT ![w] = Idle]
  BY DEF End
<1>2. Idle \in Locals /\ Idle.pc # "deciding"
  BY IdleIsFree
<1>3. /\ DiscoveryTask(Idle, evidence, frozen', decision)
      /\ CertificationTask(Idle, evidence, frozen', decision)
  BY IdleIsFree
<1>4. frozen \subseteq frozen' /\ frozen' \subseteq Candidates /\ runs' \in 0 .. MaxRuns
  BY DEF Inv, DiscoveryTypeOK
<1>5. QED
  BY <1>1, <1>2, <1>3, <1>4, QuietStep

LEMMA StartDiscoveryStep ==
  ASSUME Inv, NEW w \in Sessions, NEW s \in Seeds, NEW P \in Pools[s], StartDiscovery(w, s, P)
  PROVE  Inv'
<1> DEFINE t == [pc |-> "evaluate", seed |-> s, pool |-> P, stage |-> "G0",
                 active |-> P, left |-> P, winner |-> "none"]
<1>1. P \subseteq Candidates
  BY StageSets
<1>2. t \in Locals /\ t.pc # "deciding"
  BY <1>1 DEF Locals, Fidelities, Stages
<1>3. DiscoveryTask(t, evidence, frozen', decision)
  BY DEF DiscoveryTask, Reached, StageSet, Complete
<1>4. CertificationTask(t, evidence, frozen', decision)
  BY DEF CertificationTask
<1>5. /\ task' = [task EXCEPT ![w] = t] /\ runs' \in 0 .. MaxRuns
      /\ UNCHANGED <<evidence, frozen, decision, certificates>>
  <2>1. runs \in 0 .. MaxRuns /\ MaxRuns \in Nat
    BY DiscoveryAssumption DEF Inv, DiscoveryTypeOK
  <2>2. runs < MaxRuns /\ runs' = runs + 1
    BY DEF StartDiscovery
  <2>3. QED
    BY <2>1, <2>2 DEF StartDiscovery
<1>6. frozen \subseteq frozen' /\ frozen' \subseteq Candidates
  BY <1>5 DEF Inv, DiscoveryTypeOK
<1> HIDE DEF t
<1>7. QED
  BY <1>2, <1>3, <1>4, <1>5, <1>6, QuietStep

LEMMA StartCertificationStep ==
  ASSUME Inv, NEW w \in Sessions, NEW s \in Seeds, StartCertification(w, s)
  PROVE  Inv'
<1> DEFINE c == decision.candidate
           t == [pc |-> "evaluate", seed |-> s, pool |-> {c}, stage |-> "G7",
                 active |-> {c}, left |-> {c}, winner |-> c]
<1>1. c \in frozen /\ c \in Candidates /\ decision.state = "written"
  BY DEF StartCertification, Inv, DiscoveryTypeOK
<1>2. t \in Locals /\ t.pc # "deciding"
  BY <1>1 DEF Locals, Fidelities
<1>3. /\ task' = [task EXCEPT ![w] = t] /\ runs' \in 0 .. MaxRuns
      /\ UNCHANGED <<evidence, frozen, decision, certificates>>
  <2>1. runs \in 0 .. MaxRuns /\ MaxRuns \in Nat
    BY DiscoveryAssumption DEF Inv, DiscoveryTypeOK
  <2>2. runs < MaxRuns /\ runs' = runs + 1
    BY DEF StartCertification
  <2>3. QED
    BY <2>1, <2>2 DEF StartCertification
<1>4. DiscoveryTask(t, evidence, frozen', decision)
  BY DEF DiscoveryTask, Stages
<1>5. CertificationTask(t, evidence, frozen', decision)
  BY <1>1, <1>3 DEF CertificationTask
<1>6. frozen \subseteq frozen' /\ frozen' \subseteq Candidates
  BY <1>3 DEF Inv, DiscoveryTypeOK
<1> HIDE DEF t
<1>7. QED
  BY <1>2, <1>3, <1>4, <1>5, <1>6, QuietStep

\* One more experiment of a stage ends with evidence, where the task stands for
\* the stage; at G7 the candidate must be frozen.
LEMMA EvaluateStep ==
  ASSUME Inv, NEW w \in Sessions, Evaluate(w)
  PROVE  Inv'
<1> DEFINE f == Stage(w)
           s == Seed(w)
           P == Pool(w)
<1>1. PICK c \in task[w].left :
        /\ IF evidence[c, f, s] = NoEvidence
           THEN /\ f = "G7" => c \in frozen
                /\ \E v \in Verdicts[c, f] : evidence' = [evidence EXCEPT ![<<c, f, s>>] = v]
           ELSE UNCHANGED evidence
        /\ task' = [task EXCEPT ![w].left = @ \ {c}]
  BY DEF Evaluate
<1> DEFINE old == task[w]
           t == [old EXCEPT !.left = old.left \ {c}]
<1>2. /\ old \in Locals /\ old.pc = "evaluate" /\ f = old.stage /\ s = old.seed
      /\ P = old.pool
      /\ UNCHANGED <<frozen, decision, certificates, runs>>
      /\ evidence \in [Experiments -> Verdict \cup {NoEvidence}]
      /\ task \in [Sessions -> Locals] /\ frozen \subseteq Candidates
      /\ decision \in Files
  BY DEF Evaluate, At, Inv, DiscoveryTypeOK, Stage, Seed, Pool
<1>3. /\ t \in Locals /\ task' = [task EXCEPT ![w] = t]
      /\ t.pc = "evaluate" /\ t.stage = f /\ t.seed = s /\ t.pool = P /\ t.active = old.active
      /\ t.left = old.left \ {c} /\ t.winner = old.winner
  <2>1. old.left \in SUBSET Candidates
    BY <1>2 DEF Locals
  <2>2. QED
    BY <1>1, <1>2, <2>1 DEF Locals
<1>4. /\ DiscoveryTask(old, evidence, frozen, decision)
      /\ CertificationTask(old, evidence, frozen, decision)
  BY DEF Inv, RaceInv, TasksInv
<1>5. f \in Fidelities /\ (f \in Stages \/ f = "G7") /\ "G7" \notin Stages
  BY <1>2 DEF Locals, Fidelities, Stages
<1>6. /\ c \in Candidates /\ s \in Seeds
      /\ f \in Stages => /\ P \in Pools[s] /\ Reached(evidence, f, P, s)
                         /\ c \in StageSet(evidence, f, P, s)
      /\ f = "G7" => /\ decision.state = "written" /\ c = decision.candidate
                     /\ c = old.winner /\ c \in frozen
  <2>1. CASE f \in Stages
    <3>1. /\ old.seed \in Seeds /\ old.pool \in Pools[old.seed]
          /\ Reached(evidence, old.stage, old.pool, old.seed)
          /\ old.active = StageSet(evidence, old.stage, old.pool, old.seed)
          /\ old.left \subseteq old.active
      BY <1>2, <1>4, <2>1 DEF DiscoveryTask
    <3>2. c \in Candidates
      BY <1>2 DEF Locals
    <3>3. QED
      BY <1>2, <1>5, <2>1, <3>1, <3>2
  <2>2. CASE f = "G7"
    BY <1>2, <1>4, <1>5, <2>2 DEF CertificationTask
  <2>3. QED
    BY <1>5, <2>1, <2>2
<1> DEFINE x == <<c, f, s>>
<1>7. x \in Experiments
  BY <1>5, <1>6 DEF Experiments
<1>8. /\ evidence' \in [Experiments -> Verdict \cup {NoEvidence}]
      /\ evidence'[x] # NoEvidence
      /\ \A y \in Experiments : y # x => evidence'[y] = evidence[y]
      /\ evidence[x] # NoEvidence => evidence' = evidence
  <2>1. CASE evidence[x] = NoEvidence
    <3>1. PICK v \in Verdicts[c, f] : evidence' = [evidence EXCEPT ![x] = v]
      BY <1>1, <2>1
    <3>2. v \in Verdict
      BY <1>5, <1>6, DiscoveryAssumption
    <3>3. v # NoEvidence
      BY <3>2, VerdictsAreEvidence
    <3>4. QED
      BY <1>2, <1>7, <2>1, <3>1, <3>2, <3>3
  <2>2. CASE evidence[x] # NoEvidence
    BY <1>1, <1>2, <2>2
  <2>3. QED
    BY <2>1, <2>2
<1>9. Grows(evidence, evidence')
  BY <1>8 DEF Grows
<1> HIDE DEF t, old, f, s, P, x
<1>10. DiscoveryTask(t, evidence', frozen', decision')
  <2> SUFFICES ASSUME f \in Stages
               PROVE  /\ t.seed \in Seeds /\ P \in Pools[s] /\ Reached(evidence', f, P, s)
                      /\ t.active = StageSet(evidence', f, P, s) /\ t.left \subseteq t.active
                      /\ Complete(evidence', t.active \ t.left, f, s)
    BY <1>3 DEF DiscoveryTask
  <2>1. /\ Reached(evidence, f, P, s) /\ old.active = StageSet(evidence, f, P, s)
        /\ old.left \subseteq old.active
        /\ Complete(evidence, old.active \ old.left, f, s)
    BY <1>2, <1>4 DEF DiscoveryTask
  <2>2. Reached(evidence', f, P, s) /\ StageSet(evidence', f, P, s) = old.active
    BY <1>6, <1>9, <2>1, ReachedIsStable
  <2>3. old.active \subseteq Candidates
    BY <1>2 DEF Locals
  <2>4. Complete(evidence', old.active \ old.left, f, s)
    BY <1>5, <1>6, <1>9, <2>1, <2>3, CompleteIsStable
  <2>5. Complete(evidence', t.active \ t.left, f, s)
    BY <1>3, <1>8, <2>4 DEF Complete, x
  <2>6. QED
    BY <1>3, <1>6, <2>1, <2>2, <2>5
<1>11. CertificationTask(t, evidence', frozen', decision')
  <2> SUFFICES ASSUME f = "G7"
               PROVE  /\ decision'.state = "written" /\ t.winner = decision'.candidate
                      /\ t.winner \in frozen' /\ t.seed \in Seeds
                      /\ t.left \subseteq {t.winner}
                      /\ t.left = {} => evidence'[t.winner, "G7", t.seed] # NoEvidence
    BY <1>3 DEF CertificationTask
  <2>1. old.left \subseteq {old.winner}
    BY <1>2, <1>4 DEF CertificationTask
  <2>2. evidence'[t.winner, "G7", t.seed] # NoEvidence
    BY <1>3, <1>6, <1>8 DEF x
  <2>3. QED
    BY <1>2, <1>3, <1>6, <2>1, <2>2
<1>12. TasksInv' /\ task' \in [Sessions -> Locals]
  BY <1>2, <1>3, <1>9, <1>10, <1>11, TasksStep DEF Inv, RaceInv
<1>13. DiscoveryTypeOK'
  BY <1>2, <1>8, <1>12 DEF Inv, DiscoveryTypeOK
<1>14. OnlySurvivorsGoOn(evidence')
  <2> SUFFICES ASSUME NEW d \in Candidates, NEW r \in Seeds,
                      evidence'[d, "G1", r] # NoEvidence
               PROVE  evidence'[d, "G0", r].gate = "feasible"
    BY DEF OnlySurvivorsGoOn
  <2>1. <<d, "G1", r>> \in Experiments /\ <<d, "G0", r>> \in Experiments
    BY DEF Experiments, Fidelities, Stages
  <2>2. evidence[d, "G0", r].gate = "feasible"
    <3>1. CASE <<d, "G1", r>> = x
      <4>1. d = c /\ r = s /\ f = "G1"
        BY <3>1 DEF x
      <4>2. d \in Active1(evidence, P, r)
        BY <1>6, <4>1 DEF StageSet, Stages
      <4>3. QED
        BY <4>2 DEF Active1, FeasibleIn
    <3>2. CASE <<d, "G1", r>> # x
      <4>1. evidence[d, "G1", r] # NoEvidence
        BY <1>8, <2>1, <3>2
      <4>2. QED
        BY <4>1 DEF Inv, RaceInv, OnlySurvivorsGoOn
    <3>3. QED
      BY <3>1, <3>2
  <2>3. evidence[d, "G0", r] # NoEvidence
    BY <2>2, VerdictsAreEvidence
  <2>4. QED
    BY <1>9, <2>1, <2>2, <2>3 DEF Grows
<1>15. DecisionInv'
  BY <1>2, <1>9, ChosenIsStable DEF Inv, RaceInv, DecisionInv
<1>16. OneDecider'
  <2>1. \A v \in Sessions : task'[v].pc = task[v].pc
    BY <1>2, <1>3 DEF old
  <2>2. QED
    BY <2>1 DEF OneDecider, At, Inv, RaceInv
<1>17. BlindAfterDecision'
  <2> SUFFICES ASSUME NEW d \in Candidates, NEW r \in Seeds,
                      evidence'[d, "G7", r] # NoEvidence
               PROVE  decision.state = "written" /\ decision.candidate = d /\ d \in frozen
    BY <1>2 DEF BlindAfterDecision
  <2>1. CASE <<d, "G7", r>> = x
    BY <1>6, <2>1 DEF x
  <2>2. CASE <<d, "G7", r>> # x
    <3>1. <<d, "G7", r>> \in Experiments
      BY DEF Experiments, Fidelities
    <3>2. evidence[d, "G7", r] # NoEvidence
      BY <1>8, <2>2, <3>1
    <3>3. QED
      BY <3>2 DEF Inv, RaceInv, BlindAfterDecision
  <2>3. QED
    BY <2>1, <2>2
<1>18. CertificatesAreOfTheWinner'
  <2> SUFFICES ASSUME NEW d \in Candidates, certificates[d].state = "written"
               PROVE  /\ certificates[d].candidate = d /\ decision.candidate = d
                      /\ evidence'[d, "G7", certificates[d].seed] # NoEvidence
    BY <1>2 DEF CertificatesAreOfTheWinner
  <2>1. /\ certificates[d].candidate = d /\ decision.candidate = d
        /\ evidence[d, "G7", certificates[d].seed] # NoEvidence
    BY DEF Inv, RaceInv, CertificatesAreOfTheWinner
  <2>2. certificates[d].seed \in Seeds
    BY FilesHoldReceipts DEF Inv, DiscoveryTypeOK
  <2>3. <<d, "G7", certificates[d].seed>> \in Experiments
    BY <2>2 DEF Experiments, Fidelities
  <2>4. QED
    BY <1>9, <2>1, <2>3 DEF Grows
<1>19. QED
  BY <1>12, <1>13, <1>14, <1>15, <1>16, <1>17, <1>18 DEF Inv, RaceInv

\* What a discovery session knows when its stage has been evaluated.
LEMMA StageEnds ==
  ASSUME Inv, NEW w \in Sessions, At(w, "evaluate"), task[w].left = {}, Stage(w) \in Stages
  PROVE  /\ Seed(w) \in Seeds /\ Pool(w) \in Pools[Seed(w)]
         /\ Reached(evidence, Stage(w), Pool(w), Seed(w))
         /\ task[w].active = StageSet(evidence, Stage(w), Pool(w), Seed(w))
         /\ Complete(evidence, task[w].active, Stage(w), Seed(w))
         /\ IsFiniteSet(task[w].active) /\ task[w].active \subseteq Candidates
<1>1. DiscoveryTask(task[w], evidence, frozen, decision)
  BY DEF Inv, RaceInv, TasksInv
<1>2. /\ Seed(w) \in Seeds /\ Pool(w) \in Pools[Seed(w)]
      /\ Reached(evidence, Stage(w), Pool(w), Seed(w))
      /\ task[w].active = StageSet(evidence, Stage(w), Pool(w), Seed(w))
      /\ Complete(evidence, task[w].active \ task[w].left, Stage(w), Seed(w))
  BY <1>1 DEF DiscoveryTask, At, Stage, Seed, Pool
<1>3. task[w].active \ task[w].left = task[w].active
  OBVIOUS
<1>4. IsFiniteSet(task[w].active) /\ task[w].active \subseteq Candidates
  BY <1>2, StageSets DEF StageSet
<1>5. QED
  BY <1>2, <1>3, <1>4

LEMMA ScoresAreTyped ==
  ASSUME NEW ev, EvidenceOK(ev), NEW f \in Fidelities, NEW s \in Seeds
  PROVE  ScoresIn(ev, f, s) \in [Candidates -> Scores]
<1>1. \A c \in Candidates : ev[c, f, s] \in Verdict \cup {NoEvidence}
  <2>1. \A c \in Candidates : <<c, f, s>> \in Experiments
    BY DEF Experiments
  <2>2. QED
    BY <2>1 DEF EvidenceOK
<1>2. QED
  BY <1>1, VerdictsAreEvidence DEF ScoresIn

LEMMA PromoteStep ==
  ASSUME Inv, NEW w \in Sessions, PromoteStage(w)
  PROVE  Inv'
<1> DEFINE old == task[w]
           f == Stage(w)
           s == Seed(w)
           P == Pool(w)
           A == old.active
           F == FeasibleIn(evidence, A, f, s)
           promoted == Promote(F, Target(f, Cardinality(A)), ScoresIn(evidence, f, s))
           g == IF f = "G0" THEN "G1" ELSE "G2"
           t == [old EXCEPT !.stage = g, !.active = promoted, !.left = promoted]
<1>1. /\ At(w, "evaluate") /\ old.left = {} /\ f \in {"G0", "G1"}
      /\ UNCHANGED <<evidence, frozen, decision, certificates, runs>>
      /\ End(w) \/ task' = [task EXCEPT ![w] = t]
  <2>1. F = Feasible(A, f, s) /\ ScoresIn(evidence, f, s) = ScoreAt(f, s)
    BY DEF FeasibleIn, Feasible, ScoresIn, ScoreAt
  <2>2. task[w].stage = f
    BY DEF Stage
  <2>3. /\ At(w, "evaluate") /\ old.left = {} /\ f \in {"G0", "G1"}
        /\ UNCHANGED <<evidence, frozen, decision, certificates, runs>>
        /\ \/ End(w)
           \/ task' = [task EXCEPT ![w].stage = IF @ = "G0" THEN "G1" ELSE "G2",
                                   ![w].active = promoted, ![w].left = promoted]
    BY <2>1 DEF PromoteStage
  <2>4. task \in [Sessions -> Locals] /\ old \in Locals
    BY DEF Inv, DiscoveryTypeOK
  <2> HIDE DEF promoted
  <2>5. QED
    BY <2>2, <2>3, <2>4 DEF Locals
<1>2. CASE End(w)
  BY <1>1, <1>2, EndStep
<1>3. ASSUME task' = [task EXCEPT ![w] = t] PROVE Inv'
  <2>1. /\ s \in Seeds /\ P \in Pools[s]
        /\ Reached(evidence, f, P, s) /\ A = StageSet(evidence, f, P, s)
        /\ Complete(evidence, A, f, s) /\ IsFiniteSet(A) /\ A \subseteq Candidates
    BY <1>1, StageEnds DEF Stages
  <2>2. F \subseteq A /\ promoted \subseteq F
    BY PromoteFromF DEF FeasibleIn
  <2>3. Reached(evidence, g, P, s) /\ promoted = StageSet(evidence, g, P, s)
    <3>1. CASE f = "G0"
      <4>1. A = P /\ F = Active1(evidence, P, s)
        BY <2>1, <3>1 DEF StageSet, Active1
      <4>2. IsFiniteSet(F) /\ Cardinality(F) <= Cardinality(A)
        BY <2>1, <2>2, FS_Subset
      <4>3. promoted = F
        BY <3>1, <4>2 DEF Target, Promote
      <4>4. QED
        BY <2>1, <3>1, <4>1, <4>3 DEF Reached, StageSet
    <3>2. CASE f = "G1"
      <4>1. A = Active1(evidence, P, s)
        BY <2>1, <3>2 DEF StageSet
      <4>2. promoted = Active2(evidence, P, s)
        BY <3>2, <4>1 DEF Active2
      <4>3. QED
        BY <2>1, <3>2, <4>1, <4>2 DEF Reached, StageSet
    <3>3. QED
      BY <1>1, <3>1, <3>2
  <2>4. old \in Locals /\ old.pc = "evaluate" /\ g \in Stages /\ g \in Fidelities
    BY <1>1 DEF At, Inv, DiscoveryTypeOK, Stages, Fidelities
  <2> HIDE DEF promoted, old, g
  <2>5. t \in Locals
    BY <2>1, <2>2, <2>4 DEF Locals
  <2>6. /\ t.pc = "evaluate" /\ t.stage = g /\ t.seed = s /\ t.pool = P
        /\ t.active = promoted /\ t.left = promoted
    BY <2>4 DEF Locals, Seed, Pool, old
  <2>7. Complete(evidence, promoted \ promoted, g, s)
    BY DEF Complete
  <2> HIDE DEF t, s, P
  <2>8. DiscoveryTask(t, evidence, frozen', decision)
    BY <2>1, <2>3, <2>6, <2>7 DEF DiscoveryTask
  <2>9. CertificationTask(t, evidence, frozen', decision)
    BY <2>4, <2>6 DEF CertificationTask, Stages
  <2>10. frozen \subseteq frozen' /\ frozen' \subseteq Candidates /\ runs' \in 0 .. MaxRuns
    BY <1>1 DEF Inv, DiscoveryTypeOK
  <2>11. QED
    BY <1>1, <1>3, <2>5, <2>6, <2>8, <2>9, <2>10, QuietStep
<1>4. QED
  BY <1>1, <1>2, <1>3

LEMMA ChooseStep ==
  ASSUME Inv, NEW w \in Sessions, ChooseWinner(w)
  PROVE  Inv'
<1> DEFINE old == task[w]
           s == Seed(w)
           P == Pool(w)
           A == old.active
           F == FeasibleIn(evidence, A, "G2", s)
           winner == SelectWinner(F, ScoresIn(evidence, "G2", s))
           t == [old EXCEPT !.pc = "freeze", !.winner = winner]
<1>1. /\ At(w, "evaluate") /\ old.left = {} /\ Stage(w) = "G2"
      /\ UNCHANGED <<evidence, frozen, decision, certificates, runs>>
      /\ IF F = {} THEN End(w) ELSE task' = [task EXCEPT ![w] = t]
  <2>1. F = Feasible(A, "G2", s) /\ ScoresIn(evidence, "G2", s) = ScoreAt("G2", s)
    BY DEF FeasibleIn, Feasible, ScoresIn, ScoreAt
  <2>2. /\ At(w, "evaluate") /\ old.left = {} /\ Stage(w) = "G2"
        /\ UNCHANGED <<evidence, frozen, decision, certificates, runs>>
        /\ IF F = {} THEN End(w)
           ELSE task' = [task EXCEPT ![w].pc = "freeze", ![w].winner = winner]
    BY <2>1 DEF ChooseWinner
  <2>3. task \in [Sessions -> Locals] /\ old \in Locals
    BY DEF Inv, DiscoveryTypeOK
  <2> HIDE DEF F, winner
  <2>4. QED
    BY <2>2, <2>3 DEF Locals
<1>2. CASE F = {}
  BY <1>1, <1>2, EndStep
<1>3. ASSUME F # {} PROVE Inv'
  <2>1. /\ s \in Seeds /\ P \in Pools[s]
        /\ Reached(evidence, "G2", P, s) /\ A = Active2(evidence, P, s)
        /\ Complete(evidence, A, "G2", s) /\ IsFiniteSet(A) /\ A \subseteq Candidates
    BY <1>1, StageEnds DEF Stages, StageSet
  <2>2. F \subseteq A
    BY DEF FeasibleIn
  <2>3. F \in SUBSET Candidates /\ IsFiniteSet(F)
    BY <2>1, <2>2, FS_Subset
  <2>4. ScoresIn(evidence, "G2", s) \in [Candidates -> Scores]
    BY <2>1, ScoresAreTyped DEF EvidenceOK, Inv, DiscoveryTypeOK, Fidelities, Stages
  <2>5. winner \in F
    BY <1>3, <2>3, <2>4, WinnerLeads
  <2>6. Chosen(evidence, winner, P, s)
    BY <1>3, <2>1, <2>3, <2>5 DEF Chosen
  <2> HIDE DEF winner, F
  <2>7. old \in Locals
    BY DEF Inv, DiscoveryTypeOK
  <2>8. /\ t \in Locals /\ t.pc = "freeze" /\ t.winner = winner
        /\ t.seed = s /\ t.pool = P
    BY <2>3, <2>5, <2>7 DEF Locals, Seed, Pool
  <2> HIDE DEF t, s, P
  <2>9. DiscoveryTask(t, evidence, frozen', decision)
    BY <2>6, <2>8 DEF DiscoveryTask
  <2>10. CertificationTask(t, evidence, frozen', decision)
    BY <2>8 DEF CertificationTask
  <2>11. frozen \subseteq frozen' /\ frozen' \subseteq Candidates /\ runs' \in 0 .. MaxRuns
    BY <1>1 DEF Inv, DiscoveryTypeOK
  <2>12. QED
    BY <1>1, <1>3, <2>8, <2>9, <2>10, <2>11, QuietStep
<1>4. QED
  BY <1>2, <1>3

LEMMA FreezeStep ==
  ASSUME Inv, NEW w \in Sessions, FreezeCandidate(w)
  PROVE  Inv'
<1> DEFINE old == task[w]
           t == [old EXCEPT !.pc = "decide"]
<1>1. old \in Locals /\ DiscoveryTask(old, evidence, frozen, decision)
  BY DEF Inv, RaceInv, DiscoveryTypeOK, TasksInv
<1>2. Chosen(evidence, old.winner, old.pool, old.seed) /\ old.winner \in Candidates
  BY <1>1 DEF FreezeCandidate, At, DiscoveryTask, Chosen
<1>3. /\ task' = [task EXCEPT ![w] = t] /\ frozen' = frozen \cup {old.winner}
      /\ UNCHANGED <<evidence, decision, certificates, runs>>
  BY DEF FreezeCandidate, Goto, Winner
<1>4. /\ t \in Locals /\ t.pc = "decide" /\ t.winner = old.winner
      /\ t.seed = old.seed /\ t.pool = old.pool
  BY <1>1 DEF Locals
<1> HIDE DEF t
<1>5. DiscoveryTask(t, evidence, frozen', decision)
  BY <1>2, <1>3, <1>4 DEF DiscoveryTask
<1>6. CertificationTask(t, evidence, frozen', decision)
  BY <1>4 DEF CertificationTask
<1>7. frozen \subseteq frozen' /\ frozen' \subseteq Candidates /\ runs' \in 0 .. MaxRuns
  BY <1>2, <1>3 DEF Inv, DiscoveryTypeOK
<1>8. QED
  BY <1>3, <1>4, <1>5, <1>6, <1>7, QuietStep

\* Before a decision is written nothing has been evaluated on final blind, so a
\* step of the decider has no certification to disturb.
LEMMA DeciderStep ==
  ASSUME Inv, NEW w \in Sessions, NEW t \in Locals, task' = [task EXCEPT ![w] = t],
         decision.state # "written", decision' \in Files,
         UNCHANGED <<evidence, frozen, certificates, runs>>,
         DiscoveryTask(t, evidence, frozen, decision'),
         CertificationTask(t, evidence, frozen, decision'),
         \A v \in Sessions \ {w} : ~At(v, "deciding"),
         DecisionInv'
  PROVE  Inv'
<1>1. Grows(evidence, evidence') /\ frozen \subseteq frozen'
  BY DEF Grows
<1>2. TasksInv' /\ task' \in [Sessions -> Locals]
  <2>1. /\ DiscoveryTask(t, evidence', frozen', decision')
        /\ CertificationTask(t, evidence', frozen', decision')
    OBVIOUS
  <2>2. DiscoveryTypeOK /\ TasksInv
    BY DEF Inv, RaceInv
  <2>3. QED
    BY <1>1, <2>1, <2>2, TasksStep
<1>3. DiscoveryTypeOK'
  BY <1>2 DEF Inv, DiscoveryTypeOK
<1>4. OnlySurvivorsGoOn(evidence)'
  BY DEF Inv, RaceInv
<1>5. OneDecider'
  <2>1. \A v \in Sessions \ {w} : task'[v] = task[v]
    BY DEF Inv, DiscoveryTypeOK
  <2>2. QED
    BY <2>1 DEF OneDecider, At
<1>6. \A c \in Candidates, s \in Seeds : evidence[c, "G7", s] = NoEvidence
  BY DEF Inv, RaceInv, BlindAfterDecision
<1>7. BlindAfterDecision'
  BY <1>6 DEF BlindAfterDecision
<1>8. \A c \in Candidates : certificates[c].state # "written"
  <2> SUFFICES ASSUME NEW c \in Candidates, certificates[c].state = "written" PROVE FALSE
    OBVIOUS
  <2>1. certificates[c].seed \in Seeds
    BY FilesHoldReceipts DEF Inv, DiscoveryTypeOK
  <2>2. QED
    BY <1>6, <2>1 DEF Inv, RaceInv, CertificatesAreOfTheWinner
<1>9. CertificatesAreOfTheWinner'
  BY <1>8 DEF CertificatesAreOfTheWinner
<1>10. QED
  BY <1>2, <1>3, <1>4, <1>5, <1>7, <1>9 DEF Inv, RaceInv

LEMMA OpenDecisionStep ==
  ASSUME Inv, NEW w \in Sessions, OpenDecision(w)
  PROVE  Inv'
<1> DEFINE old == task[w]
           t == [old EXCEPT !.pc = "deciding"]
<1>1. CASE End(w) /\ UNCHANGED decision
  BY <1>1, EndStep DEF OpenDecision
<1>2. ASSUME decision = Absent, decision' = Torn, Goto(w, "deciding")
      PROVE  Inv'
  <2>1. old \in Locals /\ DiscoveryTask(old, evidence, frozen, decision)
    BY DEF Inv, RaceInv, DiscoveryTypeOK, TasksInv
  <2>2. Chosen(evidence, old.winner, old.pool, old.seed) /\ old.winner \in frozen
    BY <2>1 DEF OpenDecision, At, DiscoveryTask
  <2>3. task' = [task EXCEPT ![w] = t] /\ UNCHANGED <<evidence, frozen, certificates, runs>>
    BY <1>2 DEF OpenDecision, Goto
  <2>4. /\ t \in Locals /\ t.pc = "deciding" /\ t.winner = old.winner
        /\ t.seed = old.seed /\ t.pool = old.pool
    BY <2>1 DEF Locals
  <2> HIDE DEF t
  <2>5. DiscoveryTask(t, evidence, frozen, decision')
    BY <1>2, <2>2, <2>4 DEF DiscoveryTask
  <2>6. CertificationTask(t, evidence, frozen, decision')
    BY <2>4 DEF CertificationTask
  <2>7. \A v \in Sessions \ {w} : ~At(v, "deciding")
    BY <1>2, FilesHoldReceipts DEF Inv, RaceInv, TasksInv, DiscoveryTask, At
  <2>8. decision.state # "written" /\ decision' \in Files /\ decision'.state # "written"
    BY <1>2, FilesHoldReceipts
  <2>9. DecisionInv'
    BY <2>8 DEF DecisionInv
  <2>10. QED
    BY <2>3, <2>4, <2>5, <2>6, <2>7, <2>8, <2>9, DeciderStep
<1>3. QED
  BY <1>1, <1>2 DEF OpenDecision

LEMMA WriteDecisionStep ==
  ASSUME Inv, NEW w \in Sessions, WriteDecision(w)
  PROVE  Inv'
<1> DEFINE old == task[w]
<1>1. /\ old \in Locals /\ DiscoveryTask(old, evidence, frozen, decision)
      /\ old.pc = "deciding"
  BY DEF Inv, RaceInv, DiscoveryTypeOK, TasksInv, WriteDecision, At
<1>2. /\ Chosen(evidence, old.winner, old.pool, old.seed) /\ old.winner \in frozen
      /\ decision = Torn
  BY <1>1 DEF DiscoveryTask
<1>3. old.winner \in Candidates /\ old.seed \in Seeds /\ old.pool \in SUBSET Candidates
  BY <1>1, <1>2 DEF Chosen, Locals
<1>4. /\ decision' = Written(old.winner, old.seed, old.pool) \/ decision' = Absent
      /\ task' = [task EXCEPT ![w] = Idle]
      /\ UNCHANGED <<evidence, frozen, certificates, runs>>
  BY DEF WriteDecision, Winner, Seed, Pool, End
<1>5. decision' \in Files /\ decision.state # "written"
  BY <1>2, <1>3, <1>4, FilesHoldReceipts
<1>6. \A v \in Sessions \ {w} : ~At(v, "deciding")
  BY <1>1 DEF At, Inv, RaceInv, OneDecider
<1>7. DecisionInv'
  BY <1>2, <1>4, FilesHoldReceipts DEF DecisionInv
<1>8. /\ Idle \in Locals
      /\ DiscoveryTask(Idle, evidence, frozen, decision')
      /\ CertificationTask(Idle, evidence, frozen, decision')
  BY IdleIsFree
<1>9. QED
  BY <1>4, <1>5, <1>6, <1>7, <1>8, DeciderStep

LEMMA OpenCertificateStep ==
  ASSUME Inv, NEW w \in Sessions, OpenCertificate(w)
  PROVE  Inv'
<1> DEFINE old == task[w]
           t == [old EXCEPT !.pc = "certifying"]
<1>1. CASE End(w) /\ UNCHANGED certificates
  BY <1>1, EndStep DEF OpenCertificate
<1>2. ASSUME Goto(w, "certifying"),
             certificates' = [certificates EXCEPT ![old.winner] = Torn]
      PROVE  Inv'
  <2>1. old \in Locals /\ CertificationTask(old, evidence, frozen, decision)
    BY DEF Inv, RaceInv, DiscoveryTypeOK, TasksInv
  <2>2. old.pc = "evaluate" /\ old.stage = "G7" /\ old.left = {}
    BY DEF OpenCertificate, At, Stage
  <2>3. task' = [task EXCEPT ![w] = t] /\ UNCHANGED <<evidence, frozen, decision, runs>>
    BY <1>2 DEF OpenCertificate, Goto
  <2>4. /\ t \in Locals /\ t.pc = "certifying" /\ t.winner = old.winner
        /\ t.seed = old.seed /\ t.left = {}
    BY <2>1, <2>2 DEF Locals
  <2> HIDE DEF t
  <2>5. DiscoveryTask(t, evidence, frozen', decision)
    BY <2>4 DEF DiscoveryTask
  <2>6. CertificationTask(t, evidence, frozen', decision)
    BY <2>1, <2>2, <2>3, <2>4 DEF CertificationTask
  <2>7. /\ certificates' \in [Candidates -> Files]
        /\ \A c \in Candidates : certificates'[c].state = "written" =>
             certificates'[c] = certificates[c]
    <3>1. certificates \in [Candidates -> Files]
      BY DEF Inv, DiscoveryTypeOK
    <3>2. QED
      BY <1>2, <3>1, FilesHoldReceipts
  <2>8. CertificatesAreOfTheWinner'
    BY <2>3, <2>7 DEF Inv, RaceInv, CertificatesAreOfTheWinner
  <2>9. frozen \subseteq frozen' /\ frozen' \subseteq Candidates /\ runs' \in 0 .. MaxRuns
    BY <2>3 DEF Inv, DiscoveryTypeOK
  <2>10. QED
    BY <2>3, <2>4, <2>5, <2>6, <2>7, <2>8, <2>9, FrameStep
<1>3. QED
  BY <1>1, <1>2 DEF OpenCertificate, Winner

LEMMA WriteCertificateStep ==
  ASSUME Inv, NEW w \in Sessions, WriteCertificate(w)
  PROVE  Inv'
<1> DEFINE old == task[w]
<1>1. old \in Locals /\ CertificationTask(old, evidence, frozen, decision)
  BY DEF Inv, RaceInv, DiscoveryTypeOK, TasksInv
<1>2. /\ decision.state = "written" /\ old.winner = decision.candidate
      /\ old.winner \in frozen /\ old.seed \in Seeds
      /\ evidence[old.winner, "G7", old.seed] # NoEvidence
  BY <1>1 DEF WriteCertificate, At, CertificationTask
<1>3. PICK file \in {Written(old.winner, old.seed, old.pool), Absent} :
        certificates' = [certificates EXCEPT ![old.winner] = file]
  BY DEF WriteCertificate, Winner, Seed, Pool
<1>4. /\ task' = [task EXCEPT ![w] = Idle]
      /\ UNCHANGED <<evidence, frozen, decision, runs>>
  BY DEF WriteCertificate, End
<1>5. old.winner \in Candidates /\ file \in Files
  <2>1. old.winner \in Candidates /\ old.pool \in SUBSET Candidates
    BY <1>1, <1>2 DEF Inv, DiscoveryTypeOK, Locals
  <2>2. QED
    BY <1>2, <2>1, FilesHoldReceipts
<1>6. /\ certificates' \in [Candidates -> Files]
      /\ \A c \in Candidates \ {old.winner} : certificates'[c] = certificates[c]
      /\ certificates'[old.winner] = file
  BY <1>3, <1>5 DEF Inv, DiscoveryTypeOK
<1>7. CertificatesAreOfTheWinner'
  <2> SUFFICES ASSUME NEW c \in Candidates, certificates'[c].state = "written"
               PROVE  /\ certificates'[c].candidate = c /\ decision.candidate = c
                      /\ evidence[c, "G7", certificates'[c].seed] # NoEvidence
    BY <1>4 DEF CertificatesAreOfTheWinner
  <2>1. CASE c = old.winner
    <3>1. file.state = "written"
      BY <1>6, <2>1
    <3>2. file.candidate = old.winner /\ file.seed = old.seed
      BY <3>1, FilesHoldReceipts
    <3>3. QED
      BY <1>2, <1>6, <2>1, <3>2
  <2>2. CASE c # old.winner
    BY <1>6, <2>2 DEF Inv, RaceInv, CertificatesAreOfTheWinner
  <2>3. QED
    BY <2>1, <2>2
<1>8. /\ Idle \in Locals /\ Idle.pc # "deciding"
      /\ DiscoveryTask(Idle, evidence, frozen', decision)
      /\ CertificationTask(Idle, evidence, frozen', decision)
  BY IdleIsFree
<1>9. frozen \subseteq frozen' /\ frozen' \subseteq Candidates /\ runs' \in 0 .. MaxRuns
  BY <1>4 DEF Inv, DiscoveryTypeOK
<1>10. QED
  BY <1>4, <1>6, <1>7, <1>8, <1>9, FrameStep

-----------------------------------------------------------------------------
(* The specification *)

LEMMA InvHoldsInitially ==
  ASSUME Init PROVE Inv
<1>1. DiscoveryTypeOK
  <2>1. Absent \in Files /\ Idle \in Locals
    BY FilesHoldReceipts, IdleIsFree
  <2>2. 0 \in 0 .. MaxRuns
    BY DiscoveryAssumption
  <2>3. QED
    BY <2>1, <2>2 DEF Init, DiscoveryTypeOK
<1>2. \A x \in Experiments : evidence[x] = NoEvidence
  BY DEF Init
<1>3. \A c \in Candidates, f \in Fidelities, s \in Seeds : evidence[c, f, s] = NoEvidence
  BY <1>2 DEF Experiments
<1>4. OnlySurvivorsGoOn(evidence) /\ BlindAfterDecision
  BY <1>3 DEF OnlySurvivorsGoOn, BlindAfterDecision, Fidelities, Stages
<1>5. TasksInv
  BY IdleIsFree DEF Init, TasksInv
<1>6. OneDecider
  <2>1. \A w \in Sessions : task[w].pc = "idle"
    BY IdleIsFree DEF Init
  <2>2. QED
    BY <2>1 DEF OneDecider, At
<1>7. DecisionInv /\ CertificatesAreOfTheWinner
  BY FilesHoldReceipts DEF Init, DecisionInv, CertificatesAreOfTheWinner
<1>8. QED
  BY <1>1, <1>4, <1>5, <1>6, <1>7 DEF Inv, RaceInv

LEMMA StepKeepsInv ==
  ASSUME Inv, [Next]_vars PROVE Inv'
<1>1. CASE UNCHANGED vars
  BY <1>1 DEF vars, Inv, RaceInv, DiscoveryTypeOK, TasksInv, OneDecider, DecisionInv,
     BlindAfterDecision, CertificatesAreOfTheWinner, At
<1>2. ASSUME NEW w \in Sessions, Session(w) PROVE Inv'
  <2>1. CASE Evaluate(w)
    BY <2>1, EvaluateStep
  <2>2. CASE PromoteStage(w)
    BY <2>2, PromoteStep
  <2>3. CASE ChooseWinner(w)
    BY <2>3, ChooseStep
  <2>4. CASE FreezeCandidate(w)
    BY <2>4, FreezeStep
  <2>5. CASE OpenDecision(w)
    BY <2>5, OpenDecisionStep
  <2>6. CASE WriteDecision(w)
    BY <2>6, WriteDecisionStep
  <2>7. CASE OpenCertificate(w)
    BY <2>7, OpenCertificateStep
  <2>8. CASE WriteCertificate(w)
    BY <2>8, WriteCertificateStep
  <2>9. CASE Stop(w)
    BY <2>9, EndStep DEF Stop
  <2>10. QED
    BY <1>2, <2>1, <2>2, <2>3, <2>4, <2>5, <2>6, <2>7, <2>8, <2>9 DEF Session
<1>3. ASSUME NEW w \in Sessions, NEW s \in Seeds,
             StartCertification(w, s) \/ \E P \in Pools[s] : StartDiscovery(w, s, P)
      PROVE  Inv'
  BY <1>3, StartDiscoveryStep, StartCertificationStep
<1>4. QED
  BY <1>1, <1>2, <1>3 DEF Next

\* The inductive invariant: types, and what the racing sessions, the evidence, the
\* freeze and the two kinds of decision files have to do with one another.
THEOREM DiscoveryInvariant == DiscoverySpec => []Inv
<1>1. Init => Inv
  BY InvHoldsInitially
<1>2. Inv /\ [Next]_vars => Inv'
  BY StepKeepsInv
<1>3. QED
  BY <1>1, <1>2, PTL DEF DiscoverySpec

\* Every state of the two commands is well typed; that the winner is a candidate
\* needs the winner rule to have a choice.
THEOREM DiscoveryTypeCorrect == DiscoverySpec => []DiscoveryTypeOK
<1>1. Inv => DiscoveryTypeOK
  BY DEF Inv
<1>2. QED
  BY <1>1, DiscoveryInvariant, PTL

\* Nothing is evaluated on final blind before a winner is decided, and nothing
\* but the winner after, for any number of overlapping and retried commands.
THEOREM BlindAlwaysAfterDecision == DiscoverySpec => []BlindAfterDecision
<1>1. Inv => BlindAfterDecision
  BY DEF Inv, RaceInv
<1>2. QED
  BY <1>1, DiscoveryInvariant, PTL

\* Certification records are about the winner and rest on final blind evidence.
THEOREM CertificatesAlwaysOfTheWinner == DiscoverySpec => []CertificatesAreOfTheWinner
<1>1. Inv => CertificatesAreOfTheWinner
  BY DEF Inv, RaceInv
<1>2. QED
  BY <1>1, DiscoveryInvariant, PTL

\* A run's leader, on all the G1 evidence of its seed about its pool, goes on to
\* G2, for every contract whose winner rule orders exactly the objectives.
THEOREM LeaderAlwaysPromoted == DiscoverySpec => []LeaderIsPromoted
<1>1. ASSUME Inv PROVE LeaderIsPromoted
  <2> SUFFICES ASSUME NEW w \in Sessions, At(w, "evaluate"), Stage(w) = "G2",
                      NEW c \in Feasible(Pool(w), "G1", Seed(w)),
                      \A d \in Feasible(Pool(w), "G1", Seed(w)) \ {c} :
                        Precedes(c, d, ScoreAt("G1", Seed(w)))
               PROVE  c \in task[w].active
    BY DEF LeaderIsPromoted
  <2> DEFINE s == Seed(w)
             P == Pool(w)
             A == Active1(evidence, P, s)
             F == FeasibleIn(evidence, A, "G1", s)
             score == ScoresIn(evidence, "G1", s)
             target == Target("G1", Cardinality(A))
  <2>1. /\ s \in Seeds /\ P \in Pools[s] /\ Reached(evidence, "G2", P, s)
        /\ task[w].active = Active2(evidence, P, s)
    BY <1>1 DEF Inv, RaceInv, TasksInv, DiscoveryTask, At, Stage, Seed, Pool, Stages, StageSet
  <2>2. /\ IsFiniteSet(A) /\ A \subseteq Candidates /\ A \subseteq P
    BY <2>1, StageSets
  <2>3. F = Feasible(P, "G1", s)
    <3>1. ASSUME NEW d \in P, evidence[d, "G1", s].gate = "feasible"
          PROVE  d \in A
      <4>1. evidence[d, "G1", s] # NoEvidence /\ d \in Candidates
        BY <2>1, <3>1, StageSets, VerdictsAreEvidence
      <4>2. evidence[d, "G0", s].gate = "feasible"
        BY <1>1, <2>1, <4>1 DEF Inv, RaceInv, OnlySurvivorsGoOn
      <4>3. QED
        BY <4>2 DEF Active1, FeasibleIn
    <3>2. QED
      BY <2>2, <3>1 DEF FeasibleIn, Feasible
  <2>4. score = ScoreAt("G1", s)
    BY DEF ScoresIn, ScoreAt
  <2>5. F \in SUBSET Candidates /\ c \in F /\ \A d \in F \ {c} : Precedes(c, d, score)
    BY <2>2, <2>3, <2>4 DEF FeasibleIn
  <2>6. score \in [Candidates -> Scores]
    BY <1>1, <2>1, ScoresAreTyped DEF EvidenceOK, Inv, DiscoveryTypeOK, Fidelities, Stages
  <2>7. target \in Nat \ {0}
    <3>1. Cardinality(A) \in Nat
      BY <2>2, FS_CardinalityType
    <3>2. QED
      BY <3>1 DEF Target, Half
  <2> HIDE DEF F, score, target, A
  <2>8. c \in Promote(F, target, score)
    BY <2>5, <2>6, <2>7, LeaderSurvivesRacing
  <2>9. QED
    BY <2>1, <2>8 DEF Active2, F, score, target, A
<1>2. QED
  BY <1>1, DiscoveryInvariant, PTL

LEMMA FinalistsRace ==
  ASSUME NEW P, NEW s
  PROVE  Finalists(P, s) = Active2(evidence, P, s)
BY DEF Finalists, Survivors, Active1, Active2, FeasibleIn, Feasible, ScoresIn, ScoreAt

\* The decision can be raced again from the pool of the run that made it, on the
\* evidence as it stands, whichever of the competing commands wrote it and
\* whatever runs over other pools have added to the seed's evidence since.
THEOREM DecisionAlwaysFollowsRule == DiscoverySpec => []DecisionFollowsRule
<1>1. ASSUME Inv PROVE DecisionFollowsRule
  <2> DEFINE s == decision.seed
             c == decision.candidate
             P == decision.pool
             A == Finalists(P, s)
             F == Feasible(A, "G2", s)
             score == ScoreAt("G2", s)
  <2> SUFFICES ASSUME decision.state = "written"
               PROVE  /\ \A d \in A : evidence[d, "G2", s] # NoEvidence
                      /\ c \in F \cap frozen
                      /\ \A d \in F : ~Precedes(d, c, score)
    BY DEF DecisionFollowsRule
  <2>1. Chosen(evidence, c, P, s) /\ c \in frozen
    BY <1>1 DEF Inv, RaceInv, DecisionInv
  <2>2. A = Active2(evidence, P, s)
    BY FinalistsRace
  <2>3. F = FeasibleIn(evidence, A, "G2", s) /\ score = ScoresIn(evidence, "G2", s)
    BY DEF FeasibleIn, Feasible, ScoresIn, ScoreAt
  <2>4. /\ s \in Seeds /\ P \in Pools[s] /\ F # {} /\ c = SelectWinner(F, score)
        /\ Complete(evidence, A, "G2", s)
    BY <2>1, <2>2, <2>3 DEF Chosen
  <2>5. IsFiniteSet(A) /\ A \subseteq Candidates
    BY <2>2, <2>4, StageSets
  <2>6. F \subseteq A
    BY DEF Feasible
  <2>7. F \in SUBSET Candidates /\ IsFiniteSet(F)
    BY <2>5, <2>6, FS_Subset
  <2>8. score \in [Candidates -> Scores]
    BY <1>1, <2>3, <2>4, ScoresAreTyped DEF EvidenceOK, Inv, DiscoveryTypeOK, Fidelities, Stages
  <2>9. \A d \in A : evidence[d, "G2", s] # NoEvidence
    BY <2>4 DEF Complete
  <2> HIDE DEF F, score, A
  <2>10. c \in F /\ \A d \in F \ {c} : Precedes(c, d, score)
    BY <2>4, <2>7, <2>8, WinnerLeads
  <2>11. \A d \in F : ~Precedes(d, c, score)
    BY <2>7, <2>8, <2>10, PrecedesIsTotalOrder
  <2>12. QED
    BY <2>1, <2>9, <2>10, <2>11
<1>2. QED
  BY <1>1, DiscoveryInvariant, PTL

============================================================================
