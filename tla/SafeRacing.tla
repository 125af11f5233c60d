----------------------------- MODULE SafeRacing -----------------------------
(***************************************************************************)
(* How candidates are ranked on their evidence: the Pareto front and the   *)
(* winner rule of src/discoveryos/evaluation/gates.py, and               *)
(* SafeRacing.promote (src/discoveryos/runtime/scheduler.py), which        *)
(* decides who goes on to the next fidelity.                               *)
(*                                                                         *)
(* score[c] is the evidence of candidate c, each metric signed so that     *)
(* less is better; F holds the candidates GateEngine found feasible.       *)
(***************************************************************************)
EXTENDS Integers, Sequences, FiniteSets

CONSTANTS
  Candidates,
  Metrics,
  Objectives,   \* the metrics the Pareto front compares
  MetricOrder,  \* winner_rule.metric_order
  Id            \* the number in a candidate's name, which breaks ties

\* The winner rule orders exactly the objectives.  ProblemContract does not ask
\* for it, but the racing is safe only for contracts, like the demo's, where it
\* holds: a metric only one of the two knows can drop the leader from the front.
ASSUME RacingAssumption ==
  /\ Objectives \subseteq Metrics
  /\ MetricOrder \in Seq(Objectives)
  /\ \A m \in Objectives : \E i \in DOMAIN MetricOrder : MetricOrder[i] = m
  /\ Id \in [Candidates -> Nat]
  /\ \A c, d \in Candidates : Id[c] = Id[d] => c = d

Scores == [Metrics -> Int]

Dominates(s, t) ==
  /\ \A m \in Objectives : s[m] <= t[m]
  /\ \E m \in Objectives : s[m] < t[m]

ParetoFront(F, score) ==
  {c \in F : \A d \in F : ~Dominates(score[d], score[c])}

\* The keys of promote and select_winner: the ordered metrics, then the name.
Before(s, t) ==
  \E i \in DOMAIN MetricOrder :
    /\ s[MetricOrder[i]] < t[MetricOrder[i]]
    /\ \A j \in 1 .. i - 1 : s[MetricOrder[j]] = t[MetricOrder[j]]

Precedes(c, d, score) ==
  \/ Before(score[c], score[d])
  \/ ~Before(score[d], score[c]) /\ Id[c] < Id[d]

\* Mutant: the slice starts one element late.
FirstButOne(S, n, score) ==
  {c \in S : Cardinality({d \in S : Precedes(d, c, score)}) \in 1 .. n}

\* The first n of S in that order.
First(S, n, score) ==
  {c \in S : Cardinality({d \in S : Precedes(d, c, score)}) < n}

\* The front first, then the best of the rest.
Promote(F, target, score) ==
  IF Cardinality(F) <= target THEN F
  ELSE LET selected == First(ParetoFront(F, score), target, score)
       IN selected \cup First(F \ selected, target - Cardinality(selected), score)

\* Mutant: any candidate on the front will do.
SelectOnFront(F, score) == CHOOSE c \in ParetoFront(F, score) : TRUE

SelectWinner(F, score) ==
  CHOOSE c \in F : \A d \in F \ {c} : Precedes(c, d, score)
============================================================================
