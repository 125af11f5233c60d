-------------------------- MODULE SearchProjection --------------------------
(***************************************************************************)
(* LedgerBackedSearchStateProjector (src/discoveryos/runtime/              *)
(* search_loop.py): the controller's state, computed from nothing but the  *)
(* actions and the evidence a ledger holds for a search.                   *)
(* An action is [act, source, result, receipt, used, failed], receipt a    *)
(* position in the evidence or 0; evidence is [cand, rung, seed, value],   *)
(* value 0 when no gate accepts it.  Candidates are numbers: 0 the control *)
(* of the initial population, 1 the root, others as they are generated.    *)
(***************************************************************************)
EXTENDS ActionController, Sequences, Functions, FiniteSetsExt

CONSTANTS
  Budget,           \* budget of the search
  MaxSteps,         \* max_steps
  LocalLimit,       \* local_action_limit
  StructuralLimit,  \* structural_action_limit
  Rungs,            \* rungs are 1..Rungs
  Eta,              \* eta
  Initial,          \* initial_trials
  MinDeltas         \* local deltas it takes to be similar: 2, or 0 for threshold 0

ASSUME ProjectionAssumption ==
  /\ Budget \in Nat \ {0}
  /\ MaxSteps \in Nat \ {0} /\ LocalLimit \in Nat /\ StructuralLimit \in Nat
  /\ Rungs \in Nat \ {0} /\ Eta \in Nat /\ Eta >= 2 /\ Initial \in Nat
  /\ MinDeltas \in {0, 2}

VARIABLES
  actions,   \* table search_actions: the settled steps of the run
  evidence,  \* table evidence, in the order of created_at
  gens       \* table generation_records: set of [cand, ok, cost, novel, delta]

Control == 0
Root == 1
None == -1

\* A mean of up to three integers, times this, is an integer.
Scale == 6

Step == Len(actions)

\* Mutant: an action that failed is not charged.
UsedByAccepted(n) ==
  SumFunction([k \in {k \in 1..n : ~actions[k].failed} |-> actions[k].used])

Used(n) == SumFunction([k \in 1..n |-> actions[k].used])

\* build consumes the budget action by action and raises when it is exceeded.
Overspent == Used(Step) > Budget

Remaining == Budget - Used(Step)

Generated(k) == actions[k].act \in Generative /\ actions[k].result # None

\* _facts: the root and the results of the generative actions.
Scoped == {Root} \cup {actions[k].result : k \in {k \in 1..Step : Generated(k)}}

\* The current candidate is the last of them.
Current ==
  LET K == {k \in 1..Step : Generated(k)}
  IN IF K = {} THEN Root ELSE actions[Max(K)].result

\* last_escape_index: one that came to nothing is no escape.
LastEscape == Max({0} \cup {k \in 1..Step : actions[k].act = "structural" /\ Generated(k)})

Evidence(c) == {i \in DOMAIN evidence : evidence[i].cand = c}

\* The highest fidelity a candidate has evidence of.
Fidelity(c) == Max({1} \cup {evidence[i].rung : i \in Evidence(c)})

\* Its feasible values there: what its utility and uncertainty rest on.
Accepted(c) ==
  {i \in Evidence(c) : evidence[i].rung = Fidelity(c) /\ evidence[i].value # 0}

Feasible(c) == Accepted(c) # {}

\* The scaled mean of values (statistics.fmean).
Mean(I) == (Scale * SumFunction([i \in I |-> evidence[i].value])) \div Cardinality(I)

\* _utility
Utility(c) == Mean(Accepted(c))

\* 1.0 below the minimum of replicates, else a standard error.
Unsure(I) ==
  \/ Cardinality(I) < MinReplicates
  \/ \E i, j \in I : evidence[i].value # evidence[j].value

\* Mutant: only the branch's current candidate competes.
RankedCurrent == {c \in {Current} : Feasible(c)}

Ranked == {c \in Scoped : Feasible(c)}

\* The best utility, and whose it is: by id among equals.
Best ==
  LET ranked == {[utility |-> Utility(c), cand |-> c] : c \in Ranked}
  IN CHOOSE b \in ranked : \A d \in ranked :
       b.utility < d.utility \/ (b.utility = d.utility /\ b.cand <= d.cand)

\* The candidates ASHA promotes out of the first k observations of a rung:
\* _promotion_targets replays all evidence in scope through a new operator.
PromotedFrom(r) ==
  LET obs == SelectSeq(evidence, LAMBDA e : e.rung = r /\ e.cand \in Scoped \cup {Control})
      capacity == Initial \div (Eta ^ r)
      P[k \in 0..Len(obs)] ==
        IF k = 0 THEN {}
        ELSE LET feasible == {i \in 1..k : obs[i].value # 0}
                 eligible == {i \in feasible : obs[i].cand \notin P[k - 1]}
                 allowed  == Min({Cardinality(feasible) \div Eta, capacity})
             IN IF Cardinality(P[k - 1]) < allowed /\ eligible # {}
                  THEN LET best == CHOOSE i \in eligible : \A j \in eligible :
                                     \/ obs[i].value < obs[j].value
                                     \/ obs[i].value = obs[j].value /\ obs[i].cand <= obs[j].cand
                       IN P[k - 1] \cup {obs[best].cand}
                  ELSE P[k - 1]
  IN P[Len(obs)]

\* _recent_improvements: the generative actions since the last structural one,
\* it included, and how many at the end of them did not improve on their source.
Improved(k) ==
  LET a == actions[k].source b == actions[k].result
  IN Feasible(a) /\ Feasible(b) /\ Utility(b) < Utility(a)

SinceImprovement ==
  LET cleared == Max({1} \cup {k \in 1..Step : actions[k].act = "structural"})
      K == {k \in cleared..Step : Generated(k)}
  IN Cardinality({k \in K : \A j \in K : j >= k => ~Improved(j)})

LocalSinceEscape == {k \in (LastEscape + 1)..Step : actions[k].act = "local"}

Delta(c) == (CHOOSE g \in gens : g.cand = c).delta

\* _recent_delta_similarity of the last two local candidates.
Alike ==
  LET K == {k \in LocalSinceEscape : actions[k].result # None}
      last == Max(K)
      previous == Max(K \ {last})
  IN \/ MinDeltas = 0
     \/ /\ Cardinality(K) >= MinDeltas
        /\ Delta(actions[last].result) = Delta(actions[previous].result)

Known(c) ==
  LET I == Accepted(c)
      r == Fidelity(c)
  IN [active   |-> c = Current,
      rung     |-> r,
      feasible |-> I # {},
      utility  |-> IF I = {} THEN 0 ELSE Mean(I),
      reps     |-> Cardinality(I),
      unsure   |-> Unsure(I),
      promoted |-> r < Rungs /\ c \in PromotedFrom(r)]

\* build.  It raises on an overspent budget (Overspent) and when no candidate
\* has a utility (Ranked = {}).
Projection ==
  [step       |-> Step,
   cands      |-> [c \in Scoped |-> Known(c)],
   current    |-> Current,
   incumbent  |-> Best.cand,
   best       |-> Best.utility,
   open       |-> Step < MaxSteps /\ Remaining > 0,
   since      |-> SinceImprovement,
   evidenced  |-> (\E c \in Scoped : Evidence(c) # {})
                    /\ (SinceImprovement >= Stagnation
                          \/ \E k \in LocalSinceEscape : actions[k].failed),
   alike      |-> Alike,
   local      |-> Max({0, LocalLimit - Cardinality(LocalSinceEscape)}),
   structural |-> Max({0, StructuralLimit
                     - Cardinality({k \in 1..Step : actions[k].act = "structural"})}),
   remaining  |-> Remaining]
==============================================================================
