-------------------------- MODULE SuccessiveHalving --------------------------
(***************************************************************************)
(* The decisions of ASHAOperator (src/discoveryos/operators/asha.py): how  *)
(* a rung ranks what it observed, how many of its trials it may promote,   *)
(* which one is next, and what replay_promotion accepts.  Observations are *)
(* receipts [cand, rung, attempt, via, outcome]; a rung sees a sequence of *)
(* them.  Candidates are numbers, so that candidate_id breaks ties.        *)
(***************************************************************************)
EXTENDS Integers, Sequences, FiniteSets

CONSTANTS
  Initial,  \* initial_trials: the candidates of the run are 1..Initial
  Eta,      \* eta
  Rungs,    \* the number of rungs
  Score     \* Score[r][c]: the metric of c at rung r, smaller is better

Candidates == 1..Initial

ASSUME HalvingAssumption ==
  /\ Eta \in Nat /\ Eta >= 2
  /\ Initial \in Nat /\ Initial >= Eta
  /\ Rungs \in Nat /\ Rungs >= 2
  /\ Score \in [1..Rungs -> [Candidates -> Int]]

\* eta ** n
Power[n \in 0..Rungs] == IF n = 0 THEN 1 ELSE Eta * Power[n - 1]

\* _promotion_capacity: initial_trials // eta ** (index + 1).
Capacity == [r \in 1..Rungs |-> Initial \div Power[r]]

\* The positions of a rung's observations that the gates find feasible.
Feasible(obs) == {i \in DOMAIN obs : obs[i].outcome = "feasible"}

\* The sort key of _rank_items: (signed metric, candidate_id).
RanksBefore(a, b) ==
  \/ Score[a.rung][a.cand] < Score[b.rung][b.cand]
  \/ Score[a.rung][a.cand] = Score[b.rung][b.cand] /\ a.cand < b.cand

Min2(m, n) == IF m <= n THEN m ELSE n

\* Mutant: a slot opens only beyond each full group of eta.
AllowedLate(r, obs) ==
  Min2((Cardinality(Feasible(obs)) - 1) \div Eta, Capacity[r])

\* How many of the rung's observations may have been promoted by now.
Allowed(r, obs) == Min2(Cardinality(Feasible(obs)) \div Eta, Capacity[r])

\* The feasible observations whose candidate is not among the promoted.
Eligible(obs, promoted) ==
  {i \in Feasible(obs) : \A k \in DOMAIN promoted : obs[i].cand # promoted[k]}

\* Mutant: the newest eligible observation is promoted.
NextPromotionNewest(obs, promoted) ==
  CHOOSE i \in Eligible(obs, promoted) : \A j \in Eligible(obs, promoted) : j <= i

\* The best ranked of them: the selection of observe and of replay_promotion.
NextPromotion(obs, promoted) ==
  CHOOSE i \in Eligible(obs, promoted) :
    \A j \in Eligible(obs, promoted) \ {i} : RanksBefore(obs[i], obs[j])

\* observe opens min(allowed, capacity) - len(promoted) slots.
SlotOpen(r, obs, promoted) ==
  /\ Len(promoted) < Allowed(r, obs)
  /\ Eligible(obs, promoted) # {}

\* replay_promotion accepts a promotion of cand out of the observations obs
\* of rung r, made when the candidates "before" had been promoted.
Replays(r, cand, obs, before) ==
  /\ \A i \in DOMAIN obs : obs[i].rung = r
  /\ Len(before) < Allowed(r, obs)
  /\ Eligible(obs, before) # {}
  /\ obs[NextPromotion(obs, before)].cand = cand
==============================================================================
