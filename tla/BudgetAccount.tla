--------------------------- MODULE BudgetAccount ---------------------------
(***************************************************************************)
(* What the two-phase budget of DiscoveryOS promises, without saying how:  *)
(* every claim on the frozen budget is opened for at most what is left,    *)
(* and is then either closed for no more than was asked, or forfeited      *)
(* because the work it paid for overran.  What stands behind claims that   *)
(* were not forfeited therefore never exceeds a capped dimension.          *)
(* ResourceLedger is the detailed specification that implements it.        *)
(***************************************************************************)
EXTENDS Integers

CONSTANTS
  Experiments,  \* the work that claims resources, one claim each
  Dims,         \* resource dimensions: tokens, cpu, gpu, device, wall
  Requested,    \* Requested[e][d]: what experiment e asks for
  Limit         \* Limit[d]: the contract's budget; 0 means "not capped"

VARIABLES
  claim,        \* claim[e]: the life of the claim
  honoured      \* honoured[d]: what unforfeited claims stand for in total

accountVars == <<claim, honoured>>

ClaimStates == {"none", "open", "closed", "forfeit"}

Capped == {d \in Dims : Limit[d] > 0}

Init ==
  /\ claim = [e \in Experiments |-> "none"]
  /\ honoured = [d \in Dims |-> 0]

Open(e) ==
  /\ claim[e] = "none"
  /\ \A d \in Capped : honoured[d] + Requested[e][d] <= Limit[d]
  /\ claim' = [claim EXCEPT ![e] = "open"]
  /\ honoured' = [d \in Dims |-> honoured[d] + Requested[e][d]]

\* Settled for some amount between nothing and what was requested.
Close(e) ==
  /\ claim[e] = "open"
  /\ claim' = [claim EXCEPT ![e] = "closed"]
  /\ honoured' \in [Dims -> Int]
  /\ \A d \in Dims :
       honoured'[d] \in (honoured[d] - Requested[e][d]) .. honoured[d]

Forfeit(e) ==
  /\ claim[e] = "open"
  /\ claim' = [claim EXCEPT ![e] = "forfeit"]
  /\ honoured' = [d \in Dims |-> honoured[d] - Requested[e][d]]

Next == \E e \in Experiments : Open(e) \/ Close(e) \/ Forfeit(e)

Spec == Init /\ [][Next]_accountVars

TypeOK ==
  /\ claim \in [Experiments -> ClaimStates]
  /\ honoured \in [Dims -> Int]

\* The promise of the two-phase budget (docs/DECISIONS.md D-005): whatever
\* the order of claims and settlements, unforfeited claims fit the budget.
WithinLimit == \A d \in Capped : honoured[d] <= Limit[d]
============================================================================
