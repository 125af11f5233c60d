-------------------------- MODULE ActionController --------------------------
(***************************************************************************)
(* DeterministicActionController.decide (src/discoveryos/operators/        *)
(* action_controller.py): which action a search takes next, as a function  *)
(* of a projected state                                                    *)
(*   s = [step, cands, current, incumbent, best, open, since, evidenced,    *)
(*        alike, local, structural, remaining]                             *)
(* whose cands maps candidates to what is known of them.  Utilities are    *)
(* signed so that less is better; budgets have one dimension.              *)
(***************************************************************************)
EXTENDS Integers, FiniteSets

CONSTANTS
  Stagnation,     \* stagnation_generations
  MinReplicates,  \* minimum_replicates
  Proximity,      \* incumbent_proximity, in the scale of the utilities
  Floor,          \* resource_floor of each action
  Downstream      \* downstream_action_reserve of each action

SearchAction == {"local", "structural", "replicate", "promote"}

Generative == {"local", "structural"}

ASSUME ControllerAssumption ==
  /\ Stagnation \in Nat \ {0}
  /\ MinReplicates \in Nat \ {0}
  /\ Proximity \in Nat
  /\ Floor \in [SearchAction -> Nat \ {0}]
  /\ Downstream \in [SearchAction -> Nat]

\* Mutant: candidates of abandoned branches compete.
ActiveAll(s) == DOMAIN s.cands

Active(s) == {c \in DOMAIN s.cands : s.cands[c].active}

Distance(s, c) ==
  LET d == s.cands[c].utility - s.best IN IF d < 0 THEN -d ELSE d

\* _replication_candidate: too few replicates, and uncertain or near the best.
Replicable(s) ==
  {c \in Active(s) :
     /\ s.cands[c].feasible
     /\ s.cands[c].reps < MinReplicates
     /\ s.cands[c].unsure \/ Distance(s, c) <= Proximity}

\* _promotion_candidate: ASHA has a place for it and its value is settled.
Promotable(s) ==
  {c \in Active(s) :
     /\ s.cands[c].feasible /\ s.cands[c].promoted
     /\ ~s.cands[c].unsure
     /\ s.cands[c].reps >= MinReplicates}

Nearest(s, C) ==
  CHOOSE c \in C : \A d \in C :
    \/ Distance(s, c) < Distance(s, d)
    \/ Distance(s, c) = Distance(s, d) /\ c <= d

Fittest(s, C) ==
  CHOOSE c \in C : \A d \in C :
    \/ s.cands[c].utility < s.cands[d].utility
    \/ s.cands[c].utility = s.cands[d].utility /\ c <= d

\* _stop, with the action the budget preflight rejected if it did.
Halt(rejected) == [act |-> "stop", cand |-> 0, rung |-> 0, rejected |-> rejected]

\* What the action and the one held back for it would take.
Reserved(s, act) ==
  Floor[act] + (IF act = "local" /\ s.structural <= 0 THEN 0 ELSE Downstream[act])

\* _decision_or_stop: an action is admitted only if its reservation fits.
Admit(s, act, c, rung) ==
  IF Reserved(s, act) <= s.remaining
    THEN [act |-> act, cand |-> c, rung |-> rung, rejected |-> "none"]
    ELSE Halt(act)

\* A stagnant branch escapes if its evidence, deltas and budget say so.
Escape(s, drawn) ==
  IF s.evidenced /\ s.alike /\ s.structural > 0
    THEN Admit(s, "structural", drawn, s.cands[drawn].rung)
    ELSE Halt("none")

Patch(s, drawn) ==
  IF s.local > 0
    THEN Admit(s, "local", drawn, s.cands[s.current].rung)
    ELSE Halt("none")

\* decide; drawn is the parent the parent policy selects.
Decide(s, drawn) ==
  IF ~s.open \/ Active(s) = {} THEN Halt("none")
  ELSE IF Replicable(s) # {}
    THEN LET c == Nearest(s, Replicable(s)) IN Admit(s, "replicate", c, s.cands[c].rung)
  ELSE IF Promotable(s) # {}
    THEN LET c == Fittest(s, Promotable(s)) IN Admit(s, "promote", c, s.cands[c].rung + 1)
  ELSE IF s.current \notin Active(s) THEN Halt("none")
  ELSE IF s.since >= Stagnation THEN Escape(s, drawn)
  ELSE Patch(s, drawn)
==============================================================================
